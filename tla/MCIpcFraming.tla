---------------------------- MODULE MCIpcFraming ----------------------------
(* Model values for IpcFraming: two message identities, payloads of up to *)
(* two bytes that may contain the newline byte, three writes, and          *)
(* undecodable lines among them.                                           *)
EXTENDS IpcFraming

MCMsgs == {"a", "b"}
MCPayloadBytes == {"x", "nl"}
=============================================================================
