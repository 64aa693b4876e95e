---------------------------- MODULE MCInputPath ----------------------------
(* Model values for InputPath: left Ctrl and right Alt; the left button;  *)
(* two console inputs of distinct bytes (0x1f and 0x0a, whose nibbles     *)
(* differ), so a lost, repeated or reordered byte shows; read buffers of  *)
(* one and two bytes; and control requests of each kind the runtime       *)
(* tells apart, runtime.command with and without its command field.       *)
EXTENDS InputPath

(* Left Ctrl and right Alt as Windows sends them: the generic code, with  *)
(* their scan codes and, for the right-hand key, the extended bit.        *)
MCKeys == {[vk |-> 17, ext |-> FALSE, sc |-> 29], [vk |-> 18, ext |-> TRUE, sc |-> 56]}
MCButtons == {1}
MCReadSizes == {1, 2}
MCConsoleInputs == {<<31, 10>>, <<10>>}

(* runtime.command with a command, and with none.  request_id is filled  *)
(* in from the manager's counter when the request is sent.       *)
Command(c) == [type |-> "runtime.command", fields |-> ("command" :> c), request_id |-> 0]
NoCommand == [type |-> "runtime.command", fields |-> <<>>, request_id |-> 0]
(* runtime.update_network: link down, two forwards counted, the first     *)
(* 8:2, the second -1:2, which %u reads as 4294967295.                     *)
Network == [type |-> "runtime.update_network",
            fields |-> ("link_up" :> "false")
                       @@ ("forward_count" :> <<"2">>)
                       @@ ("forward_0" :> <<"8", ":", "2">>)
                       @@ ("forward_1" :> <<"-", "1", ":", "2">>),
            request_id |-> 0]
PingRequest == [type |-> "runtime.ping", fields |-> <<>>, request_id |-> 0]

MCControlRequests ==
  {Command("shutdown"), NoCommand, Network, PingRequest}

(* Every text a parsed field of a message may hold.                         *)
MCFieldTexts ==
  UNION {{m.fields[f] : f \in DOMAIN m.fields \ {"command", "link_up", "pressed"}} :
           m \in Message}

MCHexAlphabet == {"0", "9", "a", "f", "A", "F", "g"}
=============================================================================
