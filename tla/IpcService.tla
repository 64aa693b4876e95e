----------------------------- MODULE IpcService -----------------------------
(***************************************************************************)
(* The lifecycle and the outbound side of RuntimeControlService           *)
(* (src/runtime/runtime_service.cpp): Start, Stop, the IPC thread          *)
(* (EnsureClientConnected, the RunLoop iteration, the final console       *)
(* flush), the console write handler, and the threads that publish        *)
(* events (display frames, runtime state).  Decoding of inbound messages  *)
(* is IpcFraming's subject and is left out here.                           *)
(*                                                                         *)
(* An event sender first takes request_id = next_event_id_++ and then     *)
(* calls Send, which takes send_mutex_ and reads pipe_handle_ in one step *)
(* and calls WriteFile in the next.  Stop takes no lock: it closes the    *)
(* handle and only then resets pipe_handle_.  next_event_id_ is taken as an *)
(* atomic counter (its declaration is not in the repository).  Console    *)
(* data is counted in chunks, one per ManagedConsolePort::Write.           *)
(***************************************************************************)
EXTENDS Naturals, Sequences

CONSTANTS
  Senders,        \* threads publishing events besides the IPC thread
  MaxEvents,      \* bound on the ids the other senders take
  MaxConsole,     \* bound on the console writes of the guest
  PartialWrites   \* whether WriteFile may write part of a message

VARIABLES
  main,           \* phase of the owner thread: Start ... Stop's join
  running,        \* running_
  ipc,            \* phase of the IPC thread
  handle,         \* pipe_handle_: "null" or "h"
  closed,         \* CloseHandle has been called on h
  mutex,          \* the holder of send_mutex_, or "none"
  client,         \* the manager end of the pipe: absent, connected, gone
  nextId,         \* next_event_id_
  sender,         \* phase of each event-publishing thread
  sid,            \* the request_id each sender (and the IPC thread) holds
  consoleBuf,     \* console_buf_, in chunks
  taking,         \* the chunks the IPC thread swapped out and is sending
  wire,           \* history: the events written, [id, whole]
  appended,       \* history: console chunks handed to the write handler
  flushed         \* history: console chunks written to the pipe whole

vars == <<main, running, ipc, handle, closed, mutex, client, nextId, sender, sid,
          consoleBuf, taking, wire, appended, flushed>>

Ipc == "ipc"
MaxId == MaxEvents + MaxConsole + 1
IpcPcs == {"idle", "connecting", "setHandle", "loop", "flushSend",
           "flushWrite", "finalFlush", "finalSend", "finalWrite", "done"}

TypeOK ==
  /\ main \in {"init", "started", "stopClose", "stopReset", "joining", "stopped"}
  /\ running \in BOOLEAN
  /\ ipc \in IpcPcs
  /\ handle \in {"null", "h"}
  /\ closed \in BOOLEAN
  /\ mutex \in Senders \cup {Ipc, "none"}
  /\ client \in {"absent", "connected", "gone"}
  /\ nextId \in 0 .. MaxId
  /\ sender \in [Senders -> {"idle", "send", "write"}]
  /\ sid \in [Senders \cup {Ipc} -> 0 .. MaxId]
  /\ consoleBuf \in 0 .. MaxConsole
  /\ taking \in 0 .. MaxConsole
  /\ wire \in Seq([id : 0 .. MaxId, whole : BOOLEAN])
  /\ appended \in 0 .. MaxConsole
  /\ flushed \in 0 .. MaxConsole

Init ==
  /\ main = "init"
  /\ running = FALSE
  /\ ipc = "idle"
  /\ handle = "null"
  /\ closed = FALSE
  /\ mutex = "none"
  /\ client = "absent"
  /\ nextId = 0
  /\ sender = [s \in Senders |-> "idle"]
  /\ sid = [s \in Senders \cup {Ipc} |-> 0]
  /\ consoleBuf = 0
  /\ taking = 0
  /\ wire = <<>>
  /\ appended = 0
  /\ flushed = 0

-----------------------------------------------------------------------------
(* Send / SendWithPayload up to WriteFile, by thread t: take send_mutex_ *)
(* and read pipe_handle_; with no handle, return false and unlock.  The  *)
(* caller goes on to WriteFile when a handle was read.                   *)
SendLock(t) ==
  /\ mutex = "none"
  /\ mutex' = IF handle = "h" THEN t ELSE mutex

(* WriteFile(h) of the message with request id `id` carrying `chunks`    *)
(* console chunks, then unlock.  It writes only while h is open and the  *)
(* peer is there; WriteFile may write the whole message or, where         *)
(* PartialWrites holds, part of it.  The false result is ignored by every *)
(* caller.                                                                 *)
SendWrite(id, chunks) ==
  /\ mutex' = "none"
  /\ IF ~closed /\ client = "connected"
       THEN \E whole \in IF PartialWrites THEN BOOLEAN ELSE {TRUE} :
              /\ wire' = Append(wire, [id |-> id, whole |-> whole])
              /\ flushed' = IF whole THEN flushed + chunks ELSE flushed
       ELSE UNCHANGED <<wire, flushed>>

(* RuntimeControlService::Start.                                           *)
Start ==
  /\ main = "init"
  /\ main' = "started"
  /\ running' = TRUE
  /\ ipc' = "connecting"
  /\ UNCHANGED <<handle, closed, mutex, client, nextId, sender, sid, consoleBuf, taking,
                 wire, appended, flushed>>

(* Stop, first statement: running_ = false.                                *)
StopClear ==
  /\ main = "started"
  /\ main' = "stopClose"
  /\ running' = FALSE
  /\ UNCHANGED <<ipc, handle, closed, mutex, client, nextId, sender, sid, consoleBuf,
                 taking, wire, appended, flushed>>

(* Stop: if pipe_handle_ is set, CancelIoEx, DisconnectNamedPipe and     *)
(* CloseHandle on it; send_mutex_ is not taken.                            *)
StopClose ==
  /\ main = "stopClose"
  /\ IF handle = "h"
       THEN /\ main' = "stopReset"
            /\ closed' = TRUE
            /\ client' = IF client = "connected" THEN "gone" ELSE client
       ELSE /\ main' = "joining"
            /\ UNCHANGED <<closed, client>>
  /\ UNCHANGED <<running, ipc, handle, mutex, nextId, sender, sid, consoleBuf,
                 taking, wire, appended, flushed>>

(* Stop: pipe_handle_ = nullptr, after the close.                          *)
StopReset ==
  /\ main = "stopReset"
  /\ main' = "joining"
  /\ handle' = "null"
  /\ UNCHANGED <<running, ipc, closed, mutex, client, nextId, sender, sid,
                 consoleBuf, taking, wire, appended, flushed>>

(* Stop: thread_.join().                                                   *)
StopJoin ==
  /\ main = "joining"
  /\ ipc = "done"
  /\ main' = "stopped"
  /\ UNCHANGED <<running, ipc, handle, closed, mutex, client, nextId, sender, sid,
                 consoleBuf, taking, wire, appended, flushed>>

-----------------------------------------------------------------------------
(* EnsureClientConnected: CreateNamedPipeA fails, RunLoop returns.        *)
CreatePipeFails ==
  /\ ipc = "connecting"
  /\ client = "absent"
  /\ ipc' = "done"
  /\ UNCHANGED <<main, running, handle, closed, mutex, client, nextId, sender, sid,
                 consoleBuf, taking, wire, appended, flushed>>

(* ConnectNamedPipe returns once the manager has connected; if it has    *)
(* already left again the call fails and RunLoop returns.                 *)
ConnectReturns ==
  /\ ipc = "connecting"
  /\ client # "absent"
  /\ ipc' = IF client = "connected" THEN "setHandle" ELSE "done"
  /\ UNCHANGED <<main, running, handle, closed, mutex, client, nextId, sender, sid,
                 consoleBuf, taking, wire, appended, flushed>>

(* EnsureClientConnected: pipe_handle_ = h.                                *)
SetHandle ==
  /\ ipc = "setHandle"
  /\ handle' = "h"
  /\ ipc' = "loop"
  /\ UNCHANGED <<main, running, closed, mutex, client, nextId, sender, sid,
                 consoleBuf, taking, wire, appended, flushed>>

(* Mutant of LoopCheckRunning: the loop runs until the pipe breaks, as if *)
(* its condition were while (true).                                        *)
LoopCheckRunningNever == FALSE

(* RunLoop: while (running_) is false; leave for the final flush.           *)
LoopCheckRunning ==
  /\ ipc = "loop"
  /\ ~running
  /\ ipc' = "finalFlush"
  /\ UNCHANGED <<main, running, handle, closed, mutex, client, nextId, sender, sid,
                 consoleBuf, taking, wire, appended, flushed>>

(* Mutant of FlushConsoleBuf: the buffer is copied instead of swapped,    *)
(* so the same chunks are sent again on every flush.                       *)
FlushConsoleBufCopy(next) ==
  /\ consoleBuf > 0
  /\ taking' = consoleBuf
  /\ consoleBuf' = consoleBuf
  /\ sid' = [sid EXCEPT ![Ipc] = nextId]
  /\ nextId' = nextId + 1
  /\ ipc' = next

(* FlushConsoleBuf up to Send: return when console_buf_ is empty,          *)
(* otherwise swap it out under its mutex and take a request id.            *)
FlushConsoleBuf(next) ==
  /\ consoleBuf > 0
  /\ taking' = consoleBuf
  /\ consoleBuf' = 0
  /\ sid' = [sid EXCEPT ![Ipc] = nextId]
  /\ nextId' = nextId + 1
  /\ ipc' = next

(* Mutant of LoopFlush: last_console_flush_ is refreshed on every pass,   *)
(* so 16 ms never elapse and the loop never flushes.                       *)
LoopFlushNever == FALSE

(* RunLoop: 16 ms since the last flush, flush the console buffer.          *)
LoopFlush ==
  /\ ipc = "loop"
  /\ running
  /\ FlushConsoleBuf("flushSend")
  /\ UNCHANGED <<main, running, handle, closed, mutex, client, sender, wire, appended,
                 flushed>>

(* FlushConsoleBuf: Send(event), up to WriteFile; with no handle the    *)
(* chunks taken are dropped.                                               *)
FlushSend ==
  /\ ipc \in {"flushSend", "finalSend"}
  /\ SendLock(Ipc)
  /\ ipc' = CASE handle = "h" /\ ipc = "flushSend" -> "flushWrite"
            [] handle = "h"                       -> "finalWrite"
            [] ipc = "flushSend"                  -> "loop"
            [] OTHER                              -> "done"
  /\ taking' = IF handle = "h" THEN taking ELSE 0
  /\ UNCHANGED <<main, running, handle, closed, client, nextId, sender, sid,
                 consoleBuf, wire, appended, flushed>>

(* FlushConsoleBuf: Send's WriteFile.                                      *)
FlushWrite ==
  /\ ipc \in {"flushWrite", "finalWrite"}
  /\ SendWrite(sid[Ipc], taking)
  /\ taking' = 0
  /\ ipc' = IF ipc = "flushWrite" THEN "loop" ELSE "done"
  /\ UNCHANGED <<main, running, handle, closed, client, nextId, sender, sid,
                 consoleBuf, appended>>

(* RunLoop: PeekNamedPipe fails with ERROR_BROKEN_PIPE; break.  With      *)
(* running_ already false the loop check leaves to the same state.       *)
LoopPeekBroken ==
  /\ ipc = "loop"
  /\ client = "gone"
  /\ ipc' = "finalFlush"
  /\ UNCHANGED <<main, running, handle, closed, mutex, client, nextId, sender, sid,
                 consoleBuf, taking, wire, appended, flushed>>

(* The FlushConsoleBuf after the loop, then the thread ends.               *)
FinalFlush ==
  /\ ipc = "finalFlush"
  /\ \/ FlushConsoleBuf("finalSend")
     \/ /\ consoleBuf = 0
        /\ ipc' = "done"
        /\ UNCHANGED <<taking, consoleBuf, sid, nextId>>
  /\ UNCHANGED <<main, running, handle, closed, mutex, client, sender, wire, appended,
                 flushed>>

-----------------------------------------------------------------------------
(* The console write handler set in the constructor: append under          *)
(* console_buf_mutex_ (ManagedConsolePort::Write from a device thread).    *)
ConsoleWrite ==
  /\ appended < MaxConsole
  /\ consoleBuf' = consoleBuf + 1
  /\ appended' = appended + 1
  /\ UNCHANGED <<main, running, ipc, handle, closed, mutex, client, nextId, sender, sid,
                 taking, wire, flushed>>

(* The display frame handler or PublishState: request_id = next_event_id_++. *)
AssignId(s) ==
  /\ sender[s] = "idle"
  /\ nextId < MaxEvents
  /\ sid' = [sid EXCEPT ![s] = nextId]
  /\ nextId' = nextId + 1
  /\ sender' = [sender EXCEPT ![s] = "send"]
  /\ UNCHANGED <<main, running, ipc, handle, closed, mutex, client, consoleBuf, taking,
                 wire, appended, flushed>>

(* ... then SendWithPayload / Send, up to WriteFile.                      *)
SendEvent(s) ==
  /\ sender[s] = "send"
  /\ SendLock(s)
  /\ sender' = [sender EXCEPT ![s] = IF handle = "h" THEN "write" ELSE "idle"]
  /\ UNCHANGED <<main, running, ipc, handle, closed, client, nextId, sid,
                 consoleBuf, taking, wire, appended, flushed>>

(* ... and its WriteFile.                                                   *)
EventWrite(s) ==
  /\ sender[s] = "write"
  /\ SendWrite(sid[s], 0)
  /\ sender' = [sender EXCEPT ![s] = "idle"]
  /\ UNCHANGED <<main, running, ipc, handle, closed, client, nextId, sid,
                 consoleBuf, taking, appended>>

(* The manager connects to the pipe the IPC thread created, or goes away.  *)
ClientConnect ==
  /\ client = "absent"
  /\ ipc = "connecting"
  /\ client' = "connected"
  /\ UNCHANGED <<main, running, ipc, handle, closed, mutex, nextId, sender, sid,
                 consoleBuf, taking, wire, appended, flushed>>

ClientDisconnect ==
  /\ client = "connected"
  /\ client' = "gone"
  /\ UNCHANGED <<main, running, ipc, handle, closed, mutex, nextId, sender, sid,
                 consoleBuf, taking, wire, appended, flushed>>

(* Stop has joined; the service is gone.                                   *)
Stopped ==
  /\ main = "stopped"
  /\ UNCHANGED vars

(* Every step but the senders' taking of an id.                          *)
ServiceNext ==
  \/ Start \/ StopClear \/ StopClose \/ StopReset \/ StopJoin
  \/ CreatePipeFails \/ ConnectReturns \/ SetHandle
  \/ LoopCheckRunning \/ LoopFlush \/ FlushSend \/ FlushWrite
  \/ LoopPeekBroken \/ FinalFlush
  \/ ConsoleWrite \/ ClientConnect \/ ClientDisconnect \/ Stopped
  \/ \E s \in Senders : SendEvent(s) \/ EventWrite(s)

Next == ServiceNext \/ \E s \in Senders : AssignId(s)

(* Every thread the code leaves runnable keeps running: the IPC thread's  *)
(* loop (the 16 ms flush included), Stop once called, and each sender.   *)
(* Start and Stop are the owner's choice and are not forced.              *)
ThreadFairness ==
  /\ WF_vars(StopClose) /\ WF_vars(StopReset) /\ WF_vars(StopJoin)
  /\ WF_vars(ConnectReturns) /\ WF_vars(SetHandle)
  /\ WF_vars(LoopCheckRunning) /\ WF_vars(LoopFlush)
  /\ WF_vars(FlushSend) /\ WF_vars(FlushWrite)
  /\ WF_vars(LoopPeekBroken) /\ WF_vars(FinalFlush)
  /\ \A s \in Senders : WF_vars(SendEvent(s)) /\ WF_vars(EventWrite(s))

(* The manager is another process: it may never connect (it crashed or  *)
(* was not started), so ClientConnect is not fair.                         *)
Spec == Init /\ [][Next]_vars /\ ThreadFairness

-----------------------------------------------------------------------------
(* The IPC thread is past ConnectNamedPipe.  Before that Stop's join waits *)
(* for a manager to connect, which nothing in the code forces (a hazard   *)
(* of EnsureClientConnected, not a property of the rest of the thread).   *)
PastConnect == ipc \notin {"idle", "connecting"}

(* Stop returns once it is called with the IPC thread past the connect:   *)
(* whatever the thread is doing (setting pipe_handle_, looping, flushing, *)
(* writing), the join completes: running_ cleared, the pipe closed, the   *)
(* loop and the final flush ended.                                         *)
StopCompletes == (main = "stopClose" /\ PastConnect) ~> (main = "stopped")

(* The session is over: Stop has begun, the peer left, or the IPC thread  *)
(* has returned.                                                           *)
SessionOver == ~running \/ client = "gone" \/ ipc = "done"

(* Console output reaches the manager: every chunk the guest writes to    *)
(* the console port is eventually written to the pipe by the 16 ms flush  *)
(* of RunLoop once the IPC thread is past the connect (chunks written     *)
(* before it wait in console_buf_), unless the session is over first.      *)
ConsoleDelivered ==
  \A k \in 1 .. MaxConsole :
    (appended >= k /\ PastConnect) ~> (flushed >= k \/ SessionOver)
=============================================================================
