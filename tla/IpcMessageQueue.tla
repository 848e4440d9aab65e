--------------------------- MODULE IpcMessageQueue ---------------------------
(***************************************************************************)
(* src/IpcMessageQueue.cc over one System V message queue.                 *)
(*                                                                         *)
(* All processes derive the same key from KEYFILE and PROJECT_ID, so at    *)
(* any time at most one queue answers to the key: qid is its identifier,   *)
(* NoQueue when there is none.  A queue that was removed and created again *)
(* has another identifier, which is why an object keeps the identifier its *)
(* constructor obtained and every later call may find it dead.             *)
(*                                                                         *)
(* msgrcv() with a positive type takes the first message of that type, so  *)
(* only the order inside a type matters: queue holds one sequence per type.*)
(***************************************************************************)
EXTENDS R82xxTunerTester

CONSTANT MaxMessages   \* how many messages the kernel queue holds

ASSUME MaxMessagesAssumption == MaxMessages \in Nat \ {0}

VARIABLES
  qid,      \* the identifier msgget() finds for the key
  lastId,   \* the last identifier the kernel gave out
  queue     \* [MessageType -> Seq(Body)]: the messages waiting

queueVars == <<qid, lastId, queue>>

NoQueue == 0

EmptyQueue == [type \in MessageType |-> << >>]

QueueTypeOK ==
  /\ lastId \in Nat
  /\ qid \in 0 .. lastId
  /\ queue \in [MessageType -> Seq(Body)]

QueueInit ==
  /\ qid = NoQueue
  /\ lastId = 0
  /\ queue = EmptyQueue

Attached(id) == id # NoQueue /\ id = qid

Occupancy ==
    Len(queue[RadioServerTypeCmd]) + Len(queue[RadioServerTypeAck])
  + Len(queue[SpectrumServerTypeCmd]) + Len(queue[SpectrumServerTypeAck])

-----------------------------------------------------------------------------
(* Constructor: msgget(key, IPC_CREAT) finds the queue or creates it.       *)

OpenedId == IF qid = NoQueue THEN lastId + 1 ELSE qid

(* Mutation: an identifier is given out that was never counted.             *)
OpenQueueUncounted ==
  /\ qid' = OpenedId
  /\ UNCHANGED <<lastId, queue>>

OpenQueue ==
  /\ qid' = OpenedId
  /\ lastId' = IF qid = NoQueue THEN lastId + 1 ELSE lastId
  /\ UNCHANGED queue

(* ftok() or msgget() fails.  After ftok() the identifier is not assigned,  *)
(* which only a caller would notice that has the queue removed at the end.  *)
OpenFails == "openFails" \in Faults /\ UNCHANGED queueVars

(* msgctl(IPC_RMID) discards every waiting message; whoever is blocked in,  *)
(* or later calls, msgsnd() or msgrcv() on this identifier gets an error.   *)

RemoveQueue ==
  /\ qid' = NoQueue
  /\ queue' = EmptyQueue
  /\ UNCHANGED lastId

(* Destructor of the object that holds identifier id.                       *)
Destroy(id, removeQueueInDestructor) ==
  IF removeQueueInDestructor /\ Attached(id)
  THEN RemoveQueue
  ELSE UNCHANGED queueVars

-----------------------------------------------------------------------------
(* sendData() blocks while the queue is full and returns false on an error. *)

SendData(id, type, body) ==
  /\ Attached(id)
  /\ Occupancy < MaxMessages
  /\ queue' = [queue EXCEPT ![type] = Append(@, body)]
  /\ UNCHANGED <<qid, lastId>>

SendDataFails(id) ==
  /\ ~Attached(id) \/ "sendFails" \in Faults
  /\ UNCHANGED queueVars

(* receiveData() blocks until a message of the type is there.               *)

Received(type) == Head(queue[type])

ReceiveData(id, type) ==
  /\ Attached(id)
  /\ queue[type] # << >>
  /\ queue' = [queue EXCEPT ![type] = Tail(@)]
  /\ UNCHANGED <<qid, lastId>>

ReceiveDataFails(id) == ~Attached(id) /\ UNCHANGED queueVars

-----------------------------------------------------------------------------
(* test/radioClient.cc and test/spectrumClient.cc open the same key with    *)
(* removeQueueInDestructor = true: when one of them exits, the queue goes.  *)

QueueRemovedByOther ==
  /\ "queueRemoved" \in Faults
  /\ qid # NoQueue
  /\ RemoveQueue

=============================================================================
