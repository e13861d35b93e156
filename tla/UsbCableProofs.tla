--------------------------- MODULE UsbCableProofs ---------------------------
(* What UsbCable keeps for every number of commands, requests and           *)
(* interruptions.                                                           *)
EXTENDS UsbCable, SequenceTheorems, TLAPS

Commands == {i \in DOMAIN up : up[i].type = "command"}

\* The page learns of commands in the order in which they were sent, and the
\* one it waits for was sent before those it has yet to learn of.
InOrder == \A i, j \in Commands : i < j => up[i].q < up[j].q
PendingFirst ==
  /\ pending <= cur
  /\ \A i \in Commands : pending < up[i].q /\ up[i].q <= cur
SleeperHasNumber == job = "asleep" => cur # 0

Inv == TypeOK /\ InOrder /\ PendingFirst /\ SleeperHasNumber /\ SleeperIsServed

LEMMA InitInv ==
  ASSUME Init
  PROVE  Inv
<1>1. PythonTypes
  BY BoundsAssumption DEF Init, PythonTypes, Unset, Jobs
<1>2. PageTypes /\ ChannelTypes
  BY BoundsAssumption DEF Init, PageTypes, ChannelTypes, WorkerMessages, Jobs
<1>3. DeviceTypes
  <2>1. cmds \in Seq(Query) /\ out \in Seq(Line)
    BY DEF Init
  <2>2. fw \in 0..MaxQueries /\ events \in 0..MaxEvents
    BY BoundsAssumption DEF Init
  <2>3. QED
    BY <2>1, <2>2 DEF Init, DeviceTypes, Phases
<1>4. Commands = {}
  BY DEF Init, Commands
<1>5. InOrder /\ PendingFirst
  BY <1>4 DEF Init, InOrder, PendingFirst
<1>6. SleeperHasNumber /\ SleeperIsServed
  BY DEF Init, SleeperHasNumber, SleeperIsServed
<1>7. QED
  BY <1>1, <1>2, <1>3, <1>5, <1>6 DEF Inv, TypeOK

---------------------------------------------------------------------------
(* Type correctness: what an operator of the page puts where, then one step *)
(* per action.                                                              *)

LEMMA InterruptionTypes ==
  ASSUME TypeOK, Interruption
  PROVE  events' \in 0..MaxEvents
  BY BoundsAssumption DEF TypeOK, DeviceTypes, Interruption

LEMMA RefusedType ==
  Refused \in [done : BOOLEAN, lines : Seq(Line)] /\ Unset \in [done : BOOLEAN, lines : Seq(Line)]
  BY DEF Refused, Unset

\* What a query that waits may hold.
WaitTypes ==
  /\ pending \in 0..MaxQueries /\ chunks \in Seq(Line)
  /\ buf \in [done : BOOLEAN, lines : Seq(Line)]
PlugTypes == cable \in BOOLEAN /\ down \in Seq(WorkerMessages)

LEMMA FinishTypes ==
  ASSUME TypeOK, NEW r \in [done : BOOLEAN, lines : Seq(Line)], Finish(r)
  PROVE  WaitTypes'
<1>1. 0 \in 0..MaxQueries /\ <<>> \in Seq(Line)
  BY BoundsAssumption
<1>2. QED
  BY <1>1 DEF TypeOK, PythonTypes, Finish, WaitTypes

LEMMA WaitsOn ==
  ASSUME TypeOK, UNCHANGED <<pending, chunks, buf>>
  PROVE  WaitTypes'
  BY DEF TypeOK, PythonTypes, PageTypes, WaitTypes

LEMMA UpdateCableTypes ==
  ASSUME TypeOK, NEW c \in BOOLEAN, UpdateCable(c)
  PROVE  PlugTypes' /\ WaitTypes'
<1>1. cable' \in BOOLEAN
  BY DEF UpdateCable
<1>2. down' \in Seq(WorkerMessages)
  BY DEF UpdateCable, TypeOK, ChannelTypes, WorkerMessages
<1>3. CASE cable /\ ~c
  BY <1>1, <1>2, <1>3, RefusedType, FinishTypes DEF UpdateCable, PlugTypes
<1>4. CASE ~(cable /\ ~c)
  BY <1>1, <1>2, <1>4, WaitsOn DEF UpdateCable, PlugTypes
<1>5. QED
  BY <1>3, <1>4

LEMMA ConnectedType ==
  \A t, r, d, u \in BOOLEAN : Connected(t, r, d, u) \in BOOLEAN
  BY DEF Connected

LEMMA ReceiveTypes ==
  ASSUME TypeOK, NEW lines \in Seq(Line), Receive(lines)
  PROVE  WaitTypes'
<1> DEFINE all == chunks \o lines
<1>1. all \in Seq(Line)
  BY DEF TypeOK, PageTypes
<1>2. CASE pending = 0 \/ (pending # 0 /\ Head(all).kind = "ack" /\ ~(Len(all) > 1))
  BY <1>1, <1>2 DEF Receive, TypeOK, PageTypes, PythonTypes, WaitTypes
<1>3. CASE pending # 0 /\ Head(all).kind # "ack"
  BY <1>3, RefusedType, FinishTypes DEF Receive
<1>4. CASE pending # 0 /\ Head(all).kind = "ack" /\ Len(all) > 1
  <2>1. SubSeq(all, 1, 2) \in Seq(Line)
    BY <1>1, <1>4
  <2>2. [done |-> TRUE, lines |-> SubSeq(all, 1, 2)] \in [done : BOOLEAN, lines : Seq(Line)]
    BY <2>1
  <2>3. Finish([done |-> TRUE, lines |-> SubSeq(all, 1, 2)])
    BY <1>4 DEF Receive
  <2>4. QED
    BY <2>2, <2>3, FinishTypes
<1>5. QED
  BY <1>2, <1>3, <1>4

\* The three messages without a number, and the notes.
LEMMA MessageTypes ==
  /\ \A t \in {"ready", "reset-complete", "error"} : Msg(t) \in UpMessages
  /\ Msg("restart") \in DiyMessages
  /\ \A q \in Query : Command(q) \in UpMessages /\ Command(q) \in DiyMessages
  /\ \A t \in {"stopped", "running", "usb", "output"} : Note(t) \in Notes
<1>1. \A t \in {"stopped", "running", "usb", "output"} : Note(t) \in Notes
  BY DEF Note, Notes
<1>2. QED
  BY <1>1 DEF Msg, Command, UpMessages, DiyMessages

LEMMA UpTypes ==
  ASSUME TypeOK, up # <<>>
  PROVE  Head(up) \in UpMessages /\ Tail(up) \in Seq(UpMessages)
  BY DEF TypeOK, ChannelTypes

LEMMA QueueQueryTypes ==
  ASSUME TypeOK, NEW q \in Query, QueueQuery(q)
  PROVE  WaitTypes' /\ toDiy' \in Seq(DiyMessages)
<1>1. chunks' \in Seq(Line) /\ 0 \in 0..MaxQueries /\ q \in 0..MaxQueries
  BY BoundsAssumption DEF QueueQuery, Query
<1>2. Append(toDiy, Command(q)) \in Seq(DiyMessages)
  BY MessageTypes DEF TypeOK, ChannelTypes
<1>3. CASE cable /\ usb /\ running
  BY <1>1, <1>2, <1>3 DEF QueueQuery, TypeOK, PythonTypes, WaitTypes
<1>4. CASE ~(cable /\ usb /\ running)
  BY <1>1, <1>4, RefusedType DEF QueueQuery, TypeOK, PythonTypes, ChannelTypes, WaitTypes
<1>5. QED
  BY <1>3, <1>4

\* Where a channel's message goes when it is taken.
LEMMA TakenTypes ==
  ASSUME TypeOK
  PROVE  /\ up # <<>> => Head(up) \in UpMessages /\ Tail(up) \in Seq(UpMessages)
         /\ down # <<>> => /\ Head(down) \in WorkerMessages
                          /\ Tail(down) \in Seq(WorkerMessages)
         /\ toDiy # <<>> => Head(toDiy) \in DiyMessages /\ Tail(toDiy) \in Seq(DiyMessages)
         /\ fromDiy # <<>> => Head(fromDiy) \in Notes /\ Tail(fromDiy) \in Seq(Notes)
         /\ cmds # <<>> => Head(cmds) \in Query /\ Tail(cmds) \in Seq(Query)
         /\ queue # <<>> => Head(queue) \in Jobs /\ Tail(queue) \in Seq(Jobs)
  BY DEF TypeOK, ChannelTypes, DeviceTypes, PythonTypes

\* How a message is put into a channel.
LEMMA SentTypes ==
  ASSUME TypeOK
  PROVE  /\ \A m \in UpMessages : Append(up, m) \in Seq(UpMessages)
         /\ \A m \in DiyMessages : Append(toDiy, m) \in Seq(DiyMessages)
         /\ \A m \in Notes : Append(fromDiy, m) \in Seq(Notes)
         /\ \A m, n \in Notes : fromDiy \o <<m, n>> \in Seq(Notes)
         /\ \A l \in Line : Append(out, l) \in Seq(Line)
         /\ \A q \in Query : Append(cmds, q) \in Seq(Query)
         /\ \A r \in Jobs : Append(queue, r) \in Seq(Jobs)
<1>1. \A m, n \in Notes : fromDiy \o <<m, n>> \in Seq(Notes)
  <2>1. TAKE m, n \in Notes
  <2>2. <<m, n>> \in Seq(Notes) /\ fromDiy \in Seq(Notes)
    BY DEF TypeOK, ChannelTypes
  <2>3. QED
    BY <2>2
<1>2. QED
  BY <1>1 DEF TypeOK, ChannelTypes, DeviceTypes, PythonTypes

LEMMA PageStepTypes ==
  ASSUME TypeOK, PageStep
  PROVE  TypeOK'
<1>1. CASE PageTakesQuery
  <2>1. Head(up).q \in Query /\ up' \in Seq(UpMessages)
    BY <1>1, TakenTypes DEF PageTakesQuery, UpMessages
  <2>2. WaitTypes' /\ toDiy' \in Seq(DiyMessages)
    BY <1>1, <2>1, QueueQueryTypes DEF PageTakesQuery
  <2>3. PythonTypes'
    BY <1>1, <2>1, <2>2
    DEF PageTakesQuery, TypeOK, PythonTypes, WaitTypes, worker, rest, flags, waiting, device, Phases
  <2>4. PageTypes'
    BY <1>1, <2>1, <2>2
    DEF PageTakesQuery, TypeOK, PageTypes, WaitTypes, PlugTypes, worker, rest, flags, waiting, device, Phases
  <2>5. ChannelTypes'
    BY <1>1, <2>1, <2>2
    DEF PageTakesQuery, TypeOK, ChannelTypes, PlugTypes, worker, rest, flags, waiting, device, Phases
  <2>6. DeviceTypes'
    BY <1>1, <2>1, <2>2
    DEF PageTakesQuery, TypeOK, DeviceTypes, worker, rest, flags, waiting, device, Phases
  <2>7. QED
    BY <2>3, <2>4, <2>5, <2>6 DEF TypeOK
<1>2. CASE PageTakesReady
  <2>1. Connected(toggle, TRUE, running, usb) \in BOOLEAN
    BY ConnectedType DEF TypeOK, PageTypes
  <2>2. up' \in Seq(UpMessages)
    BY <1>2, TakenTypes DEF PageTakesReady
  <2>3. PlugTypes' /\ WaitTypes'
    BY <1>2, <2>1, UpdateCableTypes DEF PageTakesReady
  <2>4. PythonTypes'
    BY <1>2, <2>1, <2>2, <2>3
    DEF PageTakesReady, TypeOK, PythonTypes, WaitTypes, worker, rest, flags, waiting, device, Phases
  <2>5. PageTypes'
    BY <1>2, <2>1, <2>2, <2>3
    DEF PageTakesReady, TypeOK, PageTypes, WaitTypes, PlugTypes, worker, rest, flags, waiting, device, Phases
  <2>6. ChannelTypes'
    BY <1>2, <2>1, <2>2, <2>3
    DEF PageTakesReady, TypeOK, ChannelTypes, PlugTypes, worker, rest, flags, waiting, device, Phases
  <2>7. DeviceTypes'
    BY <1>2, <2>1, <2>2, <2>3
    DEF PageTakesReady, TypeOK, DeviceTypes, worker, rest, flags, waiting, device, Phases
  <2>8. QED
    BY <2>4, <2>5, <2>6, <2>7 DEF TypeOK
<1>3. CASE PageTakesError
  <2>1. up' \in Seq(UpMessages)
    BY <1>3, TakenTypes DEF PageTakesError
  <2>2. ready' \in BOOLEAN
    BY <1>3 DEF PageTakesError
  <2>3. PlugTypes' /\ WaitTypes'
    BY <1>3, UpdateCableTypes DEF PageTakesError
  <2>4. PythonTypes'
    BY <1>3, <2>1, <2>2, <2>3
    DEF PageTakesError, TypeOK, PythonTypes, WaitTypes, worker, rest, flags, waiting, device, Phases
  <2>5. PageTypes'
    BY <1>3, <2>1, <2>2, <2>3
    DEF PageTakesError, TypeOK, PageTypes, WaitTypes, PlugTypes, worker, rest, flags, waiting, device, Phases
  <2>6. ChannelTypes'
    BY <1>3, <2>1, <2>2, <2>3
    DEF PageTakesError, TypeOK, ChannelTypes, PlugTypes, worker, rest, flags, waiting, device, Phases
  <2>7. DeviceTypes'
    BY <1>3, <2>1, <2>2, <2>3
    DEF PageTakesError, TypeOK, DeviceTypes, worker, rest, flags, waiting, device, Phases
  <2>8. QED
    BY <2>4, <2>5, <2>6, <2>7 DEF TypeOK
<1>4. CASE PageTakesResetComplete
  <2>1. job' = "none" /\ avail' = FALSE /\ app' = "loading" /\ queue' \in Seq(Jobs) /\ cur' = cur
    BY <1>4 DEF PageTakesResetComplete, rest
  <2>2. avail' \in BOOLEAN
    BY <2>1
  <2>3. WaitTypes'
    BY <1>4, RefusedType, FinishTypes DEF PageTakesResetComplete
  <2>4. PythonTypes'
    BY <1>4, <2>1, <2>2, <2>3
    DEF PageTakesResetComplete, TypeOK, PythonTypes, WaitTypes, worker, rest, flags, waiting, device, Phases
  <2>5. PageTypes'
    BY <1>4, <2>1, <2>2, <2>3
    DEF PageTakesResetComplete, TypeOK, PageTypes, WaitTypes, PlugTypes, worker, rest, flags, waiting, device, Phases
  <2>6. ChannelTypes'
    BY <1>4, <2>1, <2>2, <2>3
    DEF PageTakesResetComplete, TypeOK, ChannelTypes, PlugTypes, worker, rest, flags, waiting, device, Phases
  <2>7. DeviceTypes'
    BY <1>4, <2>1, <2>2, <2>3
    DEF PageTakesResetComplete, TypeOK, DeviceTypes, worker, rest, flags, waiting, device, Phases
  <2>8. QED
    BY <2>4, <2>5, <2>6, <2>7 DEF TypeOK
<1>5. CASE PageTakesBytes
  <2>1. Head(fromDiy) \in Notes /\ fromDiy' \in Seq(Notes)
    BY <1>5, TakenTypes DEF PageTakesBytes, FromDiy
  <2>2. WaitTypes'
    BY <1>5, <2>1, ReceiveTypes DEF PageTakesBytes, Notes
  <2>3. PythonTypes'
    BY <1>5, <2>1, <2>2
    DEF PageTakesBytes, TypeOK, PythonTypes, WaitTypes, worker, rest, flags, waiting, device, Phases
  <2>4. PageTypes'
    BY <1>5, <2>1, <2>2
    DEF PageTakesBytes, TypeOK, PageTypes, WaitTypes, PlugTypes, worker, rest, flags, waiting, device, Phases
  <2>5. ChannelTypes'
    BY <1>5, <2>1, <2>2
    DEF PageTakesBytes, TypeOK, ChannelTypes, PlugTypes, worker, rest, flags, waiting, device, Phases
  <2>6. DeviceTypes'
    BY <1>5, <2>1, <2>2
    DEF PageTakesBytes, TypeOK, DeviceTypes, worker, rest, flags, waiting, device, Phases
  <2>7. QED
    BY <2>3, <2>4, <2>5, <2>6 DEF TypeOK
<1>6. CASE PageTakesStopped
  <2>1. Head(fromDiy) \in Notes /\ fromDiy' \in Seq(Notes)
    BY <1>6, TakenTypes DEF PageTakesStopped, FromDiy
  <2>2. PlugTypes' /\ WaitTypes'
    BY <1>6, UpdateCableTypes DEF PageTakesStopped
  <2>3. PythonTypes'
    BY <1>6, <2>1, <2>2
    DEF PageTakesStopped, TypeOK, PythonTypes, WaitTypes, worker, rest, flags, waiting, device, Phases
  <2>4. PageTypes'
    BY <1>6, <2>1, <2>2
    DEF PageTakesStopped, TypeOK, PageTypes, WaitTypes, PlugTypes, worker, rest, flags, waiting, device, Phases
  <2>5. ChannelTypes'
    BY <1>6, <2>1, <2>2
    DEF PageTakesStopped, TypeOK, ChannelTypes, PlugTypes, worker, rest, flags, waiting, device, Phases
  <2>6. DeviceTypes'
    BY <1>6, <2>1, <2>2
    DEF PageTakesStopped, TypeOK, DeviceTypes, worker, rest, flags, waiting, device, Phases
  <2>7. QED
    BY <2>3, <2>4, <2>5, <2>6 DEF TypeOK
<1>7. CASE PageTakesRunning
  <2>1. Head(fromDiy) \in Notes /\ fromDiy' \in Seq(Notes)
    BY <1>7, TakenTypes DEF PageTakesRunning, FromDiy
  <2>2. Connected(toggle, ready, TRUE, usb) \in BOOLEAN
    BY ConnectedType DEF TypeOK, PageTypes
  <2>3. PlugTypes' /\ WaitTypes'
    BY <1>7, <2>2, UpdateCableTypes DEF PageTakesRunning
  <2>4. PythonTypes'
    BY <1>7, <2>1, <2>2, <2>3
    DEF PageTakesRunning, TypeOK, PythonTypes, WaitTypes, worker, rest, flags, waiting, device, Phases
  <2>5. PageTypes'
    BY <1>7, <2>1, <2>2, <2>3
    DEF PageTakesRunning, TypeOK, PageTypes, WaitTypes, PlugTypes, worker, rest, flags, waiting, device, Phases
  <2>6. ChannelTypes'
    BY <1>7, <2>1, <2>2, <2>3
    DEF PageTakesRunning, TypeOK, ChannelTypes, PlugTypes, worker, rest, flags, waiting, device, Phases
  <2>7. DeviceTypes'
    BY <1>7, <2>1, <2>2, <2>3
    DEF PageTakesRunning, TypeOK, DeviceTypes, worker, rest, flags, waiting, device, Phases
  <2>8. QED
    BY <2>4, <2>5, <2>6, <2>7 DEF TypeOK
<1>8. CASE PageTakesUsbState
  <2>1. Head(fromDiy) \in Notes /\ fromDiy' \in Seq(Notes)
    BY <1>8, TakenTypes DEF PageTakesUsbState, FromDiy
  <2>2. usb' \in BOOLEAN
    BY <1>8, <2>1 DEF PageTakesUsbState, Notes
  <2>3. Connected(toggle, ready, running, usb') \in BOOLEAN
    BY <2>2, ConnectedType DEF TypeOK, PageTypes
  <2>4. PlugTypes' /\ WaitTypes'
    BY <1>8, <2>3, UpdateCableTypes DEF PageTakesUsbState
  <2>5. PythonTypes'
    BY <1>8, <2>1, <2>2, <2>3, <2>4
    DEF PageTakesUsbState, TypeOK, PythonTypes, WaitTypes, worker, rest, flags, waiting, device, Phases
  <2>6. PageTypes'
    BY <1>8, <2>1, <2>2, <2>3, <2>4
    DEF PageTakesUsbState, TypeOK, PageTypes, WaitTypes, PlugTypes, worker, rest, flags, waiting, device, Phases
  <2>7. ChannelTypes'
    BY <1>8, <2>1, <2>2, <2>3, <2>4
    DEF PageTakesUsbState, TypeOK, ChannelTypes, PlugTypes, worker, rest, flags, waiting, device, Phases
  <2>8. DeviceTypes'
    BY <1>8, <2>1, <2>2, <2>3, <2>4
    DEF PageTakesUsbState, TypeOK, DeviceTypes, worker, rest, flags, waiting, device, Phases
  <2>9. QED
    BY <2>5, <2>6, <2>7, <2>8 DEF TypeOK
<1>9. QED
  BY <1>1, <1>2, <1>3, <1>4, <1>5, <1>6, <1>7, <1>8 DEF PageStep

LEMMA PythonStepTypes ==
  ASSUME TypeOK, PythonStep \/ QueryStarts
  PROVE  TypeOK'
<1>1. CASE WorkerTakesMessage
  <2>1. down' \in Seq(WorkerMessages)
    BY <1>1, TakenTypes DEF WorkerTakesMessage
  <2>2. queue' \in Seq(Jobs)
    BY <1>1, SentTypes DEF WorkerTakesMessage, TypeOK, PythonTypes, Jobs
  <2>3. avail' \in BOOLEAN
    BY <1>1 DEF WorkerTakesMessage, TypeOK, PythonTypes, Jobs
  <2>4. PythonTypes'
    BY <1>1, <2>1, <2>2, <2>3
    DEF WorkerTakesMessage, TypeOK, PythonTypes, WaitTypes, worker, rest, flags, waiting, device, Phases
  <2>5. PageTypes'
    BY <1>1, <2>1, <2>2, <2>3
    DEF WorkerTakesMessage, TypeOK, PageTypes, WaitTypes, PlugTypes, worker, rest, flags, waiting, device, Phases
  <2>6. ChannelTypes'
    BY <1>1, <2>1, <2>2, <2>3
    DEF WorkerTakesMessage, TypeOK, ChannelTypes, PlugTypes, worker, rest, flags, waiting, device, Phases
  <2>7. DeviceTypes'
    BY <1>1, <2>1, <2>2, <2>3
    DEF WorkerTakesMessage, TypeOK, DeviceTypes, worker, rest, flags, waiting, device, Phases
  <2>8. QED
    BY <2>4, <2>5, <2>6, <2>7 DEF TypeOK
<1>2. CASE JobStarts
  <2>1. queue' \in Seq(Jobs)
    BY <1>2, TakenTypes DEF JobStarts, Jobs
  <2>2. job' \in {"none", "python", "reset"}
    BY <1>2 DEF JobStarts, Jobs
  <2>3. PythonTypes'
    BY <1>2, <2>1, <2>2
    DEF JobStarts, TypeOK, PythonTypes, WaitTypes, worker, rest, flags, waiting, device, Phases
  <2>4. PageTypes'
    BY <1>2, <2>1, <2>2
    DEF JobStarts, TypeOK, PageTypes, WaitTypes, PlugTypes, worker, rest, flags, waiting, device, Phases
  <2>5. ChannelTypes'
    BY <1>2, <2>1, <2>2
    DEF JobStarts, TypeOK, ChannelTypes, PlugTypes, worker, rest, flags, waiting, device, Phases
  <2>6. DeviceTypes'
    BY <1>2, <2>1, <2>2
    DEF JobStarts, TypeOK, DeviceTypes, worker, rest, flags, waiting, device, Phases
  <2>7. QED
    BY <2>3, <2>4, <2>5, <2>6 DEF TypeOK
<1>3. CASE QueryReturns \/ RequestDone
  <2>1. PythonTypes'
    BY <1>3
    DEF QueryReturns, RequestDone, TypeOK, PythonTypes, WaitTypes, worker, rest, flags, waiting, device, Phases
  <2>2. PageTypes'
    BY <1>3
    DEF QueryReturns, RequestDone, TypeOK, PageTypes, WaitTypes, PlugTypes, worker, rest, flags, waiting, device, Phases
  <2>3. ChannelTypes'
    BY <1>3
    DEF QueryReturns, RequestDone, TypeOK, ChannelTypes, PlugTypes, worker, rest, flags, waiting, device, Phases
  <2>4. DeviceTypes'
    BY <1>3
    DEF QueryReturns, RequestDone, TypeOK, DeviceTypes, worker, rest, flags, waiting, device, Phases
  <2>5. QED
    BY <2>1, <2>2, <2>3, <2>4 DEF TypeOK
<1>4. CASE ResetDone \/ AppStarts
  <2>1. up' \in Seq(UpMessages)
    BY <1>4, MessageTypes, SentTypes DEF ResetDone, AppStarts
  <2>2. PythonTypes'
    BY <1>4, <2>1
    DEF ResetDone, AppStarts, TypeOK, PythonTypes, WaitTypes, worker, rest, flags, waiting, device, Phases
  <2>3. PageTypes'
    BY <1>4, <2>1
    DEF ResetDone, AppStarts, TypeOK, PageTypes, WaitTypes, PlugTypes, worker, rest, flags, waiting, device, Phases
  <2>4. ChannelTypes'
    BY <1>4, <2>1
    DEF ResetDone, AppStarts, TypeOK, ChannelTypes, PlugTypes, worker, rest, flags, waiting, device, Phases
  <2>5. DeviceTypes'
    BY <1>4, <2>1
    DEF ResetDone, AppStarts, TypeOK, DeviceTypes, worker, rest, flags, waiting, device, Phases
  <2>6. QED
    BY <2>2, <2>3, <2>4, <2>5 DEF TypeOK
<1>5. CASE QueryStarts
  <2>1. cur' \in 0..MaxQueries /\ cur + 1 \in Query
    BY <1>5, BoundsAssumption DEF QueryStarts, Query, TypeOK, PythonTypes
  <2>2. up' \in Seq(UpMessages)
    BY <1>5, <2>1, MessageTypes, SentTypes DEF QueryStarts
  <2>3. buf' \in [done : BOOLEAN, lines : Seq(Line)]
    BY <1>5, RefusedType DEF QueryStarts
  <2>4. PythonTypes'
    BY <1>5, <2>1, <2>2, <2>3
    DEF QueryStarts, TypeOK, PythonTypes, WaitTypes, worker, rest, flags, waiting, device, Phases
  <2>5. PageTypes'
    BY <1>5, <2>1, <2>2, <2>3
    DEF QueryStarts, TypeOK, PageTypes, WaitTypes, PlugTypes, worker, rest, flags, waiting, device, Phases
  <2>6. ChannelTypes'
    BY <1>5, <2>1, <2>2, <2>3
    DEF QueryStarts, TypeOK, ChannelTypes, PlugTypes, worker, rest, flags, waiting, device, Phases
  <2>7. DeviceTypes'
    BY <1>5, <2>1, <2>2, <2>3
    DEF QueryStarts, TypeOK, DeviceTypes, worker, rest, flags, waiting, device, Phases
  <2>8. QED
    BY <2>4, <2>5, <2>6, <2>7 DEF TypeOK
<1>6. QED
  BY <1>1, <1>2, <1>3, <1>4, <1>5 DEF PythonStep

LEMMA RestartsTypes ==
  ASSUME TypeOK, Restarts
  PROVE  /\ fromDiy' \in Seq(Notes)
         /\ phase' \in Phases
<1>1. fromDiy \o <<Note("stopped"), Note("usb")>> \in Seq(Notes)
  BY MessageTypes, SentTypes
<1>2. QED
  BY <1>1 DEF Restarts, TypeOK, ChannelTypes, DeviceTypes, Phases

LEMMA DeviceStepTypes ==
  ASSUME TypeOK, DeviceStep
  PROVE  TypeOK'
<1>1. CASE DeviceTakesCommand
  <2>1. toDiy' \in Seq(DiyMessages) /\ Head(toDiy).q \in Query
    BY <1>1, TakenTypes DEF DeviceTakesCommand, DiyMessages
  <2>2. cmds' \in Seq(Query)
    BY <1>1, <2>1, SentTypes DEF DeviceTakesCommand, TypeOK, DeviceTypes
  <2>3. PythonTypes'
    BY <1>1, <2>1, <2>2
    DEF DeviceTakesCommand, TypeOK, PythonTypes, WaitTypes, worker, rest, flags, waiting, device, Phases
  <2>4. PageTypes'
    BY <1>1, <2>1, <2>2
    DEF DeviceTakesCommand, TypeOK, PageTypes, WaitTypes, PlugTypes, worker, rest, flags, waiting, device, Phases
  <2>5. ChannelTypes'
    BY <1>1, <2>1, <2>2
    DEF DeviceTakesCommand, TypeOK, ChannelTypes, PlugTypes, worker, rest, flags, waiting, device, Phases
  <2>6. DeviceTypes'
    BY <1>1, <2>1, <2>2
    DEF DeviceTakesCommand, TypeOK, DeviceTypes, worker, rest, flags, waiting, device, Phases
  <2>7. QED
    BY <2>3, <2>4, <2>5, <2>6 DEF TypeOK
<1>2. CASE DeviceTakesRestart
  <2>1. toDiy' \in Seq(DiyMessages)
    BY <1>2, TakenTypes DEF DeviceTakesRestart
  <2>2. fromDiy' \in Seq(Notes) /\ phase' \in Phases
    BY <1>2, RestartsTypes DEF DeviceTakesRestart
  <2>3. PythonTypes'
    BY <1>2, <2>1, <2>2
    DEF DeviceTakesRestart, TypeOK, PythonTypes, WaitTypes, worker, rest, flags, waiting, device, Phases
  <2>4. PageTypes'
    BY <1>2, <2>1, <2>2
    DEF DeviceTakesRestart, TypeOK, PageTypes, WaitTypes, PlugTypes, worker, rest, flags, waiting, device, Phases
  <2>5. ChannelTypes'
    BY <1>2, <2>1, <2>2
    DEF DeviceTakesRestart, TypeOK, ChannelTypes, PlugTypes, worker, rest, flags, waiting, device, Phases
  <2>6. DeviceTypes'
    BY <1>2, <2>1, <2>2
    DEF DeviceTakesRestart, TypeOK, DeviceTypes, worker, rest, flags, waiting, device, Phases
  <2>7. QED
    BY <2>3, <2>4, <2>5, <2>6 DEF TypeOK
<1>3. CASE WorkerReplaced
  <2>1. cmds' \in Seq(Query) /\ out' \in Seq(Line) /\ fw' \in 0..MaxQueries
    BY <1>3, BoundsAssumption DEF WorkerReplaced, NewWorker
  <2>2. forced' \in BOOLEAN /\ recovered' \in BOOLEAN /\ usbOn' \in BOOLEAN /\ told' \in BOOLEAN
    BY <1>3 DEF WorkerReplaced, NewWorker, TypeOK, DeviceTypes
  <2>3. PythonTypes'
    BY <1>3, <2>1, <2>2
    DEF WorkerReplaced, TypeOK, PythonTypes, WaitTypes, worker, rest, flags, waiting, device, Phases
  <2>4. PageTypes'
    BY <1>3, <2>1, <2>2
    DEF WorkerReplaced, TypeOK, PageTypes, WaitTypes, PlugTypes, worker, rest, flags, waiting, device, Phases
  <2>5. ChannelTypes'
    BY <1>3, <2>1, <2>2
    DEF WorkerReplaced, TypeOK, ChannelTypes, PlugTypes, worker, rest, flags, waiting, device, Phases
  <2>6. DeviceTypes'
    BY <1>3, <2>1, <2>2
    DEF WorkerReplaced, TypeOK, DeviceTypes, worker, rest, flags, waiting, device, Phases
  <2>7. QED
    BY <2>3, <2>4, <2>5, <2>6 DEF TypeOK
<1>4. CASE DeviceRuns
  <2>1. fromDiy' \in Seq(Notes)
    BY <1>4, MessageTypes, SentTypes DEF DeviceRuns
  <2>2. PythonTypes'
    BY <1>4, <2>1
    DEF DeviceRuns, TypeOK, PythonTypes, WaitTypes, worker, rest, flags, waiting, device, Phases
  <2>3. PageTypes'
    BY <1>4, <2>1
    DEF DeviceRuns, TypeOK, PageTypes, WaitTypes, PlugTypes, worker, rest, flags, waiting, device, Phases
  <2>4. ChannelTypes'
    BY <1>4, <2>1
    DEF DeviceRuns, TypeOK, ChannelTypes, PlugTypes, worker, rest, flags, waiting, device, Phases
  <2>5. DeviceTypes'
    BY <1>4, <2>1
    DEF DeviceRuns, TypeOK, DeviceTypes, worker, rest, flags, waiting, device, Phases
  <2>6. QED
    BY <2>2, <2>3, <2>4, <2>5 DEF TypeOK
<1>5. CASE FirmwareReads
  <2>1. Head(cmds) \in Query /\ cmds' \in Seq(Query)
    BY <1>5, TakenTypes DEF FirmwareReads
  <2>2. fw' \in 0..MaxQueries
    BY <1>5, <2>1 DEF FirmwareReads, Query
  <2>3. [of |-> Head(cmds), kind |-> "ack"] \in Line
    BY <2>1 DEF Line
  <2>4. out' \in Seq(Line)
    BY <1>5, <2>3, SentTypes DEF FirmwareReads
  <2>5. PythonTypes'
    BY <1>5, <2>1, <2>2, <2>3, <2>4
    DEF FirmwareReads, TypeOK, PythonTypes, WaitTypes, worker, rest, flags, waiting, device, Phases
  <2>6. PageTypes'
    BY <1>5, <2>1, <2>2, <2>3, <2>4
    DEF FirmwareReads, TypeOK, PageTypes, WaitTypes, PlugTypes, worker, rest, flags, waiting, device, Phases
  <2>7. ChannelTypes'
    BY <1>5, <2>1, <2>2, <2>3, <2>4
    DEF FirmwareReads, TypeOK, ChannelTypes, PlugTypes, worker, rest, flags, waiting, device, Phases
  <2>8. DeviceTypes'
    BY <1>5, <2>1, <2>2, <2>3, <2>4
    DEF FirmwareReads, TypeOK, DeviceTypes, worker, rest, flags, waiting, device, Phases
  <2>9. QED
    BY <2>5, <2>6, <2>7, <2>8 DEF TypeOK
<1>6. CASE FirmwareAnswers
  <2>1. fw' \in 0..MaxQueries
    BY <1>6, BoundsAssumption DEF FirmwareAnswers
  <2>2. [of |-> fw, kind |-> "answer"] \in Line
    BY <1>6 DEF FirmwareAnswers, Line, Query, TypeOK, DeviceTypes
  <2>3. out' \in Seq(Line)
    BY <1>6, <2>2, SentTypes DEF FirmwareAnswers
  <2>4. PythonTypes'
    BY <1>6, <2>1, <2>2, <2>3
    DEF FirmwareAnswers, TypeOK, PythonTypes, WaitTypes, worker, rest, flags, waiting, device, Phases
  <2>5. PageTypes'
    BY <1>6, <2>1, <2>2, <2>3
    DEF FirmwareAnswers, TypeOK, PageTypes, WaitTypes, PlugTypes, worker, rest, flags, waiting, device, Phases
  <2>6. ChannelTypes'
    BY <1>6, <2>1, <2>2, <2>3
    DEF FirmwareAnswers, TypeOK, ChannelTypes, PlugTypes, worker, rest, flags, waiting, device, Phases
  <2>7. DeviceTypes'
    BY <1>6, <2>1, <2>2, <2>3
    DEF FirmwareAnswers, TypeOK, DeviceTypes, worker, rest, flags, waiting, device, Phases
  <2>8. QED
    BY <2>4, <2>5, <2>6, <2>7 DEF TypeOK
<1>7. CASE Poll
  <2>1. <<>> \in Seq(Line)
    OBVIOUS
  <2>2. [type |-> "usb", on |-> usbOn, lines |-> <<>>] \in Notes
    BY <2>1 DEF Notes, TypeOK, DeviceTypes
  <2>3. [type |-> "output", on |-> FALSE, lines |-> out] \in Notes
    BY DEF Notes, TypeOK, DeviceTypes
  <2>4. \A n \in Notes : <<n>> \in Seq(Notes)
    OBVIOUS
  <2>5. \A a, b \in Seq(Notes) : fromDiy \o a \o b \in Seq(Notes)
    BY DEF TypeOK, ChannelTypes
  <2>6. <<>> \in Seq(Notes) /\ <<>> \in Seq(Line)
    OBVIOUS
  <2>7. fromDiy' \in Seq(Notes) /\ out' \in Seq(Line)
    BY <1>7, <2>1, <2>2, <2>3, <2>4, <2>5, <2>6 DEF Poll
  <2>8. told' \in BOOLEAN
    BY <1>7 DEF Poll, TypeOK, DeviceTypes
  <2>9. PythonTypes'
    BY <1>7, <2>1, <2>2, <2>3, <2>4, <2>5, <2>6, <2>7, <2>8
    DEF Poll, TypeOK, PythonTypes, WaitTypes, worker, rest, flags, waiting, device, Phases
  <2>10. PageTypes'
    BY <1>7, <2>1, <2>2, <2>3, <2>4, <2>5, <2>6, <2>7, <2>8
    DEF Poll, TypeOK, PageTypes, WaitTypes, PlugTypes, worker, rest, flags, waiting, device, Phases
  <2>11. ChannelTypes'
    BY <1>7, <2>1, <2>2, <2>3, <2>4, <2>5, <2>6, <2>7, <2>8
    DEF Poll, TypeOK, ChannelTypes, PlugTypes, worker, rest, flags, waiting, device, Phases
  <2>12. DeviceTypes'
    BY <1>7, <2>1, <2>2, <2>3, <2>4, <2>5, <2>6, <2>7, <2>8
    DEF Poll, TypeOK, DeviceTypes, worker, rest, flags, waiting, device, Phases
  <2>13. QED
    BY <2>9, <2>10, <2>11, <2>12 DEF TypeOK
<1>8. QED
  BY <1>1, <1>2, <1>3, <1>4, <1>5, <1>6, <1>7 DEF DeviceStep

LEMMA UserTypes ==
  ASSUME TypeOK, User
  PROVE  TypeOK'
<1>1. CASE Toggle
  <2>1. Connected(~toggle, ready, running, usb) \in BOOLEAN
    BY ConnectedType DEF TypeOK, PageTypes
  <2>2. events' \in 0..MaxEvents
    BY <1>1, InterruptionTypes DEF Toggle
  <2>3. PlugTypes' /\ WaitTypes'
    BY <1>1, <2>1, UpdateCableTypes DEF Toggle
  <2>4. PythonTypes'
    BY <1>1, <2>1, <2>2, <2>3
    DEF Toggle, TypeOK, PythonTypes, WaitTypes, worker, rest, flags, waiting, device, Phases
  <2>5. PageTypes'
    BY <1>1, <2>1, <2>2, <2>3
    DEF Toggle, TypeOK, PageTypes, WaitTypes, PlugTypes, worker, rest, flags, waiting, device, Phases
  <2>6. ChannelTypes'
    BY <1>1, <2>1, <2>2, <2>3
    DEF Toggle, TypeOK, ChannelTypes, PlugTypes, worker, rest, flags, waiting, device, Phases
  <2>7. DeviceTypes'
    BY <1>1, <2>1, <2>2, <2>3
    DEF Toggle, TypeOK, DeviceTypes, worker, rest, flags, waiting, device, Phases
  <2>8. QED
    BY <2>4, <2>5, <2>6, <2>7 DEF TypeOK
<1>2. CASE ResetClicked
  <2>1. down \in Seq(WorkerMessages)
    BY DEF TypeOK, ChannelTypes
  <2>2. \A a, b \in Seq(WorkerMessages) : down \o a \o b \in Seq(WorkerMessages)
    BY <2>1
  <2>3. <<>> \in Seq(WorkerMessages) /\ <<"reset">> \in Seq(WorkerMessages)
    BY DEF WorkerMessages, Jobs
  <2>4. <<"disconnected">> \in Seq(WorkerMessages)
    BY DEF WorkerMessages
  <2>5. down' \in Seq(WorkerMessages)
    BY <1>2, <2>2, <2>3, <2>4 DEF ResetClicked
  <2>6. WaitTypes'
    BY <1>2, RefusedType, FinishTypes, WaitsOn DEF ResetClicked
  <2>7. events' \in 0..MaxEvents
    BY <1>2, InterruptionTypes DEF ResetClicked
  <2>8. PythonTypes'
    BY <1>2, <2>1, <2>2, <2>3, <2>4, <2>5, <2>6, <2>7
    DEF ResetClicked, TypeOK, PythonTypes, WaitTypes, worker, rest, flags, waiting, device, Phases
  <2>9. PageTypes'
    BY <1>2, <2>1, <2>2, <2>3, <2>4, <2>5, <2>6, <2>7
    DEF ResetClicked, TypeOK, PageTypes, WaitTypes, PlugTypes, worker, rest, flags, waiting, device, Phases
  <2>10. ChannelTypes'
    BY <1>2, <2>1, <2>2, <2>3, <2>4, <2>5, <2>6, <2>7
    DEF ResetClicked, TypeOK, ChannelTypes, PlugTypes, worker, rest, flags, waiting, device, Phases
  <2>11. DeviceTypes'
    BY <1>2, <2>1, <2>2, <2>3, <2>4, <2>5, <2>6, <2>7
    DEF ResetClicked, TypeOK, DeviceTypes, worker, rest, flags, waiting, device, Phases
  <2>12. QED
    BY <2>8, <2>9, <2>10, <2>11 DEF TypeOK
<1>3. CASE RestartClicked
  <2>1. toDiy' \in Seq(DiyMessages)
    BY <1>3, MessageTypes, SentTypes DEF RestartClicked
  <2>2. events' \in 0..MaxEvents
    BY <1>3, InterruptionTypes DEF RestartClicked
  <2>3. PlugTypes' /\ WaitTypes'
    BY <1>3, UpdateCableTypes DEF RestartClicked
  <2>4. PythonTypes'
    BY <1>3, <2>1, <2>2, <2>3
    DEF RestartClicked, TypeOK, PythonTypes, WaitTypes, worker, rest, flags, waiting, device, Phases
  <2>5. PageTypes'
    BY <1>3, <2>1, <2>2, <2>3
    DEF RestartClicked, TypeOK, PageTypes, WaitTypes, PlugTypes, worker, rest, flags, waiting, device, Phases
  <2>6. ChannelTypes'
    BY <1>3, <2>1, <2>2, <2>3
    DEF RestartClicked, TypeOK, ChannelTypes, PlugTypes, worker, rest, flags, waiting, device, Phases
  <2>7. DeviceTypes'
    BY <1>3, <2>1, <2>2, <2>3
    DEF RestartClicked, TypeOK, DeviceTypes, worker, rest, flags, waiting, device, Phases
  <2>8. QED
    BY <2>4, <2>5, <2>6, <2>7 DEF TypeOK
<1>4. CASE RequestArrives
  <2>1. down' \in Seq(WorkerMessages)
    BY <1>4 DEF RequestArrives, TypeOK, ChannelTypes, WorkerMessages, Jobs
  <2>2. PythonTypes'
    BY <1>4, <2>1
    DEF RequestArrives, TypeOK, PythonTypes, WaitTypes, worker, rest, flags, waiting, device, Phases
  <2>3. PageTypes'
    BY <1>4, <2>1
    DEF RequestArrives, TypeOK, PageTypes, WaitTypes, PlugTypes, worker, rest, flags, waiting, device, Phases
  <2>4. ChannelTypes'
    BY <1>4, <2>1
    DEF RequestArrives, TypeOK, ChannelTypes, PlugTypes, worker, rest, flags, waiting, device, Phases
  <2>5. DeviceTypes'
    BY <1>4, <2>1
    DEF RequestArrives, TypeOK, DeviceTypes, worker, rest, flags, waiting, device, Phases
  <2>6. QED
    BY <2>2, <2>3, <2>4, <2>5 DEF TypeOK
<1>5. CASE DeviceReboots
  <2>1. events' \in 0..MaxEvents
    BY <1>5, InterruptionTypes DEF DeviceReboots
  <2>2. fromDiy' \in Seq(Notes) /\ phase' \in Phases
    BY <1>5, RestartsTypes DEF DeviceReboots
  <2>3. PythonTypes'
    BY <1>5, <2>1, <2>2
    DEF DeviceReboots, TypeOK, PythonTypes, WaitTypes, worker, rest, flags, waiting, device, Phases
  <2>4. PageTypes'
    BY <1>5, <2>1, <2>2
    DEF DeviceReboots, TypeOK, PageTypes, WaitTypes, PlugTypes, worker, rest, flags, waiting, device, Phases
  <2>5. ChannelTypes'
    BY <1>5, <2>1, <2>2
    DEF DeviceReboots, TypeOK, ChannelTypes, PlugTypes, worker, rest, flags, waiting, device, Phases
  <2>6. DeviceTypes'
    BY <1>5, <2>1, <2>2
    DEF DeviceReboots, TypeOK, DeviceTypes, worker, rest, flags, waiting, device, Phases
  <2>7. QED
    BY <2>3, <2>4, <2>5, <2>6 DEF TypeOK
<1>6. CASE UsbSwitched
  <2>1. events' \in 0..MaxEvents
    BY <1>6, InterruptionTypes DEF UsbSwitched
  <2>2. PythonTypes'
    BY <1>6, <2>1
    DEF UsbSwitched, TypeOK, PythonTypes, WaitTypes, worker, rest, flags, waiting, device, Phases
  <2>3. PageTypes'
    BY <1>6, <2>1
    DEF UsbSwitched, TypeOK, PageTypes, WaitTypes, PlugTypes, worker, rest, flags, waiting, device, Phases
  <2>4. ChannelTypes'
    BY <1>6, <2>1
    DEF UsbSwitched, TypeOK, ChannelTypes, PlugTypes, worker, rest, flags, waiting, device, Phases
  <2>5. DeviceTypes'
    BY <1>6, <2>1
    DEF UsbSwitched, TypeOK, DeviceTypes, worker, rest, flags, waiting, device, Phases
  <2>6. QED
    BY <2>2, <2>3, <2>4, <2>5 DEF TypeOK
<1>7. QED
  BY <1>1, <1>2, <1>3, <1>4, <1>5, <1>6, PythonStepTypes DEF User

LEMMA FaultTypes ==
  ASSUME TypeOK, Fault
  PROVE  TypeOK'
<1>1. CASE QueryTimesOut
  <2>1. WaitTypes'
    BY <1>1, RefusedType, FinishTypes DEF QueryTimesOut
  <2>2. events' \in 0..MaxEvents
    BY <1>1, InterruptionTypes DEF QueryTimesOut
  <2>3. PythonTypes'
    BY <1>1, <2>1, <2>2
    DEF QueryTimesOut, TypeOK, PythonTypes, WaitTypes, worker, rest, flags, waiting, device, Phases
  <2>4. PageTypes'
    BY <1>1, <2>1, <2>2
    DEF QueryTimesOut, TypeOK, PageTypes, WaitTypes, PlugTypes, worker, rest, flags, waiting, device, Phases
  <2>5. ChannelTypes'
    BY <1>1, <2>1, <2>2
    DEF QueryTimesOut, TypeOK, ChannelTypes, PlugTypes, worker, rest, flags, waiting, device, Phases
  <2>6. DeviceTypes'
    BY <1>1, <2>1, <2>2
    DEF QueryTimesOut, TypeOK, DeviceTypes, worker, rest, flags, waiting, device, Phases
  <2>7. QED
    BY <2>3, <2>4, <2>5, <2>6 DEF TypeOK
<1>2. CASE SleepTimesOut
  <2>1. events' \in 0..MaxEvents
    BY <1>2, InterruptionTypes DEF SleepTimesOut
  <2>2. PythonTypes'
    BY <1>2, <2>1
    DEF SleepTimesOut, TypeOK, PythonTypes, WaitTypes, worker, rest, flags, waiting, device, Phases
  <2>3. PageTypes'
    BY <1>2, <2>1
    DEF SleepTimesOut, TypeOK, PageTypes, WaitTypes, PlugTypes, worker, rest, flags, waiting, device, Phases
  <2>4. ChannelTypes'
    BY <1>2, <2>1
    DEF SleepTimesOut, TypeOK, ChannelTypes, PlugTypes, worker, rest, flags, waiting, device, Phases
  <2>5. DeviceTypes'
    BY <1>2, <2>1
    DEF SleepTimesOut, TypeOK, DeviceTypes, worker, rest, flags, waiting, device, Phases
  <2>6. QED
    BY <2>2, <2>3, <2>4, <2>5 DEF TypeOK
<1>3. CASE ResetFails \/ AppFails
  <2>1. up' \in Seq(UpMessages)
    BY <1>3, MessageTypes, SentTypes DEF ResetFails, AppFails, TypeOK, ChannelTypes
  <2>2. events' \in 0..MaxEvents
    BY <1>3, InterruptionTypes DEF ResetFails, AppFails
  <2>3. PythonTypes'
    BY <1>3, <2>1, <2>2
    DEF ResetFails, AppFails, TypeOK, PythonTypes, WaitTypes, worker, rest, flags, waiting, device, Phases
  <2>4. PageTypes'
    BY <1>3, <2>1, <2>2
    DEF ResetFails, AppFails, TypeOK, PageTypes, WaitTypes, PlugTypes, worker, rest, flags, waiting, device, Phases
  <2>5. ChannelTypes'
    BY <1>3, <2>1, <2>2
    DEF ResetFails, AppFails, TypeOK, ChannelTypes, PlugTypes, worker, rest, flags, waiting, device, Phases
  <2>6. DeviceTypes'
    BY <1>3, <2>1, <2>2
    DEF ResetFails, AppFails, TypeOK, DeviceTypes, worker, rest, flags, waiting, device, Phases
  <2>7. QED
    BY <2>3, <2>4, <2>5, <2>6 DEF TypeOK
<1>4. CASE DeviceCrashes
  <2>1. fromDiy' \in Seq(Notes)
    BY <1>4, MessageTypes, SentTypes DEF DeviceCrashes, TypeOK, ChannelTypes
  <2>2. events' \in 0..MaxEvents
    BY <1>4, InterruptionTypes DEF DeviceCrashes
  <2>3. cmds' \in Seq(Query) /\ out' \in Seq(Line) /\ fw' \in 0..MaxQueries
    BY <1>4, BoundsAssumption DEF DeviceCrashes, NewWorker
  <2>4. phase' \in Phases /\ forced' \in BOOLEAN /\ recovered' \in BOOLEAN /\ usbOn' \in BOOLEAN /\ told' \in BOOLEAN
    BY <1>4 DEF DeviceCrashes, NewWorker, TypeOK, DeviceTypes, Phases
  <2>5. PythonTypes'
    BY <1>4, <2>1, <2>2, <2>3, <2>4
    DEF DeviceCrashes, TypeOK, PythonTypes, WaitTypes, worker, rest, flags, waiting, device, Phases
  <2>6. PageTypes'
    BY <1>4, <2>1, <2>2, <2>3, <2>4
    DEF DeviceCrashes, TypeOK, PageTypes, WaitTypes, PlugTypes, worker, rest, flags, waiting, device, Phases
  <2>7. ChannelTypes'
    BY <1>4, <2>1, <2>2, <2>3, <2>4
    DEF DeviceCrashes, TypeOK, ChannelTypes, PlugTypes, worker, rest, flags, waiting, device, Phases
  <2>8. DeviceTypes'
    BY <1>4, <2>1, <2>2, <2>3, <2>4
    DEF DeviceCrashes, TypeOK, DeviceTypes, worker, rest, flags, waiting, device, Phases
  <2>9. QED
    BY <2>5, <2>6, <2>7, <2>8 DEF TypeOK
<1>5. CASE PageGetsTooMuch
  <2>1. fromDiy' \in Seq(Notes)
    BY <1>5, TakenTypes DEF PageGetsTooMuch, FromDiy
  <2>2. WaitTypes'
    BY <1>5, RefusedType, FinishTypes DEF PageGetsTooMuch
  <2>3. events' \in 0..MaxEvents
    BY <1>5, InterruptionTypes DEF PageGetsTooMuch
  <2>4. PythonTypes'
    BY <1>5, <2>1, <2>2, <2>3
    DEF PageGetsTooMuch, TypeOK, PythonTypes, WaitTypes, worker, rest, flags, waiting, device, Phases
  <2>5. PageTypes'
    BY <1>5, <2>1, <2>2, <2>3
    DEF PageGetsTooMuch, TypeOK, PageTypes, WaitTypes, PlugTypes, worker, rest, flags, waiting, device, Phases
  <2>6. ChannelTypes'
    BY <1>5, <2>1, <2>2, <2>3
    DEF PageGetsTooMuch, TypeOK, ChannelTypes, PlugTypes, worker, rest, flags, waiting, device, Phases
  <2>7. DeviceTypes'
    BY <1>5, <2>1, <2>2, <2>3
    DEF PageGetsTooMuch, TypeOK, DeviceTypes, worker, rest, flags, waiting, device, Phases
  <2>8. QED
    BY <2>4, <2>5, <2>6, <2>7 DEF TypeOK
<1>6. QED
  BY <1>1, <1>2, <1>3, <1>4, <1>5 DEF Fault

LEMMA NextTypes ==
  ASSUME TypeOK, [Next]_vars
  PROVE  TypeOK'
<1>1. CASE UNCHANGED vars
  BY <1>1 DEF vars, TypeOK, PythonTypes, PageTypes, ChannelTypes, DeviceTypes,
              worker, rest, flags, waiting, device, Phases
<1>2. CASE Next
  BY <1>2, PageStepTypes, PythonStepTypes, DeviceStepTypes, UserTypes, FaultTypes DEF Next
<1>3. QED
  BY <1>1, <1>2

---------------------------------------------------------------------------
(* What a step does to the commands on their way: nothing but take the first *)
(* one or add one, or take or add something else.                            *)

\* The result of the query the page waits for, if its sender still waits.
Settles ==
  /\ pending' \in {0, pending}
  /\ \/ UNCHANGED <<pending, buf>>
     \/ (pending # 0 /\ pending = cur /\ buf'.done)
     \/ (pending' = 0 /\ (pending = 0 \/ pending # cur) /\ UNCHANGED buf)
UpMoves ==
  \/ up' = up
  \/ up # <<>> /\ Head(up).type # "command" /\ up' = Tail(up)
  \/ \E m \in UpMessages : m.type # "command" /\ up' = Append(up, m)
  \/ up' = <<>> /\ job' # "asleep"
Others == Settles /\ UpMoves /\ cur' = cur /\ job' \in {job, "none", "python", "reset"}

LEMMA FinishSettles ==
  ASSUME NEW r, r.done, Finish(r)
  PROVE  Settles
  BY DEF Finish, Settles

LEMMA RefusedIsDone ==
  Refused.done /\ ~Unset.done /\ \A l : [done |-> TRUE, lines |-> l].done
  BY DEF Refused, Unset

LEMMA UpdateCableSettles ==
  ASSUME NEW c, UpdateCable(c)
  PROVE  Settles
<1>1. CASE cable /\ ~c
  BY <1>1, RefusedIsDone, FinishSettles DEF UpdateCable
<1>2. CASE ~(cable /\ ~c)
  BY <1>2 DEF UpdateCable, Settles
<1>3. QED
  BY <1>1, <1>2

LEMMA ReceiveSettles ==
  ASSUME NEW lines, Receive(lines)
  PROVE  Settles
<1> DEFINE all == chunks \o lines
<1>1. CASE UNCHANGED <<pending, buf>>
  BY <1>1 DEF Settles
<1>2. CASE Finish(Refused)
  BY <1>2, RefusedIsDone, FinishSettles
<1>3. CASE Finish([done |-> TRUE, lines |-> SubSeq(all, 1, 2)])
  BY <1>3, RefusedIsDone, FinishSettles
<1>4. QED
  BY <1>1, <1>2, <1>3 DEF Receive

\* Every step but the page's taking a command and the worker's sending one.
LEMMA NextIsStep ==
  ASSUME TypeOK, [Next]_vars
  PROVE  Others \/ PageTakesQuery \/ QueryStarts
<1>0. ASSUME UNCHANGED <<pending, buf>> PROVE Settles
  BY <1>0 DEF Settles
<1>1. CASE PageStep
  <2>1. CASE PageTakesReady
    BY <2>1, UpdateCableSettles DEF PageTakesReady, Others, UpMoves, rest
  <2>2. CASE PageTakesError
    BY <2>2, UpdateCableSettles DEF PageTakesError, Others, UpMoves, rest
  <2>3. CASE PageTakesResetComplete
    BY <2>3, RefusedIsDone, FinishSettles DEF PageTakesResetComplete, Others, UpMoves
  <2>4. CASE PageTakesBytes
    BY <2>4, ReceiveSettles DEF PageTakesBytes, Others, UpMoves, rest
  <2>5. CASE PageTakesStopped
    BY <2>5, UpdateCableSettles DEF PageTakesStopped, Others, UpMoves, rest
  <2>6. CASE PageTakesRunning
    BY <2>6, UpdateCableSettles DEF PageTakesRunning, Others, UpMoves, rest
  <2>7. CASE PageTakesUsbState
    BY <2>7, UpdateCableSettles DEF PageTakesUsbState, Others, UpMoves, rest
  <2>8. QED
    BY <1>1, <2>1, <2>2, <2>3, <2>4, <2>5, <2>6, <2>7 DEF PageStep
<1>2. CASE PythonStep
  <2>1. CASE WorkerTakesMessage \/ JobStarts \/ QueryReturns \/ RequestDone
    BY <1>0, <2>1 DEF WorkerTakesMessage, JobStarts, QueryReturns, RequestDone, Others, UpMoves, waiting
  <2>2. CASE ResetDone
    BY <1>0, <2>2, MessageTypes DEF ResetDone, Others, UpMoves, waiting, Msg
  <2>3. CASE AppStarts
    BY <1>0, <2>3, MessageTypes DEF AppStarts, Others, UpMoves, waiting, Msg
  <2>4. QED
    BY <1>2, <2>1, <2>2, <2>3 DEF PythonStep
<1>3. CASE DeviceStep
  BY <1>0, <1>3 DEF DeviceStep, DeviceTakesCommand, DeviceTakesRestart, WorkerReplaced, DeviceRuns,
     FirmwareReads, FirmwareAnswers, Poll, Others, UpMoves, worker, rest, waiting
<1>4. CASE User
  <2>1. CASE Toggle
    BY <2>1, UpdateCableSettles DEF Toggle, Others, UpMoves, rest
  <2>2. CASE ResetClicked
    <3>1. Settles
      BY <1>0, <2>2, RefusedIsDone, FinishSettles DEF ResetClicked
    <3>2. QED
      BY <2>2, <3>1 DEF ResetClicked, Others, UpMoves, rest
  <2>3. CASE RestartClicked
    BY <2>3, UpdateCableSettles DEF RestartClicked, Others, UpMoves, rest
  <2>4. CASE RequestArrives \/ DeviceReboots \/ UsbSwitched
    BY <1>0, <2>4 DEF RequestArrives, DeviceReboots, UsbSwitched, Others, UpMoves, worker, rest, waiting
  <2>5. QED
    BY <1>4, <2>1, <2>2, <2>3, <2>4 DEF User
<1>5. CASE Fault
  <2>1. CASE QueryTimesOut \/ PageGetsTooMuch
    BY <2>1, RefusedIsDone, FinishSettles DEF QueryTimesOut, PageGetsTooMuch, Others, UpMoves, rest
  <2>2. CASE SleepTimesOut \/ DeviceCrashes
    BY <1>0, <2>2 DEF SleepTimesOut, DeviceCrashes, Others, UpMoves, worker, rest, waiting
  <2>3. CASE ResetFails
    BY <1>0, <2>3, MessageTypes DEF ResetFails, Others, UpMoves, waiting, Msg
  <2>4. CASE AppFails
    BY <1>0, <2>4, MessageTypes DEF AppFails, Others, UpMoves, waiting, Msg
  <2>5. QED
    BY <1>5, <2>1, <2>2, <2>3, <2>4 DEF Fault
<1>6. CASE UNCHANGED vars
  BY <1>0, <1>6 DEF vars, worker, rest, waiting, Others, UpMoves
<1>7. QED
  BY <1>1, <1>2, <1>3, <1>4, <1>5, <1>6 DEF Next

---------------------------------------------------------------------------
(* The order of the commands on their way.                                  *)

LEMMA TailCommands ==
  ASSUME TypeOK, up # <<>>, up' = Tail(up)
  PROVE  /\ \A i \in Commands' : i + 1 \in Commands /\ up'[i] = up[i + 1] /\ i \in Nat
         /\ \A i \in Commands : i # 1 => i - 1 \in Commands' /\ up'[i - 1] = up[i]
<1>1. up \in Seq(UpMessages)
  BY DEF TypeOK, ChannelTypes
<1>2. /\ DOMAIN up = 1..Len(up) /\ DOMAIN up' = 1..(Len(up) - 1) /\ Len(up) \in Nat
      /\ \A i \in 1..(Len(up) - 1) : up'[i] = up[i + 1]
  BY <1>1
<1>3. QED
  BY <1>2 DEF Commands

LEMMA AppendCommands ==
  ASSUME TypeOK, NEW m \in UpMessages, up' = Append(up, m)
  PROVE  /\ \A i \in Commands : i \in Commands' /\ up'[i] = up[i] /\ i \in 1..Len(up)
         /\ \A i \in Commands' : (i \in Commands /\ up'[i] = up[i]) \/ (i = Len(up) + 1 /\ up'[i] = m)
         /\ m.type = "command" => Len(up) + 1 \in Commands' /\ up'[Len(up) + 1] = m
         /\ m.type # "command" => Len(up) + 1 \notin Commands'
<1>1. up \in Seq(UpMessages)
  BY DEF TypeOK, ChannelTypes
<1>2. /\ DOMAIN up = 1..Len(up) /\ DOMAIN up' = 1..(Len(up) + 1) /\ Len(up) \in Nat
      /\ \A i \in 1..Len(up) : up'[i] = up[i]
      /\ up'[Len(up) + 1] = m
  BY <1>1
<1>3. QED
  BY <1>2 DEF Commands

LEMMA TailInOrder ==
  ASSUME TypeOK, InOrder, up # <<>>, up' = Tail(up)
  PROVE  InOrder'
<1>1. SUFFICES ASSUME NEW i \in Commands', NEW j \in Commands', i < j
               PROVE  up'[i].q < up'[j].q
  BY DEF InOrder
<1>2. i + 1 \in Commands /\ j + 1 \in Commands /\ i \in Nat /\ j \in Nat
  BY TailCommands
<1>3. up[i + 1].q < up[j + 1].q
  BY <1>1, <1>2 DEF InOrder
<1>4. QED
  BY <1>3, TailCommands

LEMMA CommandNumbers ==
  ASSUME TypeOK
  PROVE  \A i \in Commands : up[i] \in UpMessages /\ up[i].q \in 1..MaxQueries
  BY DEF TypeOK, ChannelTypes, Commands, UpMessages, Query

Order == InOrder /\ PendingFirst

LEMMA OrderKept ==
  ASSUME TypeOK, Order, [Next]_vars
  PROVE  Order'
<1>0. cur \in Nat /\ pending \in Nat
  BY BoundsAssumption DEF TypeOK, PythonTypes, PageTypes
<1>1. CASE Others
  <2>1. cur' = cur /\ pending' \in {0, pending}
    BY <1>1 DEF Others, Settles
  <2>2. CASE up' = up
    BY <1>0, <2>1, <2>2, CommandNumbers DEF Order, InOrder, PendingFirst, Commands
  <2>3. CASE up # <<>> /\ up' = Tail(up)
    <3>1. InOrder'
      BY <2>3, TailInOrder DEF Order
    <3>2. PendingFirst'
      <4>1. pending' <= cur'
        BY <1>0, <2>1 DEF Order, PendingFirst
      <4>2. SUFFICES ASSUME NEW i \in Commands'
                     PROVE  pending' < up'[i].q /\ up'[i].q <= cur'
        BY <4>1 DEF PendingFirst
      <4>3. i + 1 \in Commands /\ up'[i] = up[i + 1]
        BY <2>3, TailCommands
      <4>4. pending < up'[i].q /\ up'[i].q <= cur /\ up'[i].q \in 1..MaxQueries
        BY <4>3, CommandNumbers DEF Order, PendingFirst
      <4>5. QED
        BY <1>0, <2>1, <4>4
    <3>3. QED
      BY <3>1, <3>2 DEF Order
  <2>4. ASSUME NEW m \in UpMessages, m.type # "command", up' = Append(up, m)
        PROVE  Order'
    <3>1. \A i \in Commands' : i \in Commands /\ up'[i] = up[i]
      BY <2>4, AppendCommands
    <3>2. InOrder'
      BY <3>1 DEF Order, InOrder
    <3>3. pending' <= cur'
      BY <1>0, <2>1 DEF Order, PendingFirst
    <3>4. PendingFirst'
      BY <1>0, <2>1, <3>1, <3>3, CommandNumbers DEF Order, PendingFirst
    <3>5. QED
      BY <3>2, <3>4 DEF Order
  <2>5. CASE up' = <<>>
    <3>1. Commands' = {}
      BY <2>5 DEF Commands
    <3>2. pending' <= cur'
      BY <1>0, <2>1 DEF Order, PendingFirst
    <3>3. QED
      BY <3>1, <3>2 DEF Order, InOrder, PendingFirst
  <2>6. QED
    BY <1>1, <2>2, <2>3, <2>4, <2>5 DEF Others, UpMoves
<1>2. CASE PageTakesQuery
  <2>1. /\ up # <<>> /\ up' = Tail(up) /\ cur' = cur
        /\ pending' \in {0, up[1].q} /\ 1 \in Commands
    BY <1>2 DEF PageTakesQuery, QueueQuery, rest, Commands, TypeOK, ChannelTypes
  <2>2. InOrder'
    BY <2>1, TailInOrder DEF Order
  <2>3. PendingFirst'
    <3>1. SUFFICES ASSUME NEW i \in Commands'
                   PROVE  pending' < up'[i].q /\ up'[i].q <= cur
      <4>1. pending' <= cur'
        BY <1>0, <2>1 DEF Order, PendingFirst
      <4>2. QED
        BY <2>1, <4>1 DEF PendingFirst
    <3>2. i + 1 \in Commands /\ up'[i] = up[i + 1] /\ 1 < i + 1
      BY <2>1, TailCommands DEF Commands, TypeOK, ChannelTypes
    <3>3. up[1].q < up[i + 1].q /\ up[i + 1].q <= cur /\ 0 < up[i + 1].q
      BY <2>1, <3>2, CommandNumbers DEF Order, InOrder, PendingFirst
    <3>4. QED
      BY <2>1, <3>2, <3>3
  <2>4. QED
    BY <2>2, <2>3 DEF Order
<1>3. CASE QueryStarts
  <2>1. /\ cur' = cur + 1 /\ up' = Append(up, Command(cur + 1)) /\ pending' = pending
        /\ cur + 1 \in Query
    BY <1>0, <1>3, BoundsAssumption DEF QueryStarts, waiting, Query, TypeOK, PythonTypes
  <2>2. Command(cur + 1) \in UpMessages /\ Command(cur + 1).q = cur + 1
    BY <2>1, MessageTypes DEF Command
  <2>3. \A i \in Commands' : \/ (i \in Commands /\ up'[i] = up[i] /\ i < Len(up) + 1)
                             \/ (i = Len(up) + 1 /\ up'[i].q = cur + 1)
    BY <2>1, <2>2, AppendCommands DEF TypeOK, ChannelTypes
  <2>4. PendingFirst'
    <3>1. pending' <= cur'
      BY <1>0, <2>1 DEF Order, PendingFirst
    <3>2. \A i \in Commands' : pending' < up'[i].q /\ up'[i].q <= cur'
      <4>0. cur' = cur + 1 /\ cur' \in Nat /\ pending' = pending
        BY <1>0, <2>1
      <4>1. \A i \in Commands : pending < up[i].q /\ up[i].q <= cur /\ up[i].q \in Nat
        BY CommandNumbers DEF Order, PendingFirst
      <4>2. pending <= cur
        BY DEF Order, PendingFirst
      <4>3. TAKE i \in Commands'
      <4>4. CASE i \in Commands /\ up'[i] = up[i]
        <5>1. pending < up[i].q /\ up[i].q <= cur /\ up[i].q \in Nat
          BY <4>1, <4>4
        <5>2. QED
          BY <1>0, <4>0, <4>4, <5>1
      <4>5. CASE up'[i].q = cur + 1
        BY <1>0, <4>0, <4>2, <4>5
      <4>6. QED
        BY <2>3, <4>4, <4>5
    <3>3. QED
      BY <3>1, <3>2 DEF PendingFirst
  <2>5. InOrder'
    <3>1. SUFFICES ASSUME NEW i \in Commands', NEW j \in Commands', i < j
                   PROVE  up'[i].q < up'[j].q
      BY DEF InOrder
    <3>2. i \in Nat /\ j \in Nat /\ Len(up) \in Nat
      BY <2>3 DEF Commands, TypeOK, ChannelTypes
    <3>3. CASE j \in Commands /\ up'[j] = up[j] /\ j < Len(up) + 1
      BY <2>3, <3>1, <3>2, <3>3 DEF Order, InOrder
    <3>4. CASE j = Len(up) + 1 /\ up'[j].q = cur + 1
      BY <1>0, <2>3, <3>1, <3>2, <3>4, CommandNumbers DEF Order, PendingFirst
    <3>5. QED
      BY <2>3, <3>3, <3>4
  <2>6. QED
    BY <2>4, <2>5 DEF Order
<1>4. QED
  BY <1>1, <1>2, <1>3, NextIsStep

---------------------------------------------------------------------------
(* The sleeping worker.                                                     *)

\* A sleeper's command on its way, by its place.
LEMMA OnItsWay ==
  ASSUME TypeOK, cur # 0
  PROVE  Command(cur) \in Range(up) <=> \E i \in Commands : up[i].q = cur
<1>1. up \in Seq(UpMessages) /\ cur \in Query
  BY BoundsAssumption DEF TypeOK, ChannelTypes, PythonTypes, Query
<1>2. Range(up) = {up[i] : i \in DOMAIN up}
  BY DEF Range
<1>3. ASSUME NEW i \in Commands, up[i].q = cur
      PROVE  up[i] = Command(cur)
  <2>1. up[i] \in [type : {"command"}, q : Query]
    BY <1>1, <1>3 DEF Commands, UpMessages
  <2>2. QED
    BY <1>3, <2>1 DEF Command
<1>4. QED
  BY <1>2, <1>3 DEF Commands, Command

LEMMA OnItsWayThen ==
  ASSUME TypeOK', cur' # 0, NEW i \in Commands', up'[i].q = cur'
  PROVE  Command(cur)' \in Range(up)'
<1>1. up' \in Seq(UpMessages) /\ cur' \in Query
  BY BoundsAssumption DEF TypeOK, ChannelTypes, PythonTypes, Query
<1>2. up'[i] \in [type : {"command"}, q : Query]
  BY <1>1 DEF Commands, UpMessages
<1>3. up'[i] = Command(cur)'
  BY <1>2 DEF Command
<1>4. QED
  BY <1>3 DEF Range, Commands

Sleeper == SleeperHasNumber /\ SleeperIsServed

LEMMA SleeperKept ==
  ASSUME TypeOK, TypeOK', Order, Sleeper, [Next]_vars
  PROVE  Sleeper'
<1>0. cur \in Nat /\ pending \in Nat
  BY BoundsAssumption DEF TypeOK, PythonTypes, PageTypes
<1>1. SUFFICES ASSUME job' = "asleep"
               PROVE  cur' # 0 /\ (~buf'.done => Command(cur)' \in Range(up)' \/ pending' = cur')
  BY DEF Sleeper, SleeperHasNumber, SleeperIsServed
<1>2. CASE Others
  <2>1. job = "asleep" /\ cur' = cur /\ cur # 0
    BY <1>1, <1>2 DEF Others, Sleeper, SleeperHasNumber
  <2>2. SUFFICES ASSUME ~buf'.done
                 PROVE  Command(cur)' \in Range(up)' \/ pending' = cur'
    BY <2>1
  <2>3. UNCHANGED buf /\ (UNCHANGED pending \/ (pending' = 0 /\ (pending = 0 \/ pending # cur)))
    BY <1>2, <2>2 DEF Others, Settles
  <2>4. CASE pending = cur
    BY <2>1, <2>3, <2>4
  <2>5. CASE pending # cur
    <3>1. PICK i \in Commands : up[i].q = cur
      BY <2>1, <2>2, <2>3, <2>5, OnItsWay DEF Sleeper, SleeperIsServed
    <3>2. \E j \in Commands' : up'[j].q = cur
      <4>1. CASE up' = up
        BY <3>1, <4>1 DEF Commands
      <4>2. CASE up # <<>> /\ Head(up).type # "command" /\ up' = Tail(up)
        <5>1. i # 1
          BY <3>1, <4>2 DEF Commands, TypeOK, ChannelTypes
        <5>2. QED
          BY <3>1, <4>2, <5>1, TailCommands
      <4>3. ASSUME NEW m \in UpMessages, up' = Append(up, m)
            PROVE  \E j \in Commands' : up'[j].q = cur
        BY <3>1, <4>3, AppendCommands
      <4>4. QED
        BY <1>1, <1>2, <4>1, <4>2, <4>3 DEF Others, UpMoves
    <3>3. Command(cur)' \in Range(up)'
      <4>1. cur' # 0 /\ \E j \in Commands' : up'[j].q = cur'
        BY <2>1, <3>2
      <4>2. QED
        BY <4>1, OnItsWayThen
    <3>4. QED
      BY <3>3
  <2>6. QED
    BY <2>4, <2>5
<1>3. CASE PageTakesQuery
  <2>1. /\ up # <<>> /\ up' = Tail(up) /\ cur' = cur /\ job = "asleep" /\ cur # 0
        /\ 1 \in Commands /\ Head(up) = up[1] /\ QueueQuery(up[1].q)
    BY <1>1, <1>3 DEF PageTakesQuery, rest, Commands, TypeOK, ChannelTypes, Sleeper, SleeperHasNumber
  <2>2. SUFFICES ASSUME ~buf'.done
                 PROVE  Command(cur)' \in Range(up)' \/ pending' = cur'
    BY <2>1
  <2>3. CASE up[1].q = cur
    BY <2>1, <2>2, <2>3, RefusedIsDone DEF QueueQuery
  <2>4. CASE up[1].q # cur
    <3>1. UNCHANGED buf /\ ~buf.done
      BY <2>1, <2>2, <2>4 DEF QueueQuery
    <3>2. pending # cur
      BY <1>0, <2>1, CommandNumbers DEF Order, PendingFirst
    <3>3. PICK i \in Commands : up[i].q = cur
      BY <2>1, <3>1, <3>2, OnItsWay DEF Sleeper, SleeperIsServed
    <3>4. i - 1 \in Commands' /\ up'[i - 1] = up[i]
      BY <2>1, <2>4, <3>3, TailCommands
    <3>5. QED
      BY <2>1, <3>3, <3>4, OnItsWayThen
  <2>5. QED
    BY <2>3, <2>4
<1>4. CASE QueryStarts
  <2>1. /\ cur' = cur + 1 /\ up' = Append(up, Command(cur + 1)) /\ cur + 1 \in Query
    BY <1>0, <1>4, BoundsAssumption DEF QueryStarts, Query, TypeOK, PythonTypes
  <2>2. Command(cur + 1) \in UpMessages /\ Command(cur + 1).type = "command" /\ Command(cur + 1).q = cur + 1
    BY <2>1, MessageTypes DEF Command
  <2>3. \E j \in Commands' : up'[j].q = cur'
    BY <2>1, <2>2, AppendCommands
  <2>4. cur' # 0
    BY <1>0, <2>1
  <2>5. QED
    BY <2>3, <2>4, OnItsWayThen
<1>5. QED
  BY <1>2, <1>3, <1>4, NextIsStep

LEMMA NextInv ==
  ASSUME Inv, [Next]_vars
  PROVE  Inv'
<1>1. TypeOK /\ TypeOK'
  BY NextTypes DEF Inv
<1>2. Order'
  BY <1>1, OrderKept DEF Inv, Order
<1>3. Sleeper'
  BY <1>1, SleeperKept DEF Inv, Order, Sleeper
<1>4. QED
  BY <1>1, <1>2, <1>3 DEF Inv, Order, Sleeper

LEMMA Invariance ==
  Spec => []Inv
<1>1. Init => Inv
  BY InitInv
<1>2. Inv /\ [Next]_vars => Inv'
  BY NextInv
<1>3. QED
  BY <1>1, <1>2, PTL DEF Spec

\* Every message and flag of the page, the worker and the device has its type.
THEOREM TypeCorrect == Spec => []TypeOK
<1>1. Inv => TypeOK
  BY DEF Inv
<1>2. QED
  BY <1>1, Invariance, PTL

\* However often the cable is pulled, either side restarted or a timer ends a
\* query, a Python worker that sleeps has its command on the way to the page
\* or is the one the page waits for.
THEOREM SleepersAreServed == Spec => []SleeperIsServed
<1>1. Inv => SleeperIsServed
  BY DEF Inv
<1>2. QED
  BY <1>1, Invariance, PTL

---------------------------------------------------------------------------
(* The lines on their way to a command.  A line says nothing of where it    *)
(* belongs; it is its place that does.  Wherever an acknowledgement ends     *)
(* what the page holds or what a note carries, the next line that reaches    *)
(* the page is its answer, unless the page is told of a stop in between: in  *)
(* the next note with lines, first in the mailbox, or what the firmware      *)
(* still works on.                                                           *)

\* An acknowledgement and the answer to it.
Answers(ack, line) == line.kind = "answer" /\ line.of = ack.of
Framed(lines) ==
  \A p \in 1..(Len(lines) - 1) : lines[p].kind = "ack" => Answers(lines[p], lines[p + 1])

\* The page when it comes to take note k: it has been told that the device
\* stopped, and not since then that it runs.
Type(i) == fromDiy[i].type
Deaf(k) ==
  \/ \E i \in 1..(k - 1) : Type(i) = "stopped" /\ \A j \in (i + 1)..(k - 1) : Type(j) # "running"
  \/ ~running /\ \A j \in 1..(k - 1) : Type(j) # "running"

\* Where lines are on their way to a query: with the page, which has taken
\* them (place 0), or in a note.
Outputs == {i \in DOMAIN fromDiy : Type(i) = "output"}
Places == {0} \cup Outputs
Carried(k) == IF k = 0 THEN chunks ELSE fromDiy[k].lines
LastLine(lines) == lines[Len(lines)]
EndsWithAck(k) == Carried(k) # <<>> /\ LastLine(Carried(k)).kind = "ack"

\* Nothing comes between the lines at k and note j.
Reaches(k, j) ==
  ~Deaf(k) /\ \A i \in (k + 1)..(j - 1) : Type(i) \notin {"stopped", "output"}

\* The answer is the first line in the mailbox or is what the firmware works on.
IsDue(ack) == IF out = <<>> THEN fw = ack.of ELSE Answers(ack, out[1])

End == Len(fromDiy) + 1
Continued ==
  \A k \in Places : EndsWithAck(k) =>
    /\ \A j \in Outputs : k < j /\ Reaches(k, j) => Answers(LastLine(Carried(k)), fromDiy[j].lines[1])
    /\ Reaches(k, End) => IsDue(LastLine(Carried(k)))
NotesFramed == \A k \in Outputs : fromDiy[k].lines # <<>> /\ Framed(fromDiy[k].lines)
MailboxFramed ==
  /\ Framed(out)
  /\ out # <<>> => LastLine(out) = [of |-> fw, kind |-> "ack"] \/ (fw = 0 /\ LastLine(out).kind = "answer")
StoppedIsTold == phase # "running" => Deaf(End)
Stream == Continued /\ NotesFramed /\ MailboxFramed /\ StoppedIsTold

\* The page waits only while the cable is on, and then for the second line.
Plugged ==
  /\ pending # 0 => cable
  /\ cable => running
  /\ chunks # <<>> => pending # 0 /\ Len(chunks) = 1 /\ chunks[1].kind = "ack"

AnswerInv == TypeOK /\ Plugged /\ (~recovered => Stream /\ AnswerIsWhole)

---------------------------------------------------------------------------
\* Notes are added, and the page does not start to listen.
Extends ==
  /\ running' => running
  /\ Len(fromDiy) <= Len(fromDiy')
  /\ \A i \in 1..Len(fromDiy) : fromDiy'[i] = fromDiy[i]

LEMMA DeafExtends ==
  ASSUME TypeOK, TypeOK', Extends, NEW k \in 0..End, Deaf(k)
  PROVE  Deaf(k)'
<1>1. Len(fromDiy) \in Nat /\ Len(fromDiy') \in Nat
  BY DEF TypeOK, ChannelTypes
<1>2. \A i \in 1..(k - 1) : Type(i)' = Type(i)
  BY <1>1 DEF Extends, End, Type
<1>3. CASE ~running /\ \A j \in 1..(k - 1) : Type(j) # "running"
  BY <1>2, <1>3 DEF Extends, Deaf
<1>4. ASSUME NEW i \in 1..(k - 1), Type(i) = "stopped",
             \A j \in (i + 1)..(k - 1) : Type(j) # "running"
      PROVE  Deaf(k)'
  <2>1. Type(i)' = "stopped" /\ \A j \in (i + 1)..(k - 1) : Type(j)' # "running"
    BY <1>1, <1>2, <1>4
  <2>2. QED
    BY <2>1 DEF Deaf
<1>5. QED
  BY <1>3, <1>4 DEF Deaf

LEMMA ReachesExtends ==
  ASSUME TypeOK, TypeOK', Extends, NEW k \in 0..Len(fromDiy), NEW j \in Nat, Reaches(k, j)'
  PROVE  Reaches(k, IF j <= Len(fromDiy) THEN j ELSE End)
<1>1. Len(fromDiy) \in Nat /\ Len(fromDiy') \in Nat
  BY DEF TypeOK, ChannelTypes
<1>2. ~Deaf(k)
  BY <1>1, DeafExtends DEF Reaches, End
<1>3. \A i \in 1..Len(fromDiy) : Type(i)' = Type(i)
  BY DEF Extends, Type
<1>4. \A i \in (k + 1)..(j - 1) : Type(i)' \notin {"stopped", "output"}
  BY DEF Reaches
<1>5. \A i \in (k + 1)..((IF j <= Len(fromDiy) THEN j ELSE End) - 1) :
        Type(i) \notin {"stopped", "output"}
  BY <1>1, <1>3, <1>4 DEF End
<1>6. QED
  BY <1>2, <1>5 DEF Reaches

\* Once the page is to be told of a stop, nothing before it is due.
LEMMA StopReachesNobody ==
  ASSUME TypeOK, Deaf(End), NEW k \in Places
  PROVE  ~Reaches(k, End)
<1>1. /\ Len(fromDiy) \in Nat /\ k \in 0..Len(fromDiy)
      /\ DOMAIN fromDiy = 1..Len(fromDiy)
  BY DEF TypeOK, ChannelTypes, Places, Outputs
<1>2. CASE ~running /\ \A j \in 1..(End - 1) : Type(j) # "running"
  BY <1>1, <1>2 DEF Deaf, Reaches, End
<1>3. ASSUME NEW i \in 1..(End - 1), Type(i) = "stopped",
             \A j \in (i + 1)..(End - 1) : Type(j) # "running"
      PROVE  ~Reaches(k, End)
  <2>1. i # k
    BY <1>3 DEF Places, Outputs
  <2>2. CASE i < k
    <3>1. i \in 1..(k - 1) /\ \A j \in (i + 1)..(k - 1) : Type(j) # "running"
      BY <1>1, <1>3, <2>2 DEF End
    <3>2. QED
      BY <1>3, <3>1 DEF Deaf, Reaches
  <2>3. CASE k < i
    BY <1>1, <1>3, <2>3 DEF Reaches, End
  <2>4. QED
    BY <1>1, <2>1, <2>2, <2>3
<1>4. QED
  BY <1>2, <1>3 DEF Deaf

LEMMA LastLineType ==
  ASSUME TypeOK, NEW k \in Places, EndsWithAck(k)
  PROVE  /\ Carried(k) \in Seq(Line) /\ Len(Carried(k)) \in Nat \ {0}
         /\ LastLine(Carried(k)) \in Line
<1>1. Carried(k) \in Seq(Line)
  <2>1. CASE k = 0
    BY <2>1 DEF TypeOK, PageTypes, Carried
  <2>2. CASE k # 0
    <3>1. fromDiy \in Seq(Notes) /\ k \in DOMAIN fromDiy
      BY <2>2 DEF TypeOK, ChannelTypes, Places, Outputs
    <3>2. fromDiy[k] \in Notes
      BY <3>1
    <3>3. QED
      BY <2>2, <3>2 DEF Notes, Carried
  <2>3. QED
    BY <2>1, <2>2
<1>2. QED
  BY <1>1 DEF EndsWithAck, LastLine

\* A step that adds no lines to the notes.
NoLines == \A i \in (Len(fromDiy) + 1)..Len(fromDiy') : fromDiy'[i].type # "output"
FewerChunks == chunks' = chunks \/ chunks' = <<>>

LEMMA ExtendsContinued ==
  ASSUME TypeOK, TypeOK', Stream, Extends, NoLines, FewerChunks,
         \A k \in Places, a \in Line :
           EndsWithAck(k) /\ a = LastLine(Carried(k)) /\ Reaches(k, End) /\ Reaches(k, End)'
             => IsDue(a)'
  PROVE  Continued' /\ NotesFramed'
<1>1. /\ Len(fromDiy) \in Nat /\ Len(fromDiy') \in Nat
      /\ DOMAIN fromDiy = 1..Len(fromDiy) /\ DOMAIN fromDiy' = 1..Len(fromDiy')
  BY DEF TypeOK, ChannelTypes
<1>2. Outputs' = Outputs
  BY <1>1 DEF Extends, NoLines, Outputs, Type
<1>3. \A k \in Outputs : k \in 1..Len(fromDiy) /\ Carried(k)' = Carried(k) /\ fromDiy'[k] = fromDiy[k]
  BY <1>1 DEF Outputs, Extends, Carried
<1>4. NotesFramed'
  BY <1>2, <1>3 DEF Stream, NotesFramed
<1>5. SUFFICES ASSUME NEW k \in Places', EndsWithAck(k)'
      PROVE  /\ \A j \in Outputs' : k < j /\ Reaches(k, j)'
                  => Answers(LastLine(Carried(k))', fromDiy'[j].lines[1])
             /\ Reaches(k, End)' => IsDue(LastLine(Carried(k)))'
  BY <1>4 DEF Continued
<1>6. k \in Places /\ Carried(k)' = Carried(k) /\ k \in 0..Len(fromDiy)
  <2>1. CASE k = 0
    BY <1>1, <1>5, <2>1 DEF Places, EndsWithAck, Carried, FewerChunks
  <2>2. CASE k \in Outputs
    BY <1>1, <1>3, <2>2 DEF Places
  <2>3. QED
    BY <1>2, <1>5, <2>1, <2>2 DEF Places
<1>7. EndsWithAck(k)
  BY <1>5, <1>6 DEF EndsWithAck
<1>8. ASSUME NEW j \in Outputs', k < j, Reaches(k, j)'
      PROVE  Answers(LastLine(Carried(k))', fromDiy'[j].lines[1])
  <2>1. j \in Outputs /\ j \in 1..Len(fromDiy) /\ fromDiy'[j] = fromDiy[j]
    BY <1>2, <1>3, <1>8
  <2>2. Reaches(k, j)
    BY <1>6, <1>8, <2>1, ReachesExtends
  <2>3. QED
    BY <1>6, <1>7, <1>8, <2>1, <2>2 DEF Stream, Continued, LastLine
<1>9. ASSUME Reaches(k, End)' PROVE IsDue(LastLine(Carried(k)))'
  <2>1. End' \in Nat /\ ~(End' <= Len(fromDiy))
    BY <1>1 DEF Extends, End
  <2>2. Reaches(k, End)
    <3>1. SUFFICES ASSUME NEW e \in Nat, e = End' PROVE Reaches(k, End)
      BY <2>1
    <3>2. Reaches(k, e)'
      BY <1>9, <3>1
    <3>3. QED
      BY <1>6, <2>1, <3>1, <3>2, ReachesExtends
  <2>3. PICK a \in Line : a = LastLine(Carried(k))
    BY <1>6, <1>7, LastLineType
  <2>4. IsDue(a)'
    BY <1>6, <1>7, <1>9, <2>2, <2>3
  <2>5. QED
    BY <1>6, <2>3, <2>4 DEF LastLine, IsDue
<1>10. QED
  BY <1>8, <1>9

\* A step in which no line moves towards the page and the device goes on as
\* it did.
Quiet ==
  /\ running' => running
  /\ FewerChunks
  /\ UNCHANGED <<fromDiy, phase, fw, out>>

LEMMA QuietStream ==
  ASSUME TypeOK, TypeOK', Stream, Quiet
  PROVE  Stream'
<1>1. Extends /\ NoLines /\ Len(fromDiy) \in Nat /\ End' = End
  BY DEF Quiet, Extends, NoLines, TypeOK, ChannelTypes, End
<1>2. \A a \in Line : IsDue(a) => IsDue(a)'
  BY DEF Quiet, IsDue
<1>3. Continued' /\ NotesFramed'
  BY <1>1, <1>2, ExtendsContinued DEF Quiet, Stream, Continued
<1>4. MailboxFramed'
  BY DEF Quiet, Stream, MailboxFramed
<1>5. StoppedIsTold'
  <2>1. SUFFICES ASSUME phase' # "running" PROVE Deaf(End)'
    BY DEF StoppedIsTold
  <2>2. Deaf(End) /\ End \in 0..End
    BY <1>1, <2>1 DEF Stream, StoppedIsTold, Quiet, End
  <2>3. \A k \in 0..End : Deaf(k) => Deaf(k)'
    BY <1>1, DeafExtends
  <2>4. QED
    BY <1>1, <2>2, <2>3 DEF Deaf, Type
<1>6. QED
  BY <1>3, <1>4, <1>5 DEF Stream
---------------------------------------------------------------------------
(* The firmware's lines.                                                    *)

LEMMA ReadKeepsStream ==
  ASSUME TypeOK, TypeOK', Stream, FirmwareReads
  PROVE  Stream'
<1>1. /\ out \in Seq(Line) /\ fw = 0 /\ Head(cmds) \in Query /\ fw' = Head(cmds)
      /\ out' = Append(out, [of |-> Head(cmds), kind |-> "ack"])
  BY TakenTypes DEF FirmwareReads, TypeOK, DeviceTypes
<1>2. /\ Len(out) \in Nat /\ Len(out') = Len(out) + 1 /\ out' # <<>>
      /\ \A p \in 1..Len(out) : out'[p] = out[p]
      /\ out'[Len(out) + 1] = [of |-> Head(cmds), kind |-> "ack"]
  BY <1>1
<1>3. MailboxFramed'
  <2>1. out # <<>> => LastLine(out).kind = "answer"
    <3>1. SUFFICES ASSUME out # <<>> PROVE LastLine(out).kind = "answer"
      OBVIOUS
    <3>2. LastLine(out).of \in Query
      <4>1. Len(out) \in 1..Len(out)
        BY <1>1, <3>1
      <4>2. out[Len(out)] \in Line
        BY <1>1, <4>1
      <4>3. QED
        BY <4>2 DEF LastLine, Line
    <3>3. QED
      BY <1>1, <3>1, <3>2 DEF Stream, MailboxFramed, Query
  <2>2. ASSUME NEW p \in 1..(Len(out') - 1), out'[p].kind = "ack"
        PROVE  Answers(out'[p], out'[p + 1])
    <3>1. p \in 1..Len(out) /\ out'[p] = out[p]
      BY <1>2
    <3>2. p # Len(out)
      BY <1>1, <2>1, <2>2, <3>1 DEF LastLine
    <3>3. QED
      BY <1>2, <2>2, <3>1, <3>2 DEF Stream, MailboxFramed, Framed
  <2>3. LastLine(out') = [of |-> fw', kind |-> "ack"]
    BY <1>1, <1>2 DEF LastLine
  <2>4. QED
    BY <2>2, <2>3 DEF MailboxFramed, Framed, LastLine
<1>4. ASSUME NEW a \in Line, IsDue(a) PROVE IsDue(a)'
  <2>1. out # <<>>
    BY <1>1, <1>4 DEF IsDue, Line, Query
  <2>2. out'[1] = out[1]
    BY <1>1, <1>2, <2>1
  <2>3. QED
    BY <1>2, <1>4, <2>1, <2>2 DEF IsDue
<1>5. Extends /\ NoLines /\ FewerChunks /\ UNCHANGED <<running, fromDiy, phase>> /\ End' = End
  BY DEF FirmwareReads, Extends, NoLines, FewerChunks, flags, waiting, TypeOK, ChannelTypes, End
<1>6. Continued' /\ NotesFramed'
  BY <1>4, <1>5, ExtendsContinued DEF Stream, Continued
<1>7. StoppedIsTold'
  BY <1>5 DEF Stream, StoppedIsTold, Deaf, Type
<1>8. QED
  BY <1>3, <1>6, <1>7 DEF Stream

LEMMA AnswerKeepsStream ==
  ASSUME TypeOK, TypeOK', Stream, FirmwareAnswers
  PROVE  Stream'
<1>1. /\ out \in Seq(Line) /\ fw \in Query /\ fw' = 0
      /\ out' = Append(out, [of |-> fw, kind |-> "answer"])
  BY BoundsAssumption DEF FirmwareAnswers, TypeOK, DeviceTypes, Query
<1>2. /\ Len(out) \in Nat /\ Len(out') = Len(out) + 1 /\ out' # <<>>
      /\ \A p \in 1..Len(out) : out'[p] = out[p]
      /\ out'[Len(out) + 1] = [of |-> fw, kind |-> "answer"]
  BY <1>1
<1>3. MailboxFramed'
  <2>1. out # <<>> => LastLine(out) = [of |-> fw, kind |-> "ack"]
    BY <1>1 DEF Stream, MailboxFramed, Query
  <2>2. ASSUME NEW p \in 1..(Len(out') - 1), out'[p].kind = "ack"
        PROVE  Answers(out'[p], out'[p + 1])
    <3>1. p \in 1..Len(out) /\ out'[p] = out[p]
      BY <1>2
    <3>2. CASE p = Len(out)
      BY <1>1, <1>2, <2>1, <3>1, <3>2 DEF LastLine, Answers
    <3>3. CASE p # Len(out)
      BY <1>2, <2>2, <3>1, <3>3 DEF Stream, MailboxFramed, Framed
    <3>4. QED
      BY <3>2, <3>3
  <2>3. LastLine(out').kind = "answer"
    BY <1>1, <1>2 DEF LastLine
  <2>4. QED
    BY <1>1, <2>2, <2>3 DEF MailboxFramed, Framed, LastLine
<1>4. ASSUME NEW a \in Line, IsDue(a) PROVE IsDue(a)'
  <2>1. CASE out = <<>>
    BY <1>1, <1>2, <1>4, <2>1 DEF IsDue, Answers
  <2>2. CASE out # <<>>
    <3>1. out'[1] = out[1]
      BY <1>1, <1>2, <2>2
    <3>2. QED
      BY <1>2, <1>4, <2>2, <3>1 DEF IsDue
  <2>3. QED
    BY <2>1, <2>2
<1>5. Extends /\ NoLines /\ FewerChunks /\ UNCHANGED <<running, fromDiy, phase>> /\ End' = End
  BY DEF FirmwareAnswers, Extends, NoLines, FewerChunks, flags, waiting, TypeOK, ChannelTypes, End
<1>6. Continued' /\ NotesFramed'
  BY <1>4, <1>5, ExtendsContinued DEF Stream, Continued
<1>7. StoppedIsTold'
  BY <1>5 DEF Stream, StoppedIsTold, Deaf, Type
<1>8. QED
  BY <1>3, <1>6, <1>7 DEF Stream

---------------------------------------------------------------------------
(* The life of the device.                                                  *)

\* A device that is told to stop, or fails, says so after all it has said.
LEMMA StopKeepsStream ==
  ASSUME TypeOK, TypeOK', Stream, FewerChunks, running' = running,
         NEW m \in Seq(Notes), fromDiy' = fromDiy \o m, Len(m) > 0,
         m[1].type = "stopped", \A i \in 1..Len(m) : m[i].type \notin {"running", "output"},
         MailboxFramed'
  PROVE  Stream'
<1>1. /\ Len(fromDiy) \in Nat /\ Len(m) \in Nat /\ Len(fromDiy') = Len(fromDiy) + Len(m)
      /\ \A i \in 1..Len(fromDiy) : fromDiy'[i] = fromDiy[i]
      /\ \A i \in 1..Len(m) : fromDiy'[Len(fromDiy) + i] = m[i]
  BY DEF TypeOK, ChannelTypes
<1>2. \A i \in (Len(fromDiy) + 1)..Len(fromDiy') : fromDiy'[i].type \notin {"running", "output"}
  <2>1. TAKE i \in (Len(fromDiy) + 1)..Len(fromDiy')
  <2>2. i - Len(fromDiy) \in 1..Len(m) /\ Len(fromDiy) + (i - Len(fromDiy)) = i
    BY <1>1
  <2>3. QED
    BY <1>1, <2>2
<1>3. PICK n \in Nat : n = Len(fromDiy) + 1
  BY <1>1
<1>4. /\ n \in 1..(End' - 1) /\ Type(n)' = "stopped" /\ End' \in Nat
      /\ \A j \in (n + 1)..(End' - 1) : Type(j)' # "running"
  BY <1>1, <1>2, <1>3 DEF End, Type
<1>5. Extends /\ NoLines
  BY <1>1, <1>2 DEF Extends, NoLines
<1>6. \A k \in Places : ~Reaches(k, End)'
  <2>1. TAKE k \in Places
  <2>2. k \in 0..Len(fromDiy)
    BY <1>1 DEF Places, Outputs, TypeOK, ChannelTypes
  <2>3. n \in (k + 1)..(End' - 1)
    BY <1>1, <1>3, <1>4, <2>2
  <2>4. QED
    BY <1>4, <2>3 DEF Reaches
<1>7. Continued' /\ NotesFramed'
  BY <1>5, <1>6, ExtendsContinued
<1>8. StoppedIsTold'
  BY <1>4 DEF StoppedIsTold, Deaf
<1>9. QED
  BY <1>7, <1>8 DEF Stream

LEMMA RestartsKeepsStream ==
  ASSUME TypeOK, TypeOK', Stream, Restarts, UNCHANGED <<running, chunks, fw, out>>
  PROVE  Stream'
<1>1. CASE phase = "restarting"
  BY <1>1, QuietStream DEF Restarts, Quiet, FewerChunks
<1>2. CASE phase # "restarting"
  <2>1. MailboxFramed'
    BY DEF Stream, MailboxFramed
  <2> DEFINE m == <<Note("stopped"), Note("usb")>>
  <2>2. m \in Seq(Notes) /\ Len(m) = 2
    BY MessageTypes
  <2>3. m[1].type = "stopped" /\ \A i \in 1..Len(m) : m[i].type \notin {"running", "output"}
    BY DEF Note
  <2>4. fromDiy' = fromDiy \o m
    BY <1>2 DEF Restarts
  <2> HIDE DEF m
  <2>5. Len(m) > 0 /\ running' = running /\ FewerChunks
    BY <2>2 DEF FewerChunks
  <2>6. QED
    BY <2>1, <2>2, <2>3, <2>4, <2>5, StopKeepsStream
<1>3. QED
  BY <1>1, <1>2

LEMMA NewMailbox ==
  ASSUME NewWorker
  PROVE  MailboxFramed'
  BY DEF NewWorker, MailboxFramed, Framed

LEMMA FailureKeepsStream ==
  ASSUME TypeOK, TypeOK', Stream, DeviceCrashes, ~recovered'
  PROVE  Stream'
<1>1. fromDiy' = Append(fromDiy, Note("stopped")) /\ UNCHANGED <<running, chunks>> /\ NewWorker
  BY DEF DeviceCrashes, flags, waiting
<1> DEFINE m == <<Note("stopped")>>
<1>2. m \in Seq(Notes) /\ Len(m) = 1 /\ fromDiy' = fromDiy \o m
  BY <1>1, MessageTypes DEF TypeOK, ChannelTypes
<1>3. m[1].type = "stopped" /\ \A i \in 1..Len(m) : m[i].type \notin {"running", "output"}
  BY DEF Note
<1> HIDE DEF m
<1>4. Len(m) > 0 /\ running' = running /\ FewerChunks
  BY <1>1, <1>2 DEF FewerChunks
<1>5. QED
  BY <1>1, <1>2, <1>3, <1>4, NewMailbox, StopKeepsStream

\* The page has been told, so that what the old worker had begun is not due.
LEMMA ReplacementKeepsStream ==
  ASSUME TypeOK, TypeOK', Stream, WorkerReplaced
  PROVE  Stream'
<1>1. Deaf(End)
  BY DEF WorkerReplaced, Stream, StoppedIsTold
<1>2. Extends /\ NoLines /\ FewerChunks /\ UNCHANGED <<running, fromDiy>> /\ End' = End
  BY DEF WorkerReplaced, Extends, NoLines, FewerChunks, flags, waiting, TypeOK, ChannelTypes, End
<1>3. Continued' /\ NotesFramed'
  BY <1>1, <1>2, StopReachesNobody, ExtendsContinued
<1>4. StoppedIsTold'
  BY <1>1, <1>2 DEF StoppedIsTold, Deaf, Type
<1>5. QED
  BY <1>3, <1>4, NewMailbox DEF Stream, WorkerReplaced

LEMMA RunsKeepsStream ==
  ASSUME TypeOK, TypeOK', Stream, DeviceRuns
  PROVE  Stream'
<1>1. /\ Len(fromDiy) \in Nat /\ Len(fromDiy') = Len(fromDiy) + 1
      /\ \A i \in 1..Len(fromDiy) : fromDiy'[i] = fromDiy[i]
      /\ fromDiy'[Len(fromDiy) + 1] = Note("running")
  BY MessageTypes DEF DeviceRuns, TypeOK, ChannelTypes
<1>2. Extends /\ NoLines /\ FewerChunks
  BY <1>1 DEF DeviceRuns, Extends, NoLines, FewerChunks, flags, waiting, Note
<1>3. \A a \in Line : IsDue(a) => IsDue(a)'
  BY DEF DeviceRuns, IsDue
<1>4. Continued' /\ NotesFramed'
  BY <1>2, <1>3, ExtendsContinued DEF Stream, Continued
<1>5. MailboxFramed' /\ StoppedIsTold'
  BY DEF DeviceRuns, Stream, MailboxFramed, StoppedIsTold
<1>6. QED
  BY <1>4, <1>5 DEF Stream
\* Notes that do not say that the device runs leave the page deaf.
LEMMA StaysTold ==
  ASSUME TypeOK, TypeOK', Extends, Deaf(End),
         \A i \in (Len(fromDiy) + 1)..Len(fromDiy') : fromDiy'[i].type # "running"
  PROVE  Deaf(End)'
<1>1. Len(fromDiy) \in Nat /\ Len(fromDiy') \in Nat /\ Len(fromDiy) <= Len(fromDiy')
  BY DEF TypeOK, ChannelTypes, Extends
<1>2. \A j \in 1..Len(fromDiy) : Type(j)' = Type(j)
  BY DEF Extends, Type
<1>3. \A j \in (Len(fromDiy) + 1)..Len(fromDiy') : Type(j)' # "running"
  BY DEF Type
<1>4. CASE ~running /\ \A j \in 1..(End - 1) : Type(j) # "running"
  <2>1. ~running' /\ \A j \in 1..(End' - 1) : Type(j)' # "running"
    BY <1>1, <1>2, <1>3, <1>4 DEF Extends, End
  <2>2. QED
    BY <2>1 DEF Deaf
<1>5. ASSUME NEW i \in 1..(End - 1), Type(i) = "stopped",
             \A j \in (i + 1)..(End - 1) : Type(j) # "running"
      PROVE  Deaf(End)'
  <2>1. /\ i \in 1..(End' - 1) /\ Type(i)' = "stopped"
        /\ \A j \in (i + 1)..(End' - 1) : Type(j)' # "running"
    BY <1>1, <1>2, <1>3, <1>5 DEF End
  <2>2. QED
    BY <2>1 DEF Deaf
<1>6. QED
  BY <1>4, <1>5 DEF Deaf

\* The mailbox becomes the last note.
LEMMA CollectedContinued ==
  ASSUME TypeOK, TypeOK', Stream, Extends, UNCHANGED <<chunks, fw>>, out # <<>>, out' = <<>>,
         NEW e \in Nat, e = Len(fromDiy'), Len(fromDiy) < e,
         fromDiy'[e].type = "output", fromDiy'[e].lines = out,
         \A i \in (Len(fromDiy) + 1)..(e - 1) : fromDiy'[i].type # "output"
  PROVE  Continued' /\ NotesFramed'
<1>1. /\ Len(fromDiy) \in Nat /\ End' = e + 1
      /\ DOMAIN fromDiy = 1..Len(fromDiy) /\ DOMAIN fromDiy' = 1..e
  BY DEF TypeOK, ChannelTypes, End
<1>2. Outputs' = Outputs \cup {e}
  BY <1>1 DEF Extends, Outputs, Type
<1>3. /\ \A k \in Outputs : k \in 1..Len(fromDiy) /\ fromDiy'[k] = fromDiy[k]
      /\ \A k \in Places : k \in 0..Len(fromDiy) /\ Carried(k)' = Carried(k)
      /\ Carried(e)' = out
  BY <1>1 DEF Outputs, Places, Extends, Carried
<1>4. NotesFramed'
  BY <1>2, <1>3 DEF Stream, NotesFramed, MailboxFramed
<1>5. SUFFICES ASSUME NEW k \in Places', EndsWithAck(k)'
      PROVE  /\ \A j \in Outputs' : k < j /\ Reaches(k, j)'
                  => Answers(LastLine(Carried(k))', fromDiy'[j].lines[1])
             /\ Reaches(k, End)' => IsDue(LastLine(Carried(k)))'
  BY <1>4 DEF Continued
<1>6. CASE k \in Places
  <2>1. Carried(k)' = Carried(k) /\ EndsWithAck(k) /\ k \in 0..Len(fromDiy)
    BY <1>3, <1>5, <1>6 DEF EndsWithAck
  <2>2. ASSUME NEW j \in Outputs, k < j, Reaches(k, j)'
        PROVE  Answers(LastLine(Carried(k))', fromDiy'[j].lines[1])
    <3>1. j \in Nat /\ j <= Len(fromDiy)
      BY <1>1, <1>3, <2>2
    <3>2. Reaches(k, j)
      BY <2>1, <2>2, <3>1, ReachesExtends
    <3>3. QED
      BY <1>3, <1>6, <2>1, <2>2, <3>2 DEF Stream, Continued, LastLine
  <2>3. ASSUME Reaches(k, e)'
        PROVE  Answers(LastLine(Carried(k))', fromDiy'[e].lines[1])
    <3>1. Reaches(k, End)
      BY <1>1, <2>1, <2>3, ReachesExtends
    <3>2. IsDue(LastLine(Carried(k)))
      BY <1>6, <2>1, <3>1 DEF Stream, Continued
    <3>3. QED
      BY <2>1, <3>2 DEF IsDue, LastLine
  <2>4. ~Reaches(k, End)'
    <3>1. e \in (k + 1)..(End' - 1) /\ Type(e)' = "output"
      BY <1>1, <2>1 DEF Type
    <3>2. QED
      BY <3>1 DEF Reaches
  <2>5. QED
    BY <1>2, <2>2, <2>3, <2>4
<1>7. CASE k = e
  <2>1. \A j \in Outputs' : ~(k < j)
    BY <1>1, <1>7 DEF Outputs
  <2>2. LastLine(out) = [of |-> fw, kind |-> "ack"]
    BY <1>3, <1>5, <1>7 DEF EndsWithAck, Stream, MailboxFramed, LastLine
  <2>3. IsDue(LastLine(Carried(k)))'
    BY <1>3, <1>7, <2>2 DEF IsDue, LastLine
  <2>4. QED
    BY <2>1, <2>3
<1>8. QED
  BY <1>2, <1>5, <1>6, <1>7 DEF Places

LEMMA PollKeepsStream ==
  ASSUME TypeOK, TypeOK', Stream, Poll
  PROVE  Stream'
<1> DEFINE usbNote == [type |-> "usb", on |-> usbOn, lines |-> <<>>]
           outNote == [type |-> "output", on |-> FALSE, lines |-> out]
           first == fromDiy \o (IF told # usbOn THEN <<usbNote>> ELSE <<>>)
<1>1. /\ UNCHANGED <<running, chunks, phase, fw>> /\ out' = <<>>
      /\ fromDiy' = first \o (IF out # <<>> THEN <<outNote>> ELSE <<>>)
  BY DEF Poll, flags, waiting
<1>2. fromDiy \in Seq(Notes) /\ Len(fromDiy) \in Nat /\ usbNote \in Notes /\ outNote \in Notes
  BY DEF TypeOK, ChannelTypes, DeviceTypes, Notes
<1>3. /\ first \in Seq(Notes) /\ Len(first) \in {Len(fromDiy), Len(fromDiy) + 1}
      /\ \A i \in 1..Len(fromDiy) : first[i] = fromDiy[i]
      /\ \A i \in (Len(fromDiy) + 1)..Len(first) : first[i].type = "usb"
  <2>1. CASE told # usbOn
    <3>1. first = Append(fromDiy, usbNote)
      BY <1>2, <2>1
    <3>2. QED
      BY <1>2, <3>1
  <2>2. CASE told = usbOn
    BY <1>2, <2>2
  <2>3. QED
    BY <2>1, <2>2
<1> HIDE DEF first
<1>4. /\ \A i \in 1..Len(first) : fromDiy'[i] = first[i]
      /\ out = <<>> => Len(fromDiy') = Len(first)
      /\ out # <<>> => Len(fromDiy') = Len(first) + 1 /\ fromDiy'[Len(first) + 1] = outNote
  <2>1. CASE out # <<>>
    <3>1. fromDiy' = Append(first, outNote)
      BY <1>1, <1>3, <2>1
    <3>2. QED
      BY <1>2, <1>3, <2>1, <3>1
  <2>2. CASE out = <<>>
    BY <1>1, <1>3, <2>2
  <2>3. QED
    BY <2>1, <2>2
<1>5. Extends
  BY <1>1, <1>2, <1>3, <1>4 DEF Extends
<1>6. \A i \in (Len(fromDiy) + 1)..Len(first) : fromDiy'[i].type = "usb"
  BY <1>2, <1>3, <1>4
<1>7. Continued' /\ NotesFramed'
  <2>1. CASE out = <<>>
    <3>1. NoLines /\ FewerChunks
      BY <1>1, <1>4, <1>6, <2>1 DEF NoLines, FewerChunks
    <3>2. \A a \in Line : IsDue(a) => IsDue(a)'
      BY <1>1, <2>1 DEF IsDue
    <3>3. QED
      BY <1>5, <3>1, <3>2, ExtendsContinued DEF Stream, Continued
  <2>2. CASE out # <<>>
    <3>1. PICK e \in Nat : e = Len(first) + 1
      BY <1>2, <1>3
    <3>2. e = Len(fromDiy') /\ Len(fromDiy) < e /\ fromDiy'[e] = outNote
      BY <1>2, <1>3, <1>4, <2>2, <3>1
    <3>3. \A i \in (Len(fromDiy) + 1)..(e - 1) : fromDiy'[i].type # "output"
      BY <1>2, <1>3, <1>6, <3>1
    <3>4. fromDiy'[e].type = "output" /\ fromDiy'[e].lines = out
      BY <3>2
    <3>5. QED
      BY <1>1, <1>5, <2>2, <3>2, <3>3, <3>4, CollectedContinued
  <2>3. QED
    BY <2>1, <2>2
<1>8. MailboxFramed'
  BY <1>1 DEF MailboxFramed, Framed
<1>9. StoppedIsTold'
  <2>1. \A i \in (Len(fromDiy) + 1)..Len(fromDiy') : fromDiy'[i].type # "running"
    BY <1>2, <1>3, <1>4, <1>6
  <2>2. QED
    BY <1>1, <1>5, <2>1, StaysTold DEF StoppedIsTold, Stream
<1>10. QED
  BY <1>7, <1>8, <1>9 DEF Stream
---------------------------------------------------------------------------
(* The page takes a note.                                                   *)

Takes == fromDiy # <<>> /\ fromDiy' = Tail(fromDiy)
Hears ==
  /\ Type(1) = "stopped" => ~running'
  /\ Type(1) = "running" => running'
  /\ Type(1) \notin {"stopped", "running"} => running' = running

LEMMA NotesShift ==
  ASSUME TypeOK, Takes
  PROVE  /\ Len(fromDiy) \in Nat \ {0} /\ Len(fromDiy') = Len(fromDiy) - 1
         /\ End' = Len(fromDiy) /\ End = Len(fromDiy) + 1
         /\ DOMAIN fromDiy = 1..Len(fromDiy) /\ DOMAIN fromDiy' = 1..(Len(fromDiy) - 1)
         /\ \A i \in 1..(Len(fromDiy) - 1) : fromDiy'[i] = fromDiy[i + 1] /\ Type(i)' = Type(i + 1)
<1>1. fromDiy \in Seq(Notes)
  BY DEF TypeOK, ChannelTypes
<1>2. /\ Len(fromDiy) \in Nat \ {0} /\ Len(fromDiy') = Len(fromDiy) - 1
      /\ DOMAIN fromDiy = 1..Len(fromDiy) /\ DOMAIN fromDiy' = 1..(Len(fromDiy) - 1)
      /\ \A i \in 1..(Len(fromDiy) - 1) : fromDiy'[i] = fromDiy[i + 1]
  BY <1>1 DEF Takes
<1>3. \A i \in 1..(Len(fromDiy) - 1) : Type(i)' = Type(i + 1)
  BY <1>2 DEF Type
<1>4. QED
  BY <1>2, <1>3 DEF End

LEMMA DeafShifts ==
  ASSUME TypeOK, Takes, Hears, NEW k \in 1..Len(fromDiy), Deaf(k + 1)
  PROVE  Deaf(k)'
<1>1. /\ Len(fromDiy) \in Nat \ {0}
      /\ \A i \in 1..(k - 1) : Type(i)' = Type(i + 1) /\ i + 1 \in 2..k
  BY NotesShift
<1>2. CASE ~running /\ \A j \in 1..k : Type(j) # "running"
  <2>1. ~running' /\ \A j \in 1..(k - 1) : Type(j)' # "running"
    BY <1>1, <1>2 DEF Hears
  <2>2. QED
    BY <2>1 DEF Deaf
<1>3. ASSUME NEW i \in 1..k, Type(i) = "stopped", \A j \in (i + 1)..k : Type(j) # "running"
      PROVE  Deaf(k)'
  <2>1. CASE i = 1
    <3>1. ~running' /\ \A j \in 1..(k - 1) : Type(j)' # "running"
      BY <1>1, <1>3, <2>1 DEF Hears
    <3>2. QED
      BY <3>1 DEF Deaf
  <2>2. CASE i # 1
    <3>1. PICK h \in 1..(k - 1) : i = h + 1
      BY <1>3, <2>2
    <3>2. Type(h)' = "stopped" /\ \A j \in (h + 1)..(k - 1) : Type(j)' # "running"
      BY <1>1, <1>3, <3>1
    <3>3. QED
      BY <3>2 DEF Deaf
  <2>3. QED
    BY <2>1, <2>2
<1>4. QED
  BY <1>2, <1>3 DEF Deaf

LEMMA ReachesShifts ==
  ASSUME TypeOK, Takes, Hears, NEW j \in 1..Len(fromDiy)
  PROVE  /\ \A k \in 1..(Len(fromDiy) - 1) : Reaches(k, j)' => Reaches(k + 1, j + 1)
         /\ running /\ Reaches(0, j)' => Reaches(1, j + 1)
         /\ running /\ Type(1) \notin {"stopped", "output"} /\ Reaches(0, j)' => Reaches(0, j + 1)
<1>1. /\ Len(fromDiy) \in Nat \ {0}
      /\ \A i \in 1..(j - 1) : Type(i)' = Type(i + 1)
  BY NotesShift
<1>2. ASSUME NEW k \in 0..(Len(fromDiy) - 1), Reaches(k, j)'
      PROVE  \A i \in (k + 2)..j : Type(i) \notin {"stopped", "output"}
  <2>1. TAKE i \in (k + 2)..j
  <2>2. PICK h \in (k + 1)..(j - 1) : i = h + 1
    BY <2>1
  <2>3. Type(h)' \notin {"stopped", "output"} /\ h \in 1..(j - 1)
    BY <1>2, <2>2 DEF Reaches
  <2>4. QED
    BY <1>1, <2>2, <2>3
<1>3. ASSUME NEW k \in 1..(Len(fromDiy) - 1), Reaches(k, j)'
      PROVE  Reaches(k + 1, j + 1)
  <2>1. ~Deaf(k + 1)
    BY <1>1, <1>3, DeafShifts DEF Reaches
  <2>2. \A i \in (k + 1 + 1)..(j + 1 - 1) : Type(i) \notin {"stopped", "output"}
    BY <1>1, <1>2, <1>3
  <2>3. QED
    BY <2>1, <2>2 DEF Reaches
<1>4. ASSUME running, Reaches(0, j)'
      PROVE  /\ Reaches(1, j + 1)
             /\ Type(1) \notin {"stopped", "output"} => Reaches(0, j + 1)
  <2>1. ~Deaf(0) /\ ~Deaf(1)
    BY <1>4 DEF Deaf
  <2>2. \A i \in 2..j : Type(i) \notin {"stopped", "output"}
    BY <1>1, <1>2, <1>4
  <2>3. QED
    BY <2>1, <2>2 DEF Reaches
<1>5. QED
  BY <1>3, <1>4

LEMMA TakesKeepsStream ==
  ASSUME TypeOK, TypeOK', Stream, Takes, Hears, UNCHANGED <<fw, out, phase>>,
         chunks' # <<>> =>
           /\ running
           /\ \/ chunks' = chunks /\ Type(1) \notin {"stopped", "output"}
              \/ chunks' = fromDiy[1].lines /\ Type(1) = "output"
  PROVE  Stream'
<1>1. /\ Len(fromDiy) \in Nat \ {0} /\ End' = Len(fromDiy) /\ End = Len(fromDiy) + 1
      /\ DOMAIN fromDiy = 1..Len(fromDiy) /\ DOMAIN fromDiy' = 1..(Len(fromDiy) - 1)
      /\ \A i \in 1..(Len(fromDiy) - 1) : fromDiy'[i] = fromDiy[i + 1] /\ Type(i)' = Type(i + 1)
  BY NotesShift
<1>2. \A k \in Outputs' : /\ k \in 1..(Len(fromDiy) - 1) /\ k + 1 \in Outputs
                          /\ fromDiy'[k] = fromDiy[k + 1] /\ Carried(k)' = Carried(k + 1)
  BY <1>1 DEF Outputs, Carried
<1>3. NotesFramed'
  BY <1>2 DEF Stream, NotesFramed
<1>4. MailboxFramed'
  BY DEF Stream, MailboxFramed
<1>5. StoppedIsTold'
  <2>1. SUFFICES ASSUME phase # "running", NEW e \in 1..Len(fromDiy), e = End'
                 PROVE  Deaf(End)'
    BY <1>1 DEF StoppedIsTold
  <2>2. Deaf(e + 1)
    BY <1>1, <2>1 DEF Stream, StoppedIsTold
  <2>3. Deaf(e)'
    BY <2>2, DeafShifts
  <2>4. QED
    BY <2>1, <2>3 DEF Deaf
<1>6. SUFFICES ASSUME NEW k \in Places', EndsWithAck(k)'
      PROVE  /\ \A j \in Outputs' : k < j /\ Reaches(k, j)'
                  => Answers(LastLine(Carried(k))', fromDiy'[j].lines[1])
             /\ Reaches(k, End)' => IsDue(LastLine(Carried(k)))'
  BY <1>3, <1>4, <1>5 DEF Continued, Stream
\* The place that the lines at k had before.
<1>7. PICK h \in Places :
        /\ Carried(k)' = Carried(h) /\ h <= k + 1
        /\ \A j \in 1..Len(fromDiy) : Reaches(k, j)' => Reaches(h, j + 1)
  <2>1. CASE k \in Outputs'
    BY <1>2, <2>1, ReachesShifts DEF Places
  <2>2. CASE k = 0 /\ chunks' = chunks /\ Type(1) \notin {"stopped", "output"}
    <3>1. running
      BY <1>6, <2>2 DEF EndsWithAck, Carried
    <3>2. QED
      BY <2>2, <3>1, ReachesShifts DEF Places, Carried
  <2>3. CASE k = 0 /\ chunks' = fromDiy[1].lines /\ Type(1) = "output"
    <3>1. running /\ 1 \in Outputs
      BY <1>1, <1>6, <2>3 DEF EndsWithAck, Carried, Outputs
    <3>2. QED
      BY <2>3, <3>1, ReachesShifts DEF Places, Carried
  <2>4. QED
    BY <1>6, <2>1, <2>2, <2>3 DEF Places, EndsWithAck, Carried
<1>8. EndsWithAck(h)
  BY <1>6, <1>7 DEF EndsWithAck
<1>9. ASSUME NEW j \in Outputs', k < j, Reaches(k, j)'
      PROVE  Answers(LastLine(Carried(k))', fromDiy'[j].lines[1])
  <2>1. /\ j \in 1..Len(fromDiy) /\ j + 1 \in Outputs /\ fromDiy'[j] = fromDiy[j + 1]
        /\ k \in Nat /\ h \in Nat
    BY <1>1, <1>2, <1>7 DEF Places, Outputs
  <2>2. Reaches(h, j + 1) /\ h < j + 1
    BY <1>7, <1>9, <2>1
  <2>3. Answers(LastLine(Carried(h)), fromDiy[j + 1].lines[1])
    BY <1>7, <1>8, <2>1, <2>2 DEF Stream, Continued
  <2>4. QED
    BY <1>7, <2>1, <2>3 DEF LastLine
<1>10. ASSUME Reaches(k, End)' PROVE IsDue(LastLine(Carried(k)))'
  <2>1. PICK e \in 1..Len(fromDiy) : e = End' /\ e + 1 = End
    BY <1>1
  <2>2. Reaches(k, e)'
    BY <1>10, <2>1 DEF Reaches
  <2>3. Reaches(h, End)
    BY <1>7, <2>1, <2>2
  <2>4. IsDue(LastLine(Carried(h)))
    BY <1>7, <1>8, <2>3 DEF Stream, Continued
  <2>5. QED
    BY <1>7, <2>4 DEF IsDue, LastLine
<1>11. QED
  BY <1>9, <1>10
---------------------------------------------------------------------------
(* The answer.                                                              *)

KeepsBuf == buf' = buf \/ buf'.lines = <<>>
\* A step that is quiet and gives no answer.
Calm == Quiet /\ KeepsBuf /\ Plugged' /\ recovered' = recovered

LEMMA FinishRefuses ==
  ASSUME Finish(Refused)
  PROVE  KeepsBuf /\ pending' = 0 /\ chunks' = <<>>
  BY DEF Finish, Refused, KeepsBuf

LEMMA UpdateCableKeeps ==
  ASSUME Plugged, NEW c, UpdateCable(c), c => running'
  PROVE  Plugged' /\ FewerChunks /\ KeepsBuf
<1>1. CASE cable /\ ~c
  BY <1>1, FinishRefuses DEF UpdateCable, Plugged, FewerChunks
<1>2. CASE ~(cable /\ ~c)
  BY <1>2 DEF UpdateCable, Plugged, FewerChunks, KeepsBuf
<1>3. QED
  BY <1>1, <1>2

LEMMA NothingPlugged ==
  ASSUME pending' = 0, chunks' = <<>>, cable' => running'
  PROVE  Plugged'
  BY DEF Plugged

LEMMA PageIsCalm ==
  ASSUME Plugged, PageTakesQuery \/ PageTakesReady \/ PageTakesError \/ PageTakesResetComplete
  PROVE  Calm
<1>1. CASE PageTakesQuery
  <2>1. /\ UNCHANGED <<running, cable, fromDiy, phase, fw, out, recovered>>
        /\ QueueQuery(Head(up).q)
    BY <1>1 DEF PageTakesQuery, flags, device
  <2>2. chunks' = <<>> /\ KeepsBuf /\ (pending' # 0 => cable)
    BY <2>1 DEF QueueQuery, KeepsBuf, Refused
  <2>3. QED
    BY <2>1, <2>2 DEF Calm, Quiet, FewerChunks, Plugged
<1>2. CASE PageTakesReady
  <2>1. UNCHANGED <<running, fromDiy, phase, fw, out, recovered>>
    BY <1>2 DEF PageTakesReady, device
  <2>2. Plugged' /\ FewerChunks /\ KeepsBuf
    <3>1. Connected(toggle, TRUE, running, usb) => running'
      BY <2>1 DEF Connected
    <3>2. QED
      BY <1>2, <3>1, UpdateCableKeeps DEF PageTakesReady
  <2>3. QED
    BY <2>1, <2>2 DEF Calm, Quiet
<1>3. CASE PageTakesError
  <2>1. UNCHANGED <<running, fromDiy, phase, fw, out, recovered>>
    BY <1>3 DEF PageTakesError, device
  <2>2. Plugged' /\ FewerChunks /\ KeepsBuf
    BY <1>3, <2>1, UpdateCableKeeps DEF PageTakesError
  <2>3. QED
    BY <2>1, <2>2 DEF Calm, Quiet
<1>4. CASE PageTakesResetComplete
  <2>1. UNCHANGED <<running, fromDiy, phase, fw, out, recovered>> /\ ~cable'
    BY <1>4 DEF PageTakesResetComplete, device
  <2>2. KeepsBuf /\ pending' = 0 /\ chunks' = <<>>
    BY <1>4, FinishRefuses DEF PageTakesResetComplete
  <2>3. QED
    BY <2>1, <2>2, NothingPlugged DEF Calm, Quiet, FewerChunks
<1>5. QED
  BY <1>1, <1>2, <1>3, <1>4

\* Nothing of the page, the firmware and the result moves.
LEMMA NothingMoves ==
  ASSUME Plugged, KeepsBuf,
         UNCHANGED <<pending, chunks, cable, running, fromDiy, phase, fw, out, recovered>>
  PROVE  Calm
  BY DEF Calm, Quiet, FewerChunks, Plugged

LEMMA PythonIsCalm ==
  ASSUME Plugged, PythonStep \/ QueryStarts \/ SleepTimesOut \/ ResetFails \/ AppFails
  PROVE  Calm
<1>1. KeepsBuf
  <2>1. CASE PythonStep
    BY <2>1 DEF PythonStep, WorkerTakesMessage, JobStarts, QueryReturns, RequestDone, ResetDone,
       AppStarts, KeepsBuf
  <2>2. CASE QueryStarts
    BY <2>2 DEF QueryStarts, Unset, KeepsBuf
  <2>3. CASE SleepTimesOut \/ ResetFails \/ AppFails
    BY <2>3 DEF SleepTimesOut, ResetFails, AppFails, KeepsBuf
  <2>4. QED
    BY <2>1, <2>2, <2>3
<1>2. UNCHANGED <<flags, waiting, fromDiy, device>>
  BY DEF PythonStep, WorkerTakesMessage, JobStarts, QueryReturns, RequestDone, ResetDone, AppStarts,
     QueryStarts, SleepTimesOut, ResetFails, AppFails
<1>3. QED
  BY <1>1, <1>2, NothingMoves DEF flags, waiting, device

LEMMA UserIsCalm ==
  ASSUME Plugged,
         \/ Toggle \/ ResetClicked \/ RestartClicked \/ RequestArrives \/ UsbSwitched
         \/ QueryTimesOut \/ DeviceTakesCommand
  PROVE  Calm
<1>1. CASE Toggle
  <2>1. UNCHANGED <<running, fromDiy, phase, fw, out, recovered>>
    BY <1>1 DEF Toggle, device
  <2>2. Plugged' /\ FewerChunks /\ KeepsBuf
    <3>1. Connected(~toggle, ready, running, usb) => running'
      BY <2>1 DEF Connected
    <3>2. QED
      BY <1>1, <3>1, UpdateCableKeeps DEF Toggle
  <2>3. QED
    BY <2>1, <2>2 DEF Calm, Quiet
<1>2. CASE ResetClicked
  <2>1. UNCHANGED <<running, fromDiy, phase, fw, out, recovered>> /\ ~cable'
    BY <1>2 DEF ResetClicked, device
  <2>2. CASE cable
    BY <1>2, <2>1, <2>2, FinishRefuses, NothingPlugged DEF ResetClicked, Calm, Quiet, FewerChunks
  <2>3. CASE ~cable
    BY <1>2, <2>1, <2>3 DEF ResetClicked, Calm, Quiet, FewerChunks, KeepsBuf, Plugged
  <2>4. QED
    BY <2>2, <2>3
<1>3. CASE RestartClicked
  <2>1. UNCHANGED <<fromDiy, phase, fw, out, recovered>> /\ ~running'
    BY <1>3 DEF RestartClicked, device
  <2>2. Plugged' /\ FewerChunks /\ KeepsBuf
    BY <1>3, UpdateCableKeeps DEF RestartClicked
  <2>3. QED
    BY <2>1, <2>2 DEF Calm, Quiet
<1>4. CASE RequestArrives \/ UsbSwitched \/ DeviceTakesCommand
  BY <1>4, NothingMoves
  DEF RequestArrives, UsbSwitched, DeviceTakesCommand, worker, flags, waiting, device, KeepsBuf
<1>5. CASE QueryTimesOut
  <2>1. UNCHANGED <<cable, running, fromDiy, phase, fw, out, recovered>>
    BY <1>5 DEF QueryTimesOut, flags, device
  <2>2. KeepsBuf /\ pending' = 0 /\ chunks' = <<>>
    BY <1>5, FinishRefuses DEF QueryTimesOut
  <2>3. QED
    BY <2>1, <2>2, NothingPlugged DEF Calm, Quiet, FewerChunks, Plugged
<1>6. QED
  BY <1>1, <1>2, <1>3, <1>4, <1>5

LEMMA KeepsWhole ==
  ASSUME KeepsBuf, AnswerIsWhole, recovered' = recovered
  PROVE  AnswerIsWhole'
<1>1. CASE buf' = buf
  BY <1>1 DEF AnswerIsWhole
<1>2. CASE buf'.lines = <<>>
  BY <1>2 DEF AnswerIsWhole
<1>3. QED
  BY <1>1, <1>2 DEF KeepsBuf

LEMMA CalmKeepsAnswer ==
  ASSUME AnswerInv, TypeOK', Calm
  PROVE  AnswerInv'
<1>1. ~recovered' => Stream'
  BY QuietStream DEF AnswerInv, Calm
<1>2. ~recovered' => AnswerIsWhole'
  BY KeepsWhole DEF AnswerInv, Calm
<1>3. QED
  BY <1>1, <1>2 DEF AnswerInv, Calm

\* What the device does reaches the page as notes only.
LEMMA DeviceKeepsAnswer ==
  ASSUME AnswerInv, TypeOK', UNCHANGED <<buf, pending, chunks, cable, running>>,
         ~recovered' => ~recovered /\ Stream'
  PROVE  AnswerInv'
<1>1. Plugged'
  BY DEF AnswerInv, Plugged
<1>2. ~recovered' => AnswerIsWhole'
  BY DEF AnswerInv, AnswerIsWhole
<1>3. QED
  BY <1>1, <1>2 DEF AnswerInv

LEMMA DeviceStepKeepsAnswer ==
  ASSUME AnswerInv, TypeOK',
         \/ DeviceTakesRestart \/ WorkerReplaced \/ DeviceRuns \/ FirmwareReads
         \/ FirmwareAnswers \/ Poll \/ DeviceReboots \/ DeviceCrashes
  PROVE  AnswerInv'
<1>1. UNCHANGED <<buf, pending, chunks, cable, running>>
  BY DEF DeviceTakesRestart, WorkerReplaced, DeviceRuns, FirmwareReads, FirmwareAnswers, Poll,
     DeviceReboots, DeviceCrashes, worker, flags, waiting
<1>2. ~recovered' => ~recovered
  BY DEF DeviceTakesRestart, WorkerReplaced, DeviceRuns, FirmwareReads, FirmwareAnswers, Poll,
     DeviceReboots, DeviceCrashes
<1>3. ASSUME ~recovered' PROVE Stream'
  <2>1. TypeOK /\ Stream
    BY <1>2, <1>3 DEF AnswerInv
  <2>2. CASE DeviceTakesRestart \/ DeviceReboots
    BY <1>1, <2>1, <2>2, RestartsKeepsStream DEF DeviceTakesRestart, DeviceReboots
  <2>3. QED
    BY <1>3, <2>1, <2>2, ReplacementKeepsStream, RunsKeepsStream, ReadKeepsStream,
       AnswerKeepsStream, PollKeepsStream, FailureKeepsStream
<1>4. QED
  BY <1>1, <1>2, <1>3, DeviceKeepsAnswer

LEMMA PlugNoteKeepsAnswer ==
  ASSUME AnswerInv, TypeOK', PageTakesStopped \/ PageTakesRunning \/ PageTakesUsbState
  PROVE  AnswerInv'
<1>1. UNCHANGED <<phase, fw, out, recovered>>
  BY DEF PageTakesStopped, PageTakesRunning, PageTakesUsbState, device
<1>2. Takes /\ Head(fromDiy).type = Type(1)
  <2>1. fromDiy # <<>> /\ fromDiy' = Tail(fromDiy) /\ fromDiy \in Seq(Notes)
    BY DEF PageTakesStopped, PageTakesRunning, PageTakesUsbState, FromDiy, AnswerInv, TypeOK,
       ChannelTypes
  <2>2. QED
    BY <2>1 DEF Takes, Type
<1>3. Hears
  BY <1>2 DEF PageTakesStopped, PageTakesRunning, PageTakesUsbState, FromDiy, Hears
<1>4. Plugged' /\ FewerChunks /\ KeepsBuf
  <2>1. CASE PageTakesStopped
    BY <2>1, UpdateCableKeeps DEF AnswerInv, PageTakesStopped
  <2>2. CASE PageTakesRunning
    BY <2>2, UpdateCableKeeps DEF AnswerInv, PageTakesRunning
  <2>3. CASE PageTakesUsbState
    <3>1. Connected(toggle, ready, running, usb') => running'
      BY <2>3 DEF PageTakesUsbState, Connected
    <3>2. QED
      BY <2>3, <3>1, UpdateCableKeeps DEF AnswerInv, PageTakesUsbState
  <2>4. QED
    BY <2>1, <2>2, <2>3
<1>5. chunks' # <<>> => running /\ chunks' = chunks /\ Type(1) \notin {"stopped", "output"}
  <2>1. SUFFICES ASSUME chunks' # <<>> PROVE running /\ chunks' = chunks /\ Type(1) \notin {"stopped", "output"}
    OBVIOUS
  <2>2. running' /\ chunks' = chunks /\ running
    BY <1>4, <2>1 DEF FewerChunks, Plugged, AnswerInv
  <2>3. QED
    BY <1>2, <2>2 DEF PageTakesStopped, PageTakesRunning, PageTakesUsbState, FromDiy
<1>6. ~recovered' => Stream'
  BY <1>1, <1>2, <1>3, <1>5, TakesKeepsStream DEF AnswerInv
<1>7. ~recovered' => AnswerIsWhole'
  BY <1>1, <1>4, KeepsWhole DEF AnswerInv
<1>8. QED
  BY <1>4, <1>6, <1>7 DEF AnswerInv

LEMMA JoinedLines ==
  ASSUME NEW c \in Seq(Line), NEW l \in Seq(Line), Len(c) = 1, l # <<>>
  PROVE  (c \o l)[1] = c[1] /\ (c \o l)[2] = l[1]
<1>1. Len(l) \in Nat \ {0}
  OBVIOUS
<1>2. \A i \in 1..(Len(c) + Len(l)) : (c \o l)[i] = IF i <= Len(c) THEN c[i] ELSE l[i - Len(c)]
  BY ConcatProperties, Zenon
<1>3. /\ 1 \in 1..(Len(c) + Len(l)) /\ 2 \in 1..(Len(c) + Len(l))
      /\ 1 <= Len(c) /\ ~(2 <= Len(c)) /\ 2 - Len(c) = 1
  BY <1>1
<1>4. (c \o l)[1] = c[1]
  BY <1>2, <1>3, Zenon
<1>5. QED
  BY <1>2, <1>3, <1>4, Zenon

\* The second line completes the first, and nothing else does.
LEMMA BytesKeepAnswer ==
  ASSUME AnswerInv, TypeOK', PageTakesBytes
  PROVE  AnswerInv'
<1> DEFINE lines == Head(fromDiy).lines
           all == chunks \o lines
           whole == [done |-> TRUE, lines |-> SubSeq(all, 1, 2)]
<1>1. /\ UNCHANGED <<running, cable, phase, fw, out, recovered>> /\ Receive(lines)
  BY DEF PageTakesBytes, flags, device
<1>2. /\ Takes /\ Type(1) = "output" /\ fromDiy[1] \in Notes /\ 1 \in Outputs
      /\ lines = fromDiy[1].lines
  <2>1. fromDiy # <<>> /\ fromDiy' = Tail(fromDiy) /\ fromDiy \in Seq(Notes) /\ Head(fromDiy).type = "output"
    BY DEF PageTakesBytes, FromDiy, AnswerInv, TypeOK, ChannelTypes
  <2>2. QED
    BY <2>1 DEF Takes, Type, Outputs
<1>3. chunks \in Seq(Line) /\ lines \in Seq(Line) /\ all \in Seq(Line)
  BY <1>2 DEF AnswerInv, TypeOK, PageTypes, Notes
<1>4. Hears
  BY <1>1, <1>2 DEF Hears
<1>5. CASE pending = 0 \/ Head(all).kind # "ack"
  <2>1. Plugged' /\ chunks' = <<>> /\ KeepsBuf
    <3>1. CASE pending = 0
      BY <1>1, <3>1 DEF Receive, AnswerInv, Plugged, KeepsBuf
    <3>2. CASE pending # 0
      BY <1>1, <1>5, <3>2, FinishRefuses, NothingPlugged DEF Receive, AnswerInv, Plugged
    <3>3. QED
      BY <3>1, <3>2
  <2>2. ~recovered' => Stream'
    BY <1>1, <1>2, <1>4, <2>1, TakesKeepsStream DEF AnswerInv
  <2>3. ~recovered' => AnswerIsWhole'
    BY <1>1, <2>1, KeepsWhole DEF AnswerInv
  <2>4. QED
    BY <2>1, <2>2, <2>3 DEF AnswerInv
<1>6. CASE pending # 0 /\ Head(all).kind = "ack" /\ Len(all) > 1
  <2>1. Finish(whole)
    BY <1>1, <1>6 DEF Receive
  <2>2. pending' = 0 /\ chunks' = <<>> /\ (buf' = buf \/ buf' = whole)
    BY <2>1 DEF Finish
  <2>3. Plugged'
    BY <1>1, <2>2, NothingPlugged DEF AnswerInv, Plugged
  <2>4. ~recovered' => Stream'
    BY <1>1, <1>2, <1>4, <2>2, TakesKeepsStream DEF AnswerInv
  <2>5. ~recovered => Answers(all[1], all[2]) /\ all[1].kind = "ack"
    <3>1. SUFFICES ASSUME ~recovered PROVE Answers(all[1], all[2]) /\ all[1].kind = "ack"
      OBVIOUS
    <3>2. Stream /\ Plugged /\ running
      BY <1>6, <3>1 DEF AnswerInv, Plugged
    <3>3. lines # <<>> /\ Framed(lines)
      BY <1>2, <3>2 DEF Stream, NotesFramed
    <3>4. CASE chunks = <<>>
      <4>1. all = lines /\ Len(lines) \in Nat /\ 1 \in 1..(Len(lines) - 1) /\ lines[1].kind = "ack"
        BY <1>3, <1>6, <3>4
      <4>2. QED
        BY <3>3, <4>1 DEF Framed
    <3>5. CASE chunks # <<>>
      <4>1. Len(chunks) = 1 /\ chunks[1].kind = "ack" /\ EndsWithAck(0) /\ LastLine(Carried(0)) = chunks[1]
        BY <3>2, <3>5 DEF Plugged, EndsWithAck, Carried, LastLine
      <4>2. Reaches(0, 1)
        BY <3>2 DEF Reaches, Deaf
      <4>3. Answers(chunks[1], lines[1])
        BY <1>2, <3>2, <4>1, <4>2 DEF Stream, Continued, Places
      <4>4. all[1] = chunks[1] /\ all[2] = lines[1]
        BY <1>3, <3>3, <4>1, JoinedLines
      <4>5. QED
        BY <4>1, <4>3, <4>4
    <3>6. QED
      BY <3>4, <3>5
  <2>6. ~recovered' => AnswerIsWhole'
    <3>1. SUFFICES ASSUME ~recovered, buf' = whole PROVE AnswerIsWhole'
      BY <1>1, <2>2, KeepsWhole DEF AnswerInv, KeepsBuf
    <3>2. buf'.lines[1] = all[1] /\ buf'.lines[2] = all[2]
      BY <1>3, <1>6, <3>1
    <3>3. QED
      BY <2>5, <3>1, <3>2 DEF AnswerIsWhole, Answers
  <2>7. QED
    BY <2>3, <2>4, <2>6 DEF AnswerInv
<1>7. CASE pending # 0 /\ Head(all).kind = "ack" /\ ~(Len(all) > 1)
  <2>1. chunks' = all /\ UNCHANGED <<pending, buf>>
    BY <1>1, <1>7 DEF Receive
  <2>2. Plugged'
    <3>1. all = <<>> \/ (Len(all) = 1 /\ all[1].kind = "ack")
      BY <1>3, <1>7
    <3>2. QED
      BY <1>1, <1>7, <2>1, <3>1 DEF AnswerInv, Plugged
  <2>3. ~recovered' => Stream'
    <3>1. SUFFICES ASSUME ~recovered PROVE Stream'
      BY <1>1
    <3>2. Stream /\ running /\ lines # <<>>
      BY <1>2, <1>7, <3>1 DEF AnswerInv, Plugged, Stream, NotesFramed
    <3>3. chunks' = fromDiy[1].lines
      BY <1>2, <1>3, <1>7, <2>1, <3>2
    <3>4. QED
      BY <1>1, <1>2, <1>4, <3>2, <3>3, TakesKeepsStream DEF AnswerInv
  <2>4. ~recovered' => AnswerIsWhole'
    BY <1>1, <2>1, KeepsWhole DEF AnswerInv, KeepsBuf
  <2>5. QED
    BY <2>2, <2>3, <2>4 DEF AnswerInv
<1>8. QED
  BY <1>5, <1>6, <1>7

\* What is too much for the query's buffer is dropped with the query.
LEMMA TooMuchKeepsAnswer ==
  ASSUME AnswerInv, TypeOK', PageGetsTooMuch
  PROVE  AnswerInv'
<1>1. UNCHANGED <<running, cable, phase, fw, out, recovered>> /\ Finish(Refused)
  BY DEF PageGetsTooMuch, flags, device
<1>2. Takes /\ Type(1) = "output"
  <2>1. fromDiy # <<>> /\ fromDiy' = Tail(fromDiy) /\ fromDiy \in Seq(Notes) /\ Head(fromDiy).type = "output"
    BY DEF PageGetsTooMuch, FromDiy, AnswerInv, TypeOK, ChannelTypes
  <2>2. QED
    BY <2>1 DEF Takes, Type
<1>3. Hears
  BY <1>1, <1>2 DEF Hears
<1>4. Plugged' /\ chunks' = <<>> /\ KeepsBuf
  BY <1>1, FinishRefuses, NothingPlugged DEF AnswerInv, Plugged
<1>5. ~recovered' => Stream'
  BY <1>1, <1>2, <1>3, <1>4, TakesKeepsStream DEF AnswerInv
<1>6. ~recovered' => AnswerIsWhole'
  BY <1>1, <1>4, KeepsWhole DEF AnswerInv
<1>7. QED
  BY <1>4, <1>5, <1>6 DEF AnswerInv

LEMMA NextKeepsAnswer ==
  ASSUME AnswerInv, [Next]_vars
  PROVE  AnswerInv'
<1>1. TypeOK'
  BY NextTypes DEF AnswerInv
<1>2. CASE PageStep
  BY <1>1, <1>2, PageIsCalm, CalmKeepsAnswer, PlugNoteKeepsAnswer, BytesKeepAnswer DEF PageStep, AnswerInv
<1>3. CASE PythonStep
  BY <1>1, <1>3, PythonIsCalm, CalmKeepsAnswer DEF AnswerInv
<1>4. CASE DeviceStep
  BY <1>1, <1>4, UserIsCalm, CalmKeepsAnswer, DeviceStepKeepsAnswer DEF DeviceStep, AnswerInv
<1>5. CASE User
  BY <1>1, <1>5, PythonIsCalm, UserIsCalm, CalmKeepsAnswer, DeviceStepKeepsAnswer DEF User, AnswerInv
<1>6. CASE Fault
  BY <1>1, <1>6, PythonIsCalm, UserIsCalm, CalmKeepsAnswer, DeviceStepKeepsAnswer, TooMuchKeepsAnswer
  DEF Fault, AnswerInv
<1>7. CASE UNCHANGED vars
  <2>1. Calm
    BY <1>7, NothingMoves DEF vars, worker, flags, waiting, device, KeepsBuf, AnswerInv
  <2>2. QED
    BY <1>1, <2>1, CalmKeepsAnswer
<1>8. QED
  BY <1>2, <1>3, <1>4, <1>5, <1>6, <1>7 DEF Next

LEMMA InitAnswer ==
  ASSUME Init
  PROVE  AnswerInv
<1>1. TypeOK
  BY InitInv DEF Inv
<1>2. Plugged /\ AnswerIsWhole
  BY DEF Init, Plugged, AnswerIsWhole, Unset
<1>3. Stream
  <2>1. Outputs = {} /\ chunks = <<>>
    BY DEF Init, Outputs
  <2>2. Continued /\ NotesFramed
    BY <2>1 DEF Continued, NotesFramed, Places, EndsWithAck, Carried
  <2>3. MailboxFramed /\ StoppedIsTold
    BY DEF Init, MailboxFramed, Framed, StoppedIsTold
  <2>4. QED
    BY <2>2, <2>3 DEF Stream
<1>4. QED
  BY <1>1, <1>2, <1>3 DEF AnswerInv

\* Whatever is given up, pulled, restarted or failed, and however the lines
\* are cut into messages, what the page hands to a command as an answer is an
\* acknowledgement and the answer to the same command, as long as no crash
\* was recovered from behind the page's back.
THEOREM AnswersAreWhole == Spec => []AnswerIsWhole
<1>1. AnswerInv => AnswerIsWhole
  BY DEF AnswerInv, AnswerIsWhole
<1>2. QED
  BY <1>1, InitAnswer, NextKeepsAnswer, PTL DEF Spec
=============================================================================
