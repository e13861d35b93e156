---------------------------- MODULE GalleryProofs ----------------------------
(* What the gallery keeps for every number of devices, cards, transfers and *)
(* interruptions.                                                           *)
EXTENDS Gallery, SequenceTheorems, TLAPS

\* What travels on the channels.
Message(types) == [type : types, id : Ids \cup {0}, m : Media \cup {None},
                   files : [Media -> Versions], reader : SUBSET Media]
Addressed(msgs) == {c \in msgs : c.type \in Commands => c.m \in Media}
PageMessages   == Addressed(Message({"provide", "export", "restart"} \cup Commands))
ParentMessages == Message({"awaiting", "running", "restarting", "error", "snapshot"})
WorkerMessages == Addressed(Message({"snapshot", "card-list"} \cup Commands))
Reports        == Message({"running", "reboot", "sd-state", "card-state", "snapshot"})

Requests == [id : Ids, request : Ids \cup {0}, for : {"parent", "refresh", "restart", "abandoned"}]
PageStates == [due : Dues, files : [Media -> Versions], reader : SUBSET Media,
               restarting : BOOLEAN, asked : SUBSET Requests]
WorkerStates == [phase : {"none", "booting", "ready", "running"},
                 files : [Media -> Versions], reader : SUBSET Media]
Operations == [at : {"idle", "saving", "clearing", "inserting", "reading"}, out : Seq(Media),
               m : Media \cup {None}, target : Devices \cup {None}, wipe : BOOLEAN,
               from : Devices \cup {None}, id : Ids \cup {0}]

DeviceTypes ==
  /\ page \in [Devices -> PageStates]
  /\ worker \in [Devices -> WorkerStates]
  /\ latest \in [Media -> Versions]
ChannelTypes ==
  /\ toPage \in [Devices -> Seq(PageMessages)]
  /\ toParent \in [Devices -> Seq(ParentMessages)]
  /\ toWorker \in [Devices -> Seq(WorkerMessages)]
  /\ fromWorker \in [Devices -> Seq(Reports)]
BenchTypes ==
  /\ owner \in [Media -> Devices \cup {None}]
  /\ kept \in [Media -> Versions] /\ base \in [Media -> Versions]
  /\ ready \subseteq Devices
  /\ op \in Operations

\* What an operation has yet to do: out are different media that are inserted
\* somewhere, the first of them in the device it waits for.
Planned ==
  /\ op.at \in {"saving", "clearing"} => op.out # <<>> /\ op.from = owner[Head(op.out)]
  /\ \A i \in DOMAIN op.out : owner[op.out[i]] # None
  /\ \A i, j \in DOMAIN op.out : op.out[i] = op.out[j] => i = j
  /\ op.at \in {"saving", "clearing", "inserting"} => op.m \in Media
  /\ op.at = "inserting" => op.target \in Devices /\ op.from = op.target /\ op.out = <<>>
  /\ op.at = "reading" => op.m = SD /\ op.from = owner[SD] /\ owner[SD] # None /\ op.out = <<>>
  /\ op.target # None /\ owner[op.m] # None => \E i \in DOMAIN op.out : op.out[i] = op.m

Types == DeviceTypes /\ ChannelTypes /\ BenchTypes /\ Planned

-----------------------------------------------------------------------------
(* Messages and channels.                                                   *)

LEMMA NoFilesType == NoFiles \in [Media -> Versions] /\ \A m \in Media : NoFiles[m] = 0
BY DEF NoFiles, Versions

LEMMA PlainFields ==
  ASSUME NEW type
  PROVE  /\ Plain(type).type = type /\ Plain(type).id = 0 /\ Plain(type).m = None
         /\ Plain(type).files = NoFiles /\ Plain(type).reader = {}
BY DEF Plain

LEMMA ExportFields ==
  ASSUME NEW id
  PROVE  /\ Export(id).type = "export" /\ Export(id).id = id /\ Export(id).m = None
         /\ Export(id).files = NoFiles /\ Export(id).reader = {}
BY DEF Export, Plain

LEMMA SnapshotFields ==
  ASSUME NEW id, NEW files
  PROVE  LET s == Snapshot(id, files)
         IN  s.type = "snapshot" /\ s.id = id /\ s.m = None /\ s.files = files /\ s.reader = {}
BY DEF Snapshot, Plain

LEMMA CommandFields ==
  ASSUME NEW type, NEW m
  PROVE  LET c == Command(type, m)
         IN  c.type = type /\ c.id = 0 /\ c.m = m /\ c.files = NoFiles /\ c.reader = {}
BY DEF Command, Plain

LEMMA ReportFields ==
  ASSUME NEW type, NEW reader
  PROVE  LET r == Report(type, reader)
         IN  r.type = type /\ r.id = 0 /\ r.m = None /\ r.files = NoFiles /\ r.reader = reader
BY DEF Report, Plain

LEMMA PlainTypes ==
  /\ Plain("restart") \in PageMessages
  /\ Plain("card-list") \in WorkerMessages
  /\ \A type \in {"running", "reboot"} : Plain(type) \in Reports
  /\ \A type \in {"awaiting", "running", "restarting", "error"} : Plain(type) \in ParentMessages
BY NoFilesType DEF Plain, PageMessages, WorkerMessages, Reports, ParentMessages, Message, Addressed, Commands

LEMMA SnapshotTypes ==
  ASSUME NEW id \in Ids \cup {0}, NEW files \in [Media -> Versions]
  PROVE  /\ Snapshot(id, files) \in ParentMessages
         /\ Snapshot(id, files) \in WorkerMessages
         /\ Snapshot(id, files) \in Reports
         /\ Export(id) \in PageMessages
BY NoFilesType
   DEF Snapshot, Export, Plain, PageMessages, ParentMessages, WorkerMessages, Reports, Message, Addressed, Commands

LEMMA ReportTypes ==
  ASSUME NEW reader \in SUBSET Media
  PROVE  Report("sd-state", reader) \in Reports /\ Report("card-state", reader) \in Reports
BY NoFilesType DEF Report, Plain, Reports, Message

LEMMA CommandTypes ==
  ASSUME NEW m \in Media, NEW type \in Commands, NEW files \in [Media -> Versions]
  PROVE  /\ Command(type, m) \in PageMessages
         /\ [Command(type, m) EXCEPT !.files = files] \in PageMessages
         /\ [Plain("provide") EXCEPT !.files = files] \in PageMessages
BY NoFilesType DEF Command, Plain, PageMessages, Message, Addressed, Commands

LEMMA ForwardTypes ==
  ASSUME NEW c \in PageMessages, c.type \in Commands
  PROVE  c \in WorkerMessages
BY DEF PageMessages, WorkerMessages, Message, Addressed

LEMMA TailFacts ==
  ASSUME NEW S, NEW s \in Seq(S), s # <<>>
  PROVE  /\ Tail(s) \in Seq(S) /\ Head(s) = s[1] /\ s[1] \in S
         /\ Len(s) \in Nat \ {0} /\ Len(Tail(s)) = Len(s) - 1
         /\ \A i \in 1..(Len(s) - 1) : Tail(s)[i] = s[i + 1]
BY HeadTailProperties, LenProperties, EmptySeq

LEMMA AppendFacts ==
  ASSUME NEW S, NEW s \in Seq(S), NEW msg \in S
  PROVE  /\ Append(s, msg) \in Seq(S) /\ Append(s, msg) # <<>>
         /\ Len(s) \in Nat /\ Len(Append(s, msg)) = Len(s) + 1
         /\ \A i \in 1..Len(s) : Append(s, msg)[i] = s[i]
         /\ Append(s, msg)[Len(s) + 1] = msg
BY AppendProperties

LEMMA Taken ==
  ASSUME NEW S, NEW channel \in [Devices -> Seq(S)], NEW d \in Devices, channel[d] # <<>>
  PROVE  /\ Take(channel, d) \in [Devices -> Seq(S)]
         /\ \A e \in Devices \ {d} : Take(channel, d)[e] = channel[e]
         /\ Take(channel, d)[d] = Tail(channel[d])
BY HeadTailProperties DEF Take

LEMMA Posted ==
  ASSUME NEW S, NEW channel \in [Devices -> Seq(S)], NEW d \in Devices, NEW msg \in S
  PROVE  /\ Post(channel, d, msg) \in [Devices -> Seq(S)]
         /\ \A e \in Devices \ {d} : Post(channel, d, msg)[e] = channel[e]
         /\ Post(channel, d, msg)[d] = Append(channel[d], msg)
BY AppendProperties DEF Post

LEMMA ToPagePosted ==
  ASSUME ChannelTypes, NEW d \in Devices, NEW msg \in PageMessages, toPage' = Post(toPage, d, msg)
  PROVE  /\ toPage' \in [Devices -> Seq(PageMessages)]
         /\ toPage'[d] = Append(toPage[d], msg)
         /\ \A e \in Devices \ {d} : toPage'[e] = toPage[e]
<1>1. toPage \in [Devices -> Seq(PageMessages)]
  BY DEF ChannelTypes
<1> QED
  BY <1>1, Posted

LEMMA ToPageTaken ==
  ASSUME ChannelTypes, NEW d \in Devices, toPage[d] # <<>>, toPage' = Take(toPage, d)
  PROVE  /\ toPage' \in [Devices -> Seq(PageMessages)]
         /\ toPage'[d] = Tail(toPage[d])
         /\ \A e \in Devices \ {d} : toPage'[e] = toPage[e]
         /\ Head(toPage[d]) \in PageMessages /\ Head(toPage[d]) = toPage[d][1]
<1>1. toPage \in [Devices -> Seq(PageMessages)]
  BY DEF ChannelTypes
<1>2. toPage[d] \in Seq(PageMessages)
  BY <1>1
<1>3. Head(toPage[d]) \in PageMessages /\ Head(toPage[d]) = toPage[d][1]
  BY <1>2, TailFacts
<1>4. /\ toPage' \in [Devices -> Seq(PageMessages)]
      /\ toPage'[d] = Tail(toPage[d])
      /\ \A e \in Devices \ {d} : toPage'[e] = toPage[e]
  BY <1>1, Taken
<1> QED
  BY <1>3, <1>4

LEMMA ToParentPosted ==
  ASSUME ChannelTypes, NEW d \in Devices, NEW msg \in ParentMessages, toParent' = Post(toParent, d, msg)
  PROVE  /\ toParent' \in [Devices -> Seq(ParentMessages)]
         /\ toParent'[d] = Append(toParent[d], msg)
         /\ \A e \in Devices \ {d} : toParent'[e] = toParent[e]
<1>1. toParent \in [Devices -> Seq(ParentMessages)]
  BY DEF ChannelTypes
<1> QED
  BY <1>1, Posted

LEMMA ToParentTaken ==
  ASSUME ChannelTypes, NEW d \in Devices, toParent[d] # <<>>, toParent' = Take(toParent, d)
  PROVE  /\ toParent' \in [Devices -> Seq(ParentMessages)]
         /\ toParent'[d] = Tail(toParent[d])
         /\ \A e \in Devices \ {d} : toParent'[e] = toParent[e]
         /\ Head(toParent[d]) \in ParentMessages /\ Head(toParent[d]) = toParent[d][1]
<1>1. toParent \in [Devices -> Seq(ParentMessages)]
  BY DEF ChannelTypes
<1>2. toParent[d] \in Seq(ParentMessages)
  BY <1>1
<1>3. Head(toParent[d]) \in ParentMessages /\ Head(toParent[d]) = toParent[d][1]
  BY <1>2, TailFacts
<1>4. /\ toParent' \in [Devices -> Seq(ParentMessages)]
      /\ toParent'[d] = Tail(toParent[d])
      /\ \A e \in Devices \ {d} : toParent'[e] = toParent[e]
  BY <1>1, Taken
<1> QED
  BY <1>3, <1>4

LEMMA ToWorkerPosted ==
  ASSUME ChannelTypes, NEW d \in Devices, NEW msg \in WorkerMessages, toWorker' = Post(toWorker, d, msg)
  PROVE  /\ toWorker' \in [Devices -> Seq(WorkerMessages)]
         /\ toWorker'[d] = Append(toWorker[d], msg)
         /\ \A e \in Devices \ {d} : toWorker'[e] = toWorker[e]
<1>1. toWorker \in [Devices -> Seq(WorkerMessages)]
  BY DEF ChannelTypes
<1> QED
  BY <1>1, Posted

LEMMA ToWorkerTaken ==
  ASSUME ChannelTypes, NEW d \in Devices, toWorker[d] # <<>>, toWorker' = Take(toWorker, d)
  PROVE  /\ toWorker' \in [Devices -> Seq(WorkerMessages)]
         /\ toWorker'[d] = Tail(toWorker[d])
         /\ \A e \in Devices \ {d} : toWorker'[e] = toWorker[e]
         /\ Head(toWorker[d]) \in WorkerMessages /\ Head(toWorker[d]) = toWorker[d][1]
<1>1. toWorker \in [Devices -> Seq(WorkerMessages)]
  BY DEF ChannelTypes
<1>2. toWorker[d] \in Seq(WorkerMessages)
  BY <1>1
<1>3. Head(toWorker[d]) \in WorkerMessages /\ Head(toWorker[d]) = toWorker[d][1]
  BY <1>2, TailFacts
<1>4. /\ toWorker' \in [Devices -> Seq(WorkerMessages)]
      /\ toWorker'[d] = Tail(toWorker[d])
      /\ \A e \in Devices \ {d} : toWorker'[e] = toWorker[e]
  BY <1>1, Taken
<1> QED
  BY <1>3, <1>4

LEMMA FromWorkerPosted ==
  ASSUME ChannelTypes, NEW d \in Devices, NEW msg \in Reports, fromWorker' = Post(fromWorker, d, msg)
  PROVE  /\ fromWorker' \in [Devices -> Seq(Reports)]
         /\ fromWorker'[d] = Append(fromWorker[d], msg)
         /\ \A e \in Devices \ {d} : fromWorker'[e] = fromWorker[e]
<1>1. fromWorker \in [Devices -> Seq(Reports)]
  BY DEF ChannelTypes
<1> QED
  BY <1>1, Posted

LEMMA FromWorkerTaken ==
  ASSUME ChannelTypes, NEW d \in Devices, fromWorker[d] # <<>>, fromWorker' = Take(fromWorker, d)
  PROVE  /\ fromWorker' \in [Devices -> Seq(Reports)]
         /\ fromWorker'[d] = Tail(fromWorker[d])
         /\ \A e \in Devices \ {d} : fromWorker'[e] = fromWorker[e]
         /\ Head(fromWorker[d]) \in Reports /\ Head(fromWorker[d]) = fromWorker[d][1]
<1>1. fromWorker \in [Devices -> Seq(Reports)]
  BY DEF ChannelTypes
<1>2. fromWorker[d] \in Seq(Reports)
  BY <1>1
<1>3. Head(fromWorker[d]) \in Reports /\ Head(fromWorker[d]) = fromWorker[d][1]
  BY <1>2, TailFacts
<1>4. /\ fromWorker' \in [Devices -> Seq(Reports)]
      /\ fromWorker'[d] = Tail(fromWorker[d])
      /\ \A e \in Devices \ {d} : fromWorker'[e] = fromWorker[e]
  BY <1>1, Taken
<1> QED
  BY <1>3, <1>4

-----------------------------------------------------------------------------
(* What the steps of a device do to it.                                     *)

\* A device is left alone.
Same(e) == /\ page'[e] = page[e] /\ worker'[e] = worker[e]
           /\ toPage'[e] = toPage[e] /\ toParent'[e] = toParent[e]
           /\ toWorker'[e] = toWorker[e] /\ fromWorker'[e] = fromWorker[e]
Elsewhere(d) == \A e \in Devices \ {d} : Same(e)

LEMMA Fields ==
  ASSUME DeviceTypes, NEW d \in Devices
  PROVE  /\ page[d] \in PageStates /\ worker[d] \in WorkerStates
         /\ page[d].due \in Dues /\ page[d].files \in [Media -> Versions]
         /\ page[d].reader \in SUBSET Media /\ page[d].restarting \in BOOLEAN
         /\ page[d].asked \in SUBSET Requests
         /\ worker[d].phase \in {"none", "booting", "ready", "running"}
         /\ worker[d].files \in [Media -> Versions] /\ worker[d].reader \in SUBSET Media
BY DEF DeviceTypes, PageStates, WorkerStates

LEMMA NextIdType ==
  ASSUME NEW d, FreeIds(d) # {}
  PROVE  NextId(d) \in FreeIds(d) /\ NextId(d) \in Ids
BY DEF NextId, FreeIds

LEMMA AskedFields ==
  ASSUME NEW id \in Ids, NEW for \in {"parent", "refresh", "restart", "abandoned"}, NEW request \in Ids \cup {0}
  PROVE  /\ Asked(id, for, request) \in Requests
         /\ Asked(id, for, request).id = id /\ Asked(id, for, request).for = for
         /\ Asked(id, for, request).request = request
BY DEF Asked, Requests

LEMMA OrphanTypes ==
  ASSUME NEW asked \in SUBSET Requests
  PROVE  Orphans(asked) \in SUBSET Requests /\ Abandoned(asked) \in BOOLEAN
BY DEF Requests, Orphans, Abandoned

LEMMA SilenceTypes ==
  ASSUME ChannelTypes, NEW d \in Devices, Silence(d)
  PROVE  /\ toWorker' \in [Devices -> Seq(WorkerMessages)] /\ toWorker'[d] = <<>>
         /\ fromWorker' \in [Devices -> Seq(Reports)] /\ fromWorker'[d] = <<>>
         /\ \A e \in Devices \ {d} : toWorker'[e] = toWorker[e] /\ fromWorker'[e] = fromWorker[e]
BY DEF ChannelTypes, Silence

LEMMA LaunchDoes ==
  ASSUME DeviceTypes, ChannelTypes, NEW d \in Devices, NEW files \in [Media -> Versions],
         NEW asked \in SUBSET Requests, NEW due \in Dues, Launch(d, files, asked, due)
  PROVE  /\ page' \in [Devices -> PageStates] /\ worker' \in [Devices -> WorkerStates]
         /\ toWorker' \in [Devices -> Seq(WorkerMessages)] /\ fromWorker' \in [Devices -> Seq(Reports)]
         /\ toWorker'[d] = <<>> /\ fromWorker'[d] = <<>>
         /\ page'[d].due = due /\ page'[d].files = files /\ page'[d].reader = page[d].reader
         /\ page'[d].asked = Orphans(asked) /\ page'[d].restarting = Abandoned(asked)
         /\ worker'[d].phase = "booting" /\ worker'[d].files = files
         /\ worker'[d].reader = page[d].reader
         /\ \A e \in Devices \ {d} :
              /\ page'[e] = page[e] /\ worker'[e] = worker[e]
              /\ toWorker'[e] = toWorker[e] /\ fromWorker'[e] = fromWorker[e]
<1>1. Silence(d)
  BY DEF Launch
<1>2. /\ page' = [page EXCEPT ![d] = [@ EXCEPT !.due = due, !.files = files,
                !.asked = Orphans(asked), !.restarting = Abandoned(asked)]]
      /\ worker' = [worker EXCEPT ![d] = [phase |-> "booting", files |-> files,
                                      reader |-> page[d].reader]]
  BY DEF Launch
<1>3. page[d] \in PageStates /\ page[d].reader \in SUBSET Media
  BY Fields
<1>4. [page[d] EXCEPT !.due = due, !.files = files,
                !.asked = Orphans(asked), !.restarting = Abandoned(asked)] \in PageStates
  BY <1>3, OrphanTypes DEF PageStates
<1>5. [phase |-> "booting", files |-> files, reader |-> page[d].reader] \in WorkerStates
  BY <1>3 DEF WorkerStates
<1>6. page' \in [Devices -> PageStates] /\ worker' \in [Devices -> WorkerStates]
  BY <1>2, <1>4, <1>5 DEF DeviceTypes
<1>7. /\ page'[d].due = due /\ page'[d].files = files /\ page'[d].reader = page[d].reader
      /\ page'[d].asked = Orphans(asked) /\ page'[d].restarting = Abandoned(asked)
  BY <1>2, <1>3 DEF DeviceTypes, PageStates
<1>8. /\ worker'[d].phase = "booting" /\ worker'[d].files = files
      /\ worker'[d].reader = page[d].reader
  BY <1>2 DEF DeviceTypes
<1>9. \A e \in Devices \ {d} : page'[e] = page[e] /\ worker'[e] = worker[e]
  BY <1>2 DEF DeviceTypes
<1> QED
  BY <1>1, <1>6, <1>7, <1>8, <1>9, SilenceTypes

LEMMA RelaunchDoes ==
  ASSUME DeviceTypes, NEW d \in Devices, NEW files, NEW asked, Relaunch(d, files, asked)
  PROVE  \E due \in Dues : /\ Launch(d, files, asked, due)
                           /\ page[d].due # "retry" => due = page[d].due
BY Fields DEF Relaunch, Dues

\* restart: nothing, or one more request and one more message each way.
Restarted(d, now) ==
  /\ worker' = worker
  /\ page[d].restarting => page' = page /\ toParent' = toParent /\ toWorker' = now
  /\ ~page[d].restarting =>
       /\ NextId(d) \in FreeIds(d) /\ NextId(d) \in Ids
       /\ page'[d].restarting = TRUE
       /\ page'[d].asked = page[d].asked \cup {Asked(NextId(d), "restart", 0)}
       /\ page'[d].due = page[d].due /\ page'[d].files = page[d].files
       /\ page'[d].reader = page[d].reader
       /\ toParent'[d] = Append(toParent[d], Plain("restarting"))
       /\ toWorker'[d] = Append(now[d], Snapshot(NextId(d), NoFiles))

LEMMA RestartDoes ==
  ASSUME DeviceTypes, ChannelTypes, NEW d \in Devices,
         NEW now \in [Devices -> Seq(WorkerMessages)], Restart(d, now)
  PROVE  /\ page' \in [Devices -> PageStates] /\ toParent' \in [Devices -> Seq(ParentMessages)]
         /\ toWorker' \in [Devices -> Seq(WorkerMessages)]
         /\ Restarted(d, now)
         /\ \A e \in Devices \ {d} :
              page'[e] = page[e] /\ toParent'[e] = toParent[e] /\ toWorker'[e] = now[e]
<1>1. CASE page[d].restarting
  BY <1>1 DEF Restart, Restarted, DeviceTypes, ChannelTypes
<1>2. CASE ~page[d].restarting
  <2>1. /\ FreeIds(d) # {}
        /\ toParent' = Post(toParent, d, Plain("restarting"))
        /\ page' = [page EXCEPT ![d].restarting = TRUE,
                                ![d].asked = @ \cup {Asked(NextId(d), "restart", 0)}]
        /\ toWorker' = Post(now, d, Snapshot(NextId(d), NoFiles))
        /\ worker' = worker
    BY <1>2 DEF Restart
  <2>2. NextId(d) \in FreeIds(d) /\ NextId(d) \in Ids
    BY <2>1, NextIdType
  <2>3. Asked(NextId(d), "restart", 0) \in Requests
    BY <2>2, AskedFields
  <2>4. Snapshot(NextId(d), NoFiles) \in WorkerMessages
    BY <2>2, SnapshotTypes, NoFilesType
  <2> DEFINE asked == page[d].asked \cup {Asked(NextId(d), "restart", 0)}
             r == [page[d] EXCEPT !.restarting = TRUE, !.asked = asked]
  <2>5. /\ r \in PageStates /\ r.restarting = TRUE /\ r.asked = asked
        /\ r.due = page[d].due /\ r.files = page[d].files /\ r.reader = page[d].reader
    BY <2>3, Fields DEF PageStates
  <2>6. page' = [page EXCEPT ![d] = r]
    BY <2>1
  <2> HIDE DEF r
  <2>10. /\ page' \in [Devices -> PageStates] /\ page'[d] = r
         /\ \A e \in Devices \ {d} : page'[e] = page[e]
    BY <2>5, <2>6 DEF DeviceTypes
  <2>8. /\ toWorker' \in [Devices -> Seq(WorkerMessages)]
        /\ toWorker'[d] = Append(now[d], Snapshot(NextId(d), NoFiles))
        /\ \A e \in Devices \ {d} : toWorker'[e] = now[e]
    BY <2>1, <2>4, Posted
  <2>9. /\ toParent' \in [Devices -> Seq(ParentMessages)]
        /\ toParent'[d] = Append(toParent[d], Plain("restarting"))
        /\ \A e \in Devices \ {d} : toParent'[e] = toParent[e]
    BY <2>1, PlainTypes, ToParentPosted
  <2> QED
    BY <1>2, <2>1, <2>2, <2>5, <2>10, <2>8, <2>9 DEF Restarted
<1> QED
  BY <1>1, <1>2

LEMMA ProvidedDoes ==
  ASSUME DeviceTypes, ChannelTypes, NEW d \in Devices, PageProvided(d)
  PROVE  /\ DeviceTypes' /\ ChannelTypes' /\ Elsewhere(d)
         /\ toPage[d] # <<>> /\ toPage[d][1].type = "provide" /\ toPage'[d] = Tail(toPage[d])
         /\ UNCHANGED <<worker, toParent, toWorker, fromWorker>>
         /\ page[d].due # "media" => page' = page
         /\ page[d].due = "media" =>
              /\ page'[d].due = "load" /\ page'[d].files = toPage[d][1].files /\ page'[d].reader = {}
              /\ page'[d].restarting = page[d].restarting /\ page'[d].asked = page[d].asked
<1>1. /\ toPage[d] # <<>> /\ Head(toPage[d]).type = "provide" /\ toPage' = Take(toPage, d)
      /\ UNCHANGED <<worker, toParent, toWorker, fromWorker, latest>>
  BY DEF PageProvided, Has
<1>2. /\ toPage' \in [Devices -> Seq(PageMessages)] /\ toPage'[d] = Tail(toPage[d])
      /\ \A e \in Devices \ {d} : toPage'[e] = toPage[e]
      /\ Head(toPage[d]) \in PageMessages /\ Head(toPage[d]) = toPage[d][1]
  BY <1>1, ToPageTaken
<1>3. ChannelTypes'
  BY <1>1, <1>2 DEF ChannelTypes
<1>4. CASE page[d].due # "media"
  BY <1>1, <1>2, <1>3, <1>4 DEF PageProvided, Elsewhere, Same, DeviceTypes
<1>5. CASE page[d].due = "media"
  <2>1. Head(toPage[d]).files \in [Media -> Versions]
    BY <1>2 DEF PageMessages, Message, Addressed
  <2>2. page' = [page EXCEPT ![d].due = "load", ![d].files = Head(toPage[d]).files, ![d].reader = {}]
    BY <1>5 DEF PageProvided
  <2>3. page[d] \in PageStates
    BY Fields
  <2>4. /\ page' \in [Devices -> PageStates]
        /\ page'[d].due = "load" /\ page'[d].files = Head(toPage[d]).files /\ page'[d].reader = {}
        /\ page'[d].restarting = page[d].restarting /\ page'[d].asked = page[d].asked
        /\ \A e \in Devices \ {d} : page'[e] = page[e]
    BY <2>1, <2>2, <2>3 DEF DeviceTypes, PageStates, Dues
  <2> QED
    BY <1>1, <1>2, <1>3, <1>5, <2>4 DEF Elsewhere, Same, DeviceTypes
<1> QED
  BY <1>4, <1>5

LEMMA StartsDoes ==
  ASSUME DeviceTypes, ChannelTypes, NEW d \in Devices, PageStarts(d)
  PROVE  /\ DeviceTypes' /\ ChannelTypes' /\ Elsewhere(d)
         /\ page[d].due \in {"load", "retry"}
         /\ Launch(d, page[d].files, page[d].asked, "no")
         /\ UNCHANGED <<toPage, toParent>>
<1>1. /\ page[d].due \in {"load", "retry"} /\ Launch(d, page[d].files, page[d].asked, "no")
      /\ UNCHANGED <<toPage, toParent, latest>>
  BY DEF PageStarts
<1>2. page[d].files \in [Media -> Versions] /\ page[d].asked \in SUBSET Requests /\ "no" \in Dues
  BY Fields DEF Dues
<1>3. /\ page' \in [Devices -> PageStates] /\ worker' \in [Devices -> WorkerStates]
      /\ toWorker' \in [Devices -> Seq(WorkerMessages)] /\ fromWorker' \in [Devices -> Seq(Reports)]
      /\ \A e \in Devices \ {d} :
              /\ page'[e] = page[e] /\ worker'[e] = worker[e]
              /\ toWorker'[e] = toWorker[e] /\ fromWorker'[e] = fromWorker[e]
  BY <1>1, <1>2, LaunchDoes
<1> QED
  BY <1>1, <1>3 DEF DeviceTypes, ChannelTypes, Elsewhere, Same

LEMMA ExportsDoes ==
  ASSUME DeviceTypes, ChannelTypes, NEW d \in Devices, PageExports(d)
  PROVE  /\ DeviceTypes' /\ ChannelTypes' /\ Elsewhere(d)
         /\ toPage[d] # <<>> /\ toPage[d][1].type = "export" /\ toPage'[d] = Tail(toPage[d])
         /\ toPage[d][1].id \in Ids \cup {0}
         /\ UNCHANGED <<worker, fromWorker>>
         /\ worker[d].phase = "none" =>
              /\ UNCHANGED <<page, toWorker>>
              /\ toParent'[d] = Append(toParent[d], Snapshot(toPage[d][1].id, page[d].files))
         /\ worker[d].phase # "none" =>
              /\ UNCHANGED toParent
              /\ NextId(d) \in FreeIds(d) /\ NextId(d) \in Ids
              /\ page'[d].asked = page[d].asked \cup {Asked(NextId(d), "parent", toPage[d][1].id)}
              /\ page'[d].due = page[d].due /\ page'[d].files = page[d].files
              /\ page'[d].reader = page[d].reader /\ page'[d].restarting = page[d].restarting
              /\ toWorker'[d] = Append(toWorker[d], Snapshot(NextId(d), NoFiles))
<1>1. /\ toPage[d] # <<>> /\ Head(toPage[d]).type = "export" /\ toPage' = Take(toPage, d)
      /\ UNCHANGED <<worker, fromWorker, latest>>
  BY DEF PageExports, Has
<1>2. /\ toPage' \in [Devices -> Seq(PageMessages)] /\ toPage'[d] = Tail(toPage[d])
      /\ \A e \in Devices \ {d} : toPage'[e] = toPage[e]
      /\ Head(toPage[d]) \in PageMessages /\ Head(toPage[d]) = toPage[d][1]
  BY <1>1, ToPageTaken
<1> DEFINE request == Head(toPage[d]).id
<1>3. request \in Ids \cup {0}
  BY <1>2 DEF PageMessages, Message, Addressed
<1>4. CASE worker[d].phase = "none"
  <2>1. /\ toParent' = Post(toParent, d, Snapshot(request, page[d].files))
        /\ UNCHANGED <<page, toWorker>>
    BY <1>4 DEF PageExports
  <2>2. Snapshot(request, page[d].files) \in ParentMessages
    BY <1>3, SnapshotTypes, Fields
  <2>3. /\ toParent' \in [Devices -> Seq(ParentMessages)]
        /\ toParent'[d] = Append(toParent[d], Snapshot(request, page[d].files))
        /\ \A e \in Devices \ {d} : toParent'[e] = toParent[e]
    BY <2>1, <2>2, ToParentPosted
  <2>4. DeviceTypes' /\ ChannelTypes' /\ Elsewhere(d)
    BY <1>1, <1>2, <2>1, <2>3 DEF DeviceTypes, ChannelTypes, Elsewhere, Same
  <2> QED
    BY <1>1, <1>2, <1>3, <1>4, <2>1, <2>3, <2>4
<1>5. CASE worker[d].phase # "none"
  <2>1. /\ FreeIds(d) # {}
        /\ page' = [page EXCEPT ![d].asked = @ \cup {Asked(NextId(d), "parent", request)}]
        /\ toWorker' = Post(toWorker, d, Snapshot(NextId(d), NoFiles))
        /\ UNCHANGED toParent
    BY <1>5 DEF PageExports
  <2>2. NextId(d) \in FreeIds(d) /\ NextId(d) \in Ids
    BY <2>1, NextIdType
  <2>3. Snapshot(NextId(d), NoFiles) \in WorkerMessages
    BY <2>2, SnapshotTypes, NoFilesType
  <2>4. /\ toWorker' \in [Devices -> Seq(WorkerMessages)]
        /\ toWorker'[d] = Append(toWorker[d], Snapshot(NextId(d), NoFiles))
        /\ \A e \in Devices \ {d} : toWorker'[e] = toWorker[e]
    BY <2>1, <2>3, ToWorkerPosted
  <2>5. Asked(NextId(d), "parent", request) \in Requests
    BY <1>3, <2>2, AskedFields
  <2>6. page[d] \in PageStates
    BY Fields
  <2>7. /\ page' \in [Devices -> PageStates]
        /\ page'[d].asked = page[d].asked \cup {Asked(NextId(d), "parent", request)}
        /\ page'[d].due = page[d].due /\ page'[d].files = page[d].files
        /\ page'[d].reader = page[d].reader /\ page'[d].restarting = page[d].restarting
        /\ \A e \in Devices \ {d} : page'[e] = page[e]
    BY <2>1, <2>5, <2>6 DEF DeviceTypes, PageStates
  <2>8. DeviceTypes' /\ ChannelTypes' /\ Elsewhere(d)
    BY <1>1, <1>2, <2>1, <2>4, <2>7 DEF DeviceTypes, ChannelTypes, Elsewhere, Same
  <2> QED
    BY <1>1, <1>2, <1>3, <1>5, <2>1, <2>2, <2>4, <2>7, <2>8
<1> QED
  BY <1>4, <1>5

LEMMA ForwardsDoes ==
  ASSUME DeviceTypes, ChannelTypes, NEW d \in Devices, PageForwards(d)
  PROVE  /\ DeviceTypes' /\ ChannelTypes' /\ Elsewhere(d)
         /\ toPage[d] # <<>> /\ toPage[d][1].type \in Commands /\ toPage'[d] = Tail(toPage[d])
         /\ toPage[d][1] \in WorkerMessages
         /\ UNCHANGED <<page, worker, toParent, fromWorker>>
         /\ worker[d].phase = "none" => UNCHANGED toWorker
         /\ worker[d].phase # "none" => toWorker'[d] = Append(toWorker[d], toPage[d][1])
<1>1. /\ toPage[d] # <<>> /\ Head(toPage[d]).type \in Commands /\ toPage' = Take(toPage, d)
      /\ UNCHANGED <<page, worker, toParent, fromWorker, latest>>
      /\ worker[d].phase = "none" => UNCHANGED toWorker
      /\ worker[d].phase # "none" => toWorker' = Post(toWorker, d, Head(toPage[d]))
  BY DEF PageForwards
<1>2. /\ toPage' \in [Devices -> Seq(PageMessages)] /\ toPage'[d] = Tail(toPage[d])
      /\ \A e \in Devices \ {d} : toPage'[e] = toPage[e]
      /\ Head(toPage[d]) \in PageMessages /\ Head(toPage[d]) = toPage[d][1]
  BY <1>1, ToPageTaken
<1>3. Head(toPage[d]) \in WorkerMessages
  BY <1>1, <1>2, ForwardTypes
<1>4. CASE worker[d].phase = "none"
  BY <1>1, <1>2, <1>3, <1>4 DEF DeviceTypes, ChannelTypes, Elsewhere, Same
<1>5. CASE worker[d].phase # "none"
  BY <1>1, <1>2, <1>3, <1>5, ToWorkerPosted DEF DeviceTypes, ChannelTypes, Elsewhere, Same
<1> QED
  BY <1>4, <1>5

LEMMA RestartsDoes ==
  ASSUME DeviceTypes, ChannelTypes, NEW d \in Devices, PageRestarts(d)
  PROVE  /\ DeviceTypes' /\ ChannelTypes' /\ Elsewhere(d)
         /\ toPage[d] # <<>> /\ toPage[d][1].type = "restart" /\ toPage'[d] = Tail(toPage[d])
         /\ worker[d].phase # "none" => UNCHANGED fromWorker /\ Restarted(d, toWorker)
<1>1. /\ toPage[d] # <<>> /\ Head(toPage[d]).type = "restart" /\ toPage' = Take(toPage, d)
      /\ UNCHANGED latest
  BY DEF PageRestarts, Has
<1>2. /\ toPage' \in [Devices -> Seq(PageMessages)] /\ toPage'[d] = Tail(toPage[d])
      /\ \A e \in Devices \ {d} : toPage'[e] = toPage[e]
      /\ Head(toPage[d]) \in PageMessages /\ Head(toPage[d]) = toPage[d][1]
  BY <1>1, ToPageTaken
<1>3. CASE worker[d].phase = "none" /\ ~page[d].restarting
  <2>1. toParent' = Post(toParent, d, Plain("restarting")) /\ Relaunch(d, page[d].files, page[d].asked)
    BY <1>3 DEF PageRestarts
  <2>2. Plain("restarting") \in ParentMessages
    BY PlainTypes
  <2>3. /\ toParent' \in [Devices -> Seq(ParentMessages)]
        /\ \A e \in Devices \ {d} : toParent'[e] = toParent[e]
    BY <2>1, <2>2, ToParentPosted
  <2>4. PICK due \in Dues : Launch(d, page[d].files, page[d].asked, due)
    BY <2>1, RelaunchDoes
  <2>5. page[d].files \in [Media -> Versions] /\ page[d].asked \in SUBSET Requests
    BY Fields
  <2>6. /\ page' \in [Devices -> PageStates] /\ worker' \in [Devices -> WorkerStates]
        /\ toWorker' \in [Devices -> Seq(WorkerMessages)] /\ fromWorker' \in [Devices -> Seq(Reports)]
        /\ \A e \in Devices \ {d} :
              /\ page'[e] = page[e] /\ worker'[e] = worker[e]
              /\ toWorker'[e] = toWorker[e] /\ fromWorker'[e] = fromWorker[e]
    BY <2>4, <2>5, LaunchDoes
  <2>7. DeviceTypes' /\ ChannelTypes' /\ Elsewhere(d)
    BY <1>1, <1>2, <2>3, <2>6 DEF DeviceTypes, ChannelTypes, Elsewhere, Same
  <2> QED
    BY <1>1, <1>2, <1>3, <2>7
<1>4. CASE ~(worker[d].phase = "none" /\ ~page[d].restarting)
  <2>1. Restart(d, toWorker) /\ UNCHANGED fromWorker
    BY <1>4 DEF PageRestarts
  <2>2. toWorker \in [Devices -> Seq(WorkerMessages)]
    BY DEF ChannelTypes
  <2>3. /\ page' \in [Devices -> PageStates] /\ toParent' \in [Devices -> Seq(ParentMessages)]
        /\ toWorker' \in [Devices -> Seq(WorkerMessages)]
        /\ Restarted(d, toWorker)
        /\ \A e \in Devices \ {d} :
             page'[e] = page[e] /\ toParent'[e] = toParent[e] /\ toWorker'[e] = toWorker[e]
    BY <2>1, <2>2, RestartDoes
  <2>4. worker' = worker
    BY <2>3 DEF Restarted
  <2>5. DeviceTypes' /\ ChannelTypes' /\ Elsewhere(d)
    BY <1>1, <1>2, <2>1, <2>3, <2>4 DEF DeviceTypes, ChannelTypes, Elsewhere, Same
  <2> QED
    BY <1>1, <1>2, <2>1, <2>3, <2>5
<1> QED
  BY <1>3, <1>4

LEMMA RebootsDoes ==
  ASSUME DeviceTypes, ChannelTypes, NEW d \in Devices, PageReboots(d)
  PROVE  /\ DeviceTypes' /\ ChannelTypes' /\ Elsewhere(d)
         /\ fromWorker[d] # <<>> /\ fromWorker[d][1].type = "reboot"
         /\ fromWorker'[d] = Tail(fromWorker[d])
         /\ UNCHANGED toPage /\ Restarted(d, toWorker)
<1>1. /\ fromWorker[d] # <<>> /\ Head(fromWorker[d]).type = "reboot"
      /\ fromWorker' = Take(fromWorker, d) /\ Restart(d, toWorker)
      /\ UNCHANGED <<toPage, latest>>
  BY DEF PageReboots, Has
<1>2. /\ fromWorker' \in [Devices -> Seq(Reports)] /\ fromWorker'[d] = Tail(fromWorker[d])
      /\ \A e \in Devices \ {d} : fromWorker'[e] = fromWorker[e]
      /\ Head(fromWorker[d]) = fromWorker[d][1]
  BY <1>1, FromWorkerTaken
<1>3. toWorker \in [Devices -> Seq(WorkerMessages)]
  BY DEF ChannelTypes
<1>4. /\ page' \in [Devices -> PageStates] /\ toParent' \in [Devices -> Seq(ParentMessages)]
      /\ toWorker' \in [Devices -> Seq(WorkerMessages)]
      /\ Restarted(d, toWorker)
      /\ \A e \in Devices \ {d} :
           page'[e] = page[e] /\ toParent'[e] = toParent[e] /\ toWorker'[e] = toWorker[e]
  BY <1>1, <1>3, RestartDoes
<1>5. worker' = worker
  BY <1>4 DEF Restarted
<1>6. DeviceTypes' /\ ChannelTypes' /\ Elsewhere(d)
  BY <1>1, <1>2, <1>4, <1>5 DEF DeviceTypes, ChannelTypes, Elsewhere, Same
<1> QED
  BY <1>1, <1>2, <1>4, <1>6

LEMMA SeesRunningDoes ==
  ASSUME DeviceTypes, ChannelTypes, NEW d \in Devices, PageSeesRunning(d)
  PROVE  /\ DeviceTypes' /\ ChannelTypes' /\ Elsewhere(d)
         /\ fromWorker[d] # <<>> /\ fromWorker[d][1].type = "running"
         /\ fromWorker'[d] = Tail(fromWorker[d])
         /\ toWorker'[d] = Append(toWorker[d], Plain("card-list"))
         /\ toParent'[d] = Append(toParent[d], Plain("running"))
         /\ UNCHANGED <<page, worker, toPage>>
BY FromWorkerTaken, PlainTypes, ToWorkerPosted, ToParentPosted DEF PageSeesRunning, Has,
   DeviceTypes, ChannelTypes, Elsewhere, Same

LEMMA SeesSdDoes ==
  ASSUME DeviceTypes, ChannelTypes, NEW d \in Devices, PageSeesSd(d)
  PROVE  /\ DeviceTypes' /\ ChannelTypes' /\ Elsewhere(d)
         /\ fromWorker[d] # <<>> /\ fromWorker[d][1].type = "sd-state"
         /\ fromWorker'[d] = Tail(fromWorker[d])
         /\ page'[d].reader = (page[d].reader \ {SD}) \cup (fromWorker[d][1].reader \cap {SD})
         /\ page'[d].due = page[d].due /\ page'[d].files = page[d].files
         /\ page'[d].asked = page[d].asked /\ page'[d].restarting = page[d].restarting
         /\ UNCHANGED <<worker, toPage, toParent, toWorker>>
<1>1. /\ fromWorker[d] # <<>> /\ Head(fromWorker[d]).type = "sd-state"
      /\ fromWorker' = Take(fromWorker, d)
      /\ page' = [page EXCEPT ![d].reader = (@ \ {SD}) \cup (Head(fromWorker[d]).reader \cap {SD})]
      /\ UNCHANGED <<worker, toPage, toParent, toWorker, latest>>
  BY DEF PageSeesSd, Has
<1>2. /\ fromWorker' \in [Devices -> Seq(Reports)] /\ fromWorker'[d] = Tail(fromWorker[d])
      /\ \A e \in Devices \ {d} : fromWorker'[e] = fromWorker[e]
      /\ Head(fromWorker[d]) = fromWorker[d][1] /\ Head(fromWorker[d]) \in Reports
  BY <1>1, FromWorkerTaken
<1>3. Head(fromWorker[d]).reader \in SUBSET Media
  BY <1>2 DEF Reports, Message
<1> DEFINE rd == (page[d].reader \ {SD}) \cup (Head(fromWorker[d]).reader \cap {SD})
<1>4. rd \in SUBSET Media /\ page[d] \in PageStates
  BY <1>3, Fields
<1>5. page' = [page EXCEPT ![d].reader = rd]
  BY <1>1
<1> HIDE DEF rd
<1>6. /\ page' \in [Devices -> PageStates] /\ page'[d].reader = rd
      /\ page'[d].due = page[d].due /\ page'[d].files = page[d].files
      /\ page'[d].asked = page[d].asked /\ page'[d].restarting = page[d].restarting
      /\ \A e \in Devices \ {d} : page'[e] = page[e]
  BY <1>4, <1>5 DEF DeviceTypes, PageStates
<1>7. DeviceTypes' /\ ChannelTypes' /\ Elsewhere(d)
  BY <1>1, <1>2, <1>6 DEF DeviceTypes, ChannelTypes, Elsewhere, Same
<1>8. rd = (page[d].reader \ {SD}) \cup (fromWorker[d][1].reader \cap {SD})
  BY <1>2 DEF rd
<1> QED
  BY <1>1, <1>2, <1>6, <1>7, <1>8

LEMMA SeesCardDoes ==
  ASSUME DeviceTypes, ChannelTypes, NEW d \in Devices, PageSeesCard(d)
  PROVE  /\ DeviceTypes' /\ ChannelTypes' /\ Elsewhere(d)
         /\ fromWorker[d] # <<>> /\ fromWorker[d][1].type = "card-state"
         /\ fromWorker'[d] = Tail(fromWorker[d])
         /\ NextId(d) \in FreeIds(d) /\ NextId(d) \in Ids
         /\ page'[d].reader = (page[d].reader \ Cards) \cup (fromWorker[d][1].reader \cap Cards)
         /\ page'[d].asked = page[d].asked \cup {Asked(NextId(d), "refresh", 0)}
         /\ page'[d].due = page[d].due /\ page'[d].files = page[d].files
         /\ page'[d].restarting = page[d].restarting
         /\ toWorker'[d] = Append(toWorker[d], Snapshot(NextId(d), NoFiles))
         /\ UNCHANGED <<worker, toPage, toParent>>
<1> DEFINE rd == (page[d].reader \ Cards) \cup (Head(fromWorker[d]).reader \cap Cards)
<1>1. /\ fromWorker[d] # <<>> /\ Head(fromWorker[d]).type = "card-state"
      /\ FreeIds(d) # {}
      /\ fromWorker' = Take(fromWorker, d)
      /\ page' = [page EXCEPT ![d].reader = rd,
                              ![d].asked = @ \cup {Asked(NextId(d), "refresh", 0)}]
      /\ toWorker' = Post(toWorker, d, Snapshot(NextId(d), NoFiles))
      /\ UNCHANGED <<worker, toPage, toParent, latest>>
  BY DEF PageSeesCard, Has
<1>2. /\ fromWorker' \in [Devices -> Seq(Reports)] /\ fromWorker'[d] = Tail(fromWorker[d])
      /\ \A e \in Devices \ {d} : fromWorker'[e] = fromWorker[e]
      /\ Head(fromWorker[d]) = fromWorker[d][1] /\ Head(fromWorker[d]) \in Reports
  BY <1>1, FromWorkerTaken
<1>3. Head(fromWorker[d]).reader \in SUBSET Media
  BY <1>2 DEF Reports, Message
<1>4. rd \in SUBSET Media /\ page[d] \in PageStates
  BY <1>3, Fields
<1>5. NextId(d) \in FreeIds(d) /\ NextId(d) \in Ids
  BY <1>1, NextIdType
<1>6. Snapshot(NextId(d), NoFiles) \in WorkerMessages
  BY <1>5, SnapshotTypes, NoFilesType
<1>7. /\ toWorker' \in [Devices -> Seq(WorkerMessages)]
      /\ toWorker'[d] = Append(toWorker[d], Snapshot(NextId(d), NoFiles))
      /\ \A e \in Devices \ {d} : toWorker'[e] = toWorker[e]
  BY <1>1, <1>6, ToWorkerPosted
<1>8. Asked(NextId(d), "refresh", 0) \in Requests
  BY <1>5, AskedFields
<1>9. rd = (page[d].reader \ Cards) \cup (fromWorker[d][1].reader \cap Cards)
  BY <1>2
<1> HIDE DEF rd
<1>10. /\ page' \in [Devices -> PageStates] /\ page'[d].reader = rd
       /\ page'[d].asked = page[d].asked \cup {Asked(NextId(d), "refresh", 0)}
       /\ page'[d].due = page[d].due /\ page'[d].files = page[d].files
       /\ page'[d].restarting = page[d].restarting
       /\ \A e \in Devices \ {d} : page'[e] = page[e]
  BY <1>1, <1>4, <1>8 DEF DeviceTypes, PageStates
<1>11. DeviceTypes' /\ ChannelTypes' /\ Elsewhere(d)
  BY <1>1, <1>2, <1>7, <1>10 DEF DeviceTypes, ChannelTypes, Elsewhere, Same
<1> QED
  BY <1>1, <1>2, <1>5, <1>7, <1>9, <1>10, <1>11

\* An entry is settled, and nothing else about the page changes.
Settles(d, a) ==
  /\ page'[d].asked = page[d].asked \ {a}
  /\ page'[d].due = page[d].due /\ page'[d].reader = page[d].reader
  /\ UNCHANGED <<worker, toWorker>>
Resolved(d, a, files) ==
  /\ a.for = "parent" =>
       /\ Settles(d, a) /\ page'[d].files = page[d].files /\ page'[d].restarting = page[d].restarting
       /\ toParent'[d] = Append(toParent[d], Snapshot(a.request, files))
  /\ a.for = "refresh" =>
       /\ Settles(d, a) /\ page'[d].files = files /\ page'[d].restarting = page[d].restarting
       /\ UNCHANGED toParent
  /\ a.for = "restart" =>
       /\ UNCHANGED toParent
       /\ \E due \in Dues : /\ Launch(d, files, page[d].asked \ {a}, due)
                            /\ page[d].due # "retry" => due = page[d].due
  /\ a.for = "abandoned" =>
       /\ Settles(d, a) /\ page'[d].files = page[d].files /\ page'[d].restarting = FALSE
       /\ UNCHANGED toParent

LEMMA ResolveDoes ==
  ASSUME DeviceTypes, ChannelTypes, NEW d \in Devices, NEW a \in page[d].asked,
         NEW files \in [Media -> Versions], Resolve(d, a, files)
  PROVE  /\ Resolved(d, a, files)
         /\ page' \in [Devices -> PageStates] /\ worker' \in [Devices -> WorkerStates]
         /\ toParent' \in [Devices -> Seq(ParentMessages)] /\ toWorker' \in [Devices -> Seq(WorkerMessages)]
         /\ \A e \in Devices \ {d} : /\ page'[e] = page[e] /\ worker'[e] = worker[e]
                                     /\ toParent'[e] = toParent[e] /\ toWorker'[e] = toWorker[e]
         /\ a.for = "restart" =>
              /\ fromWorker' \in [Devices -> Seq(Reports)]
              /\ \A e \in Devices \ {d} : fromWorker'[e] = fromWorker[e]
<1>1. /\ a \in Requests /\ a.for \in {"parent", "refresh", "restart", "abandoned"}
      /\ a.request \in Ids \cup {0}
      /\ page[d] \in PageStates /\ page[d].asked \ {a} \in SUBSET Requests
  BY Fields DEF Requests
<1>2. CASE a.for = "parent"
  <2>1. /\ page' = [page EXCEPT ![d].asked = @ \ {a}]
        /\ toParent' = Post(toParent, d, Snapshot(a.request, files))
        /\ UNCHANGED <<worker, toWorker>>
    BY <1>2 DEF Resolve
  <2>2. Snapshot(a.request, files) \in ParentMessages
    BY <1>1, SnapshotTypes
  <2>3. /\ toParent' \in [Devices -> Seq(ParentMessages)]
        /\ toParent'[d] = Append(toParent[d], Snapshot(a.request, files))
        /\ \A e \in Devices \ {d} : toParent'[e] = toParent[e]
    BY <2>1, <2>2, ToParentPosted
  <2>4. /\ page' \in [Devices -> PageStates] /\ page'[d].asked = page[d].asked \ {a}
        /\ page'[d].due = page[d].due /\ page'[d].files = page[d].files
        /\ page'[d].reader = page[d].reader /\ page'[d].restarting = page[d].restarting
        /\ \A e \in Devices \ {d} : page'[e] = page[e]
    BY <1>1, <2>1 DEF DeviceTypes, PageStates
  <2> QED
    BY <1>2, <2>1, <2>3, <2>4 DEF Resolved, Settles, DeviceTypes, ChannelTypes
<1>3. CASE a.for = "refresh"
  <2>1. /\ page' = [page EXCEPT ![d].asked = @ \ {a}, ![d].files = files]
        /\ UNCHANGED <<worker, toParent, toWorker>>
    BY <1>3 DEF Resolve
  <2>2. /\ page' \in [Devices -> PageStates] /\ page'[d].asked = page[d].asked \ {a}
        /\ page'[d].due = page[d].due /\ page'[d].files = files
        /\ page'[d].reader = page[d].reader /\ page'[d].restarting = page[d].restarting
        /\ \A e \in Devices \ {d} : page'[e] = page[e]
    BY <1>1, <2>1 DEF DeviceTypes, PageStates
  <2> QED
    BY <1>3, <2>1, <2>2 DEF Resolved, Settles, DeviceTypes, ChannelTypes
<1>4. CASE a.for = "restart"
  <2>1. Relaunch(d, files, page[d].asked \ {a}) /\ UNCHANGED toParent
    BY <1>4 DEF Resolve
  <2>2. PICK due \in Dues : /\ Launch(d, files, page[d].asked \ {a}, due)
                            /\ page[d].due # "retry" => due = page[d].due
    BY <2>1, RelaunchDoes
  <2>3. /\ page' \in [Devices -> PageStates] /\ worker' \in [Devices -> WorkerStates]
        /\ toWorker' \in [Devices -> Seq(WorkerMessages)] /\ fromWorker' \in [Devices -> Seq(Reports)]
        /\ \A e \in Devices \ {d} :
              /\ page'[e] = page[e] /\ worker'[e] = worker[e]
              /\ toWorker'[e] = toWorker[e] /\ fromWorker'[e] = fromWorker[e]
    BY <1>1, <2>2, LaunchDoes
  <2>4. Resolved(d, a, files)
    BY <1>4, <2>1, <2>2 DEF Resolved
  <2> QED
    BY <2>1, <2>3, <2>4 DEF ChannelTypes
<1>5. CASE a.for = "abandoned"
  <2>1. /\ page' = [page EXCEPT ![d].asked = @ \ {a}, ![d].restarting = FALSE]
        /\ UNCHANGED <<worker, toParent, toWorker>>
    BY <1>5 DEF Resolve
  <2>2. /\ page' \in [Devices -> PageStates] /\ page'[d].asked = page[d].asked \ {a}
        /\ page'[d].due = page[d].due /\ page'[d].files = page[d].files
        /\ page'[d].reader = page[d].reader /\ page'[d].restarting = FALSE
        /\ \A e \in Devices \ {d} : page'[e] = page[e]
    BY <1>1, <2>1 DEF DeviceTypes, PageStates
  <2> QED
    BY <1>5, <2>1, <2>2 DEF Resolved, Settles, DeviceTypes, ChannelTypes
<1> QED
  BY <1>1, <1>2, <1>3, <1>4, <1>5

LEMMA SnapshotDoes ==
  ASSUME DeviceTypes, ChannelTypes, NEW d \in Devices, PageSnapshot(d)
  PROVE  /\ DeviceTypes' /\ ChannelTypes' /\ Elsewhere(d)
         /\ fromWorker[d] # <<>> /\ fromWorker[d][1].type = "snapshot"
         /\ UNCHANGED toPage
         /\ (\A a \in page[d].asked : a.id # fromWorker[d][1].id) =>
              fromWorker'[d] = Tail(fromWorker[d]) /\ UNCHANGED <<page, worker, toParent, toWorker>>
         /\ (\E a \in page[d].asked : a.id = fromWorker[d][1].id) =>
              \E a \in page[d].asked :
                /\ a.id = fromWorker[d][1].id
                /\ Resolved(d, a, fromWorker[d][1].files)
                /\ a.for # "restart" => fromWorker'[d] = Tail(fromWorker[d])
<1> DEFINE who == {a \in page[d].asked : a.id = Head(fromWorker[d]).id}
<1>1. /\ fromWorker[d] # <<>> /\ Head(fromWorker[d]).type = "snapshot"
      /\ UNCHANGED <<toPage, latest>>
      /\ who = {} => fromWorker' = Take(fromWorker, d) /\ UNCHANGED <<page, worker, toParent, toWorker>>
      /\ who # {} => \E a \in who : /\ Resolve(d, a, Head(fromWorker[d]).files)
                                    /\ a.for # "restart" => fromWorker' = Take(fromWorker, d)
  BY DEF PageSnapshot, Has
<1>2. fromWorker \in [Devices -> Seq(Reports)] /\ fromWorker[d] \in Seq(Reports)
  BY DEF ChannelTypes
<1>3. Head(fromWorker[d]) = fromWorker[d][1] /\ Head(fromWorker[d]) \in Reports
  BY <1>1, <1>2, TailFacts
<1>4. Head(fromWorker[d]).files \in [Media -> Versions]
  BY <1>3 DEF Reports, Message
<1>5. CASE who = {}
  BY <1>1, <1>3, <1>5, FromWorkerTaken DEF DeviceTypes, ChannelTypes, Elsewhere, Same
<1>6. CASE who # {}
  BY <1>1, <1>3, <1>4, <1>6, ResolveDoes, FromWorkerTaken DEF DeviceTypes, ChannelTypes, Elsewhere,
     Same
<1> QED
  BY <1>5, <1>6

LEMMA TimeoutDoes ==
  ASSUME DeviceTypes, ChannelTypes, NEW d \in Devices, NEW a \in page[d].asked, PageTimeout(d, a)
  PROVE  /\ DeviceTypes' /\ ChannelTypes' /\ Elsewhere(d)
         /\ Stalls \/ worker[d].phase # "running" \/ ~Answerable(d, a)
BY Fields, ResolveDoes DEF PageTimeout, ChannelTypes, DeviceTypes, Elsewhere, Same

LEMMA CrashesDoes ==
  ASSUME DeviceTypes, ChannelTypes, NEW d \in Devices, NEW retries \in BOOLEAN, WorkerCrashes(d, retries)
  PROVE  /\ DeviceTypes' /\ ChannelTypes' /\ Elsewhere(d)
         /\ worker[d].phase # "none" /\ worker'[d] = NoWorker
         /\ toWorker'[d] = <<>> /\ fromWorker'[d] = <<>>
         /\ page'[d].files = page[d].files /\ page'[d].reader = page[d].reader
         /\ page'[d].restarting = page[d].restarting /\ page'[d].asked = Orphans(page[d].asked)
         /\ page'[d].due = IF retries /\ page[d].due = "no" THEN "retry" ELSE page[d].due
         /\ UNCHANGED toPage
         /\ retries => UNCHANGED toParent
         /\ ~retries => toParent'[d] = Append(toParent[d], Plain("error"))
<1> DEFINE due == IF retries /\ page[d].due = "no" THEN "retry" ELSE page[d].due
<1>1. /\ worker[d].phase # "none"
      /\ worker' = [worker EXCEPT ![d] = NoWorker]
      /\ Silence(d)
      /\ page' = [page EXCEPT ![d].asked = Orphans(@),
                              ![d].due = IF retries /\ @ = "no" THEN "retry" ELSE @]
      /\ retries => UNCHANGED toParent
      /\ ~retries => toParent' = Post(toParent, d, Plain("error"))
      /\ UNCHANGED <<toPage, latest>>
  BY DEF WorkerCrashes
<1>2. page[d] \in PageStates /\ Orphans(page[d].asked) \in SUBSET Requests /\ due \in Dues
  BY Fields, OrphanTypes DEF Dues
<1>3. page' = [page EXCEPT ![d].asked = Orphans(page[d].asked), ![d].due = due]
  BY <1>1, <1>2 DEF DeviceTypes, PageStates
<1>4. /\ page' \in [Devices -> PageStates] /\ page'[d].asked = Orphans(page[d].asked)
      /\ page'[d].due = due /\ page'[d].files = page[d].files
      /\ page'[d].reader = page[d].reader /\ page'[d].restarting = page[d].restarting
      /\ \A e \in Devices \ {d} : page'[e] = page[e]
  BY <1>2, <1>3 DEF DeviceTypes, PageStates
<1>5. NoWorker \in WorkerStates
  BY NoFilesType DEF NoWorker, WorkerStates
<1>6. /\ worker' \in [Devices -> WorkerStates] /\ worker'[d] = NoWorker
      /\ \A e \in Devices \ {d} : worker'[e] = worker[e]
  BY <1>1, <1>5 DEF DeviceTypes
<1>7. Plain("error") \in ParentMessages
  BY PlainTypes
<1>8. ~retries => /\ toParent' \in [Devices -> Seq(ParentMessages)]
                  /\ toParent'[d] = Append(toParent[d], Plain("error"))
                  /\ \A e \in Devices \ {d} : toParent'[e] = toParent[e]
  BY <1>1, <1>7, ToParentPosted
<1>9. /\ toWorker' \in [Devices -> Seq(WorkerMessages)] /\ toWorker'[d] = <<>>
      /\ fromWorker' \in [Devices -> Seq(Reports)] /\ fromWorker'[d] = <<>>
      /\ \A e \in Devices \ {d} : toWorker'[e] = toWorker[e] /\ fromWorker'[e] = fromWorker[e]
  BY <1>1, SilenceTypes
<1>10. /\ toParent' \in [Devices -> Seq(ParentMessages)]
       /\ \A e \in Devices \ {d} : toParent'[e] = toParent[e]
  BY <1>1, <1>8 DEF ChannelTypes
<1>11. DeviceTypes' /\ ChannelTypes' /\ Elsewhere(d)
  BY <1>1, <1>4, <1>6, <1>9, <1>10 DEF DeviceTypes, ChannelTypes, Elsewhere, Same
<1> QED
  BY <1>1, <1>4, <1>6, <1>8, <1>9, <1>11

\* The report that tells the page whether m is inserted.
Rep(m) == IF m = SD THEN "sd-state" ELSE "card-state"
Says(d, type) == fromWorker'[d] = Append(fromWorker[d], Report(type, worker'[d].reader))
Only(d, m)    == \A n \in Media \ {m} : worker'[d].files[n] = worker[d].files[n]
Beside(m)     == IF m = SD THEN {SD} ELSE Cards
HandledAs(d, c) ==
  /\ c.type = "snapshot" =>
       /\ worker'[d] = worker[d] /\ latest' = latest
       /\ fromWorker'[d] = Append(fromWorker[d], Snapshot(c.id, worker[d].files))
  /\ c.type = "card-list" => worker'[d] = worker[d] /\ latest' = latest /\ Says(d, "card-state")
  /\ c.type = "insert" =>
       /\ Says(d, Rep(c.m)) /\ Only(d, c.m)
       /\ worker'[d].reader = (worker[d].reader \ Beside(c.m)) \cup {c.m}
       /\ c.m \in Cards /\ worker[d].files[c.m] = 0 =>
            worker'[d].files[c.m] = latest[c.m] + 1 /\ latest' = [latest EXCEPT ![c.m] = latest[c.m] + 1]
       /\ ~(c.m \in Cards /\ worker[d].files[c.m] = 0) =>
            worker'[d].files[c.m] = worker[d].files[c.m] /\ latest' = latest
  /\ c.type = "eject" =>
       /\ Says(d, Rep(c.m)) /\ worker'[d].files = worker[d].files /\ latest' = latest
       /\ worker'[d].reader = worker[d].reader \ Beside(c.m)
  /\ c.type = "import" =>
       /\ Says(d, "card-state") /\ Only(d, c.m) /\ worker'[d].reader = worker[d].reader /\ latest' = latest
       /\ worker'[d].files[c.m] = IF c.files[c.m] = 0 THEN worker[d].files[c.m] ELSE c.files[c.m]
  /\ c.type = "remove" =>
       /\ Says(d, "card-state") /\ Only(d, c.m) /\ worker'[d].reader = worker[d].reader /\ latest' = latest
       /\ worker'[d].files[c.m] = 0
  /\ c.type = "edit" =>
       /\ fromWorker'[d] = fromWorker[d] /\ Only(d, c.m) /\ worker'[d].reader = worker[d].reader
       /\ worker'[d].files[c.m] = latest[c.m] + 1 /\ latest' = [latest EXCEPT ![c.m] = latest[c.m] + 1]

\* The worker gets files fs and a reader rd.
Puts(d, fs, rd) == worker' = [worker EXCEPT ![d].files = fs, ![d].reader = rd]

LEMMA WorkerPut ==
  ASSUME DeviceTypes, NEW d \in Devices, NEW fs \in [Media -> Versions], NEW rd \in SUBSET Media,
         Puts(d, fs, rd)
  PROVE  /\ worker' \in [Devices -> WorkerStates]
         /\ worker'[d].files = fs /\ worker'[d].reader = rd /\ worker'[d].phase = worker[d].phase
         /\ \A e \in Devices \ {d} : worker'[e] = worker[e]
BY Fields DEF DeviceTypes, WorkerStates, Puts

LEMMA Put ==
  ASSUME NEW fs \in [Media -> Versions], NEW m \in Media, NEW v \in Versions
  PROVE  /\ [fs EXCEPT ![m] = v] \in [Media -> Versions]
         /\ [fs EXCEPT ![m] = v][m] = v
         /\ \A n \in Media \ {m} : [fs EXCEPT ![m] = v][n] = fs[n]
OBVIOUS

LEMMA SayDoes ==
  ASSUME ChannelTypes, NEW d \in Devices, NEW rd \in SUBSET Media, NEW type \in {"sd-state", "card-state"},
         fromWorker' = Post(fromWorker, d, Report(type, rd))
  PROVE  /\ fromWorker' \in [Devices -> Seq(Reports)]
         /\ fromWorker'[d] = Append(fromWorker[d], Report(type, rd))
         /\ \A e \in Devices \ {d} : fromWorker'[e] = fromWorker[e]
BY ReportTypes, FromWorkerPosted

LEMMA HandledDoes ==
  ASSUME DeviceTypes, ChannelTypes, NEW d \in Devices, NEW c \in WorkerMessages, Handled(d, c)
  PROVE  /\ worker' \in [Devices -> WorkerStates] /\ latest' \in [Media -> Versions]
         /\ fromWorker' \in [Devices -> Seq(Reports)]
         /\ worker'[d].phase = worker[d].phase
         /\ HandledAs(d, c)
         /\ \A e \in Devices \ {d} : worker'[e] = worker[e] /\ fromWorker'[e] = fromWorker[e]
<1> DEFINE w == worker[d]
           creates == c.type = "insert" /\ c.m \in Cards /\ w.files[c.m] = 0
<1>1. /\ c.type \in {"snapshot", "card-list", "insert", "eject", "import", "remove", "edit"}
      /\ c.type \in Commands => c.m \in Media
      /\ c.files \in [Media -> Versions] /\ c.id \in Ids \cup {0}
  BY DEF WorkerMessages, Message, Addressed, Commands
<1>2. w.files \in [Media -> Versions] /\ w.reader \in SUBSET Media /\ latest \in [Media -> Versions]
  BY Fields DEF DeviceTypes
<1>3. latest' = IF creates \/ c.type = "edit" THEN [latest EXCEPT ![c.m] = NewVersion(c.m)] ELSE latest
  BY DEF Handled, Puts
<1>4. /\ latest' \in [Media -> Versions]
      /\ c.type \in Commands => latest[c.m] + 1 \in Versions
  BY <1>1, <1>2, <1>3 DEF NewVersion, Versions, Commands
<1>5. CASE c.type = "snapshot"
  <2>1. UNCHANGED worker /\ fromWorker' = Post(fromWorker, d, Snapshot(c.id, w.files)) /\ latest' = latest
    BY <1>3, <1>5 DEF Handled, Puts
  <2>2. Snapshot(c.id, w.files) \in Reports
    BY <1>1, <1>2, SnapshotTypes
  <2>3. /\ fromWorker' \in [Devices -> Seq(Reports)]
        /\ fromWorker'[d] = Append(fromWorker[d], Snapshot(c.id, w.files))
        /\ \A e \in Devices \ {d} : fromWorker'[e] = fromWorker[e]
    BY <2>1, <2>2, FromWorkerPosted
  <2>4. HandledAs(d, c)
    BY <1>5, <2>1, <2>3 DEF HandledAs
  <2> QED
    BY <2>1, <2>3, <2>4, <1>4 DEF DeviceTypes
<1>6. CASE c.type = "card-list"
  BY <1>2, <1>3, <1>4, <1>6, SayDoes DEF Handled, Puts, HandledAs, Says, DeviceTypes
<1>7. CASE c.type = "insert" /\ c.m = SD
  <2>1. /\ Puts(d, w.files, w.reader \cup {SD})
        /\ fromWorker' = Post(fromWorker, d, Report("sd-state", w.reader \cup {SD}))
        /\ latest' = latest
    BY <1>3, <1>7, MediaAssumption DEF Handled, Puts
  <2>2. w.reader \cup {SD} \in SUBSET Media /\ w.reader \cup {SD} = (w.reader \ Beside(c.m)) \cup {c.m}
    BY <1>2, <1>7 DEF Media, Beside
  <2>3. /\ worker' \in [Devices -> WorkerStates]
        /\ worker'[d].files = w.files /\ worker'[d].reader = w.reader \cup {SD}
        /\ worker'[d].phase = worker[d].phase
        /\ \A e \in Devices \ {d} : worker'[e] = worker[e]
    BY <1>2, <2>1, <2>2, WorkerPut
  <2>4. /\ fromWorker' \in [Devices -> Seq(Reports)]
        /\ fromWorker'[d] = Append(fromWorker[d], Report("sd-state", w.reader \cup {SD}))
        /\ \A e \in Devices \ {d} : fromWorker'[e] = fromWorker[e]
    BY <2>1, <2>2, SayDoes
  <2>5. HandledAs(d, c)
    BY <1>7, <2>1, <2>2, <2>3, <2>4, MediaAssumption DEF HandledAs, Says, Only, Rep
  <2> QED
    BY <2>3, <2>4, <2>5, <1>4 DEF DeviceTypes
<1>8. CASE c.type = "insert" /\ c.m \in Cards
  <2> DEFINE fs == IF creates THEN [w.files EXCEPT ![c.m] = NewVersion(c.m)] ELSE w.files
             rd == (w.reader \ Cards) \cup {c.m}
  <2>1. /\ Puts(d, fs, rd)
        /\ fromWorker' = Post(fromWorker, d, Report("card-state", rd))
    BY <1>8, MediaAssumption DEF Handled, Puts
  <2>2. rd \in SUBSET Media /\ rd = (w.reader \ Beside(c.m)) \cup {c.m} /\ c.m # SD /\ c.m \in Media
    BY <1>2, <1>8, MediaAssumption DEF Media, Beside
  <2>3. /\ fs \in [Media -> Versions]
        /\ \A n \in Media \ {c.m} : fs[n] = w.files[n]
        /\ w.files[c.m] = 0 => fs[c.m] = latest[c.m] + 1 /\ latest' = [latest EXCEPT ![c.m] = latest[c.m] + 1]
        /\ w.files[c.m] # 0 => fs[c.m] = w.files[c.m] /\ latest' = latest
    BY <1>1, <1>2, <1>3, <1>4, <1>8, <2>2, Put DEF NewVersion, Commands
  <2> HIDE DEF fs, rd
  <2>4. /\ worker' \in [Devices -> WorkerStates]
        /\ worker'[d].files = fs /\ worker'[d].reader = rd
        /\ worker'[d].phase = worker[d].phase
        /\ \A e \in Devices \ {d} : worker'[e] = worker[e]
    BY <2>1, <2>2, <2>3, WorkerPut
  <2>5. /\ fromWorker' \in [Devices -> Seq(Reports)]
        /\ fromWorker'[d] = Append(fromWorker[d], Report("card-state", rd))
        /\ \A e \in Devices \ {d} : fromWorker'[e] = fromWorker[e]
    BY <2>1, <2>2, SayDoes
  <2>6. HandledAs(d, c)
    BY <1>8, <2>2, <2>3, <2>4, <2>5 DEF HandledAs, Says, Only, Rep
  <2> QED
    BY <2>4, <2>5, <2>6, <1>4 DEF DeviceTypes
<1>9. CASE c.type = "eject"
  <2> DEFINE rd == w.reader \ Beside(c.m)
  <2>1. c.m = SD \/ c.m \in Cards
    BY <1>1, <1>9 DEF Commands, Media
  <2>2. /\ Puts(d, w.files, rd)
        /\ fromWorker' = Post(fromWorker, d, Report(Rep(c.m), rd))
        /\ latest' = latest
    BY <1>3, <1>9, <2>1, MediaAssumption DEF Handled, Puts, Beside, Rep
  <2>3. rd \in SUBSET Media /\ Rep(c.m) \in {"sd-state", "card-state"}
    BY <1>2 DEF Rep
  <2> HIDE DEF rd
  <2>4. /\ worker' \in [Devices -> WorkerStates]
        /\ worker'[d].files = w.files /\ worker'[d].reader = rd
        /\ worker'[d].phase = worker[d].phase
        /\ \A e \in Devices \ {d} : worker'[e] = worker[e]
    BY <1>2, <2>2, <2>3, WorkerPut
  <2>5. /\ fromWorker' \in [Devices -> Seq(Reports)]
        /\ fromWorker'[d] = Append(fromWorker[d], Report(Rep(c.m), rd))
        /\ \A e \in Devices \ {d} : fromWorker'[e] = fromWorker[e]
    BY <2>2, <2>3, SayDoes
  <2>6. HandledAs(d, c)
    BY <1>9, <2>2, <2>4, <2>5 DEF HandledAs, Says, rd
  <2> QED
    BY <2>4, <2>5, <2>6, <1>4 DEF DeviceTypes
<1>10. CASE c.type \in {"import", "remove"}
  <2> DEFINE v == IF c.type = "remove" THEN 0 ELSE IF c.files[c.m] = 0 THEN w.files[c.m] ELSE c.files[c.m]
             fs == [w.files EXCEPT ![c.m] = v]
  <2>1. c.m \in Media
    BY <1>1, <1>10 DEF Commands
  <2>2. /\ Puts(d, fs, w.reader)
        /\ fromWorker' = Post(fromWorker, d, Report("card-state", w.reader))
        /\ latest' = latest
    BY <1>2, <1>3, <1>10, <2>1 DEF Handled, Puts
  <2>3. v \in Versions
    BY <1>1, <1>2, <2>1 DEF Versions
  <2>4. fs \in [Media -> Versions] /\ fs[c.m] = v /\ \A n \in Media \ {c.m} : fs[n] = w.files[n]
    BY <1>2, <2>1, <2>3
  <2> HIDE DEF fs
  <2>5. /\ worker' \in [Devices -> WorkerStates]
        /\ worker'[d].files = fs /\ worker'[d].reader = w.reader
        /\ worker'[d].phase = worker[d].phase
        /\ \A e \in Devices \ {d} : worker'[e] = worker[e]
    BY <1>2, <2>2, <2>4, WorkerPut
  <2>6. /\ fromWorker' \in [Devices -> Seq(Reports)]
        /\ fromWorker'[d] = Append(fromWorker[d], Report("card-state", w.reader))
        /\ \A e \in Devices \ {d} : fromWorker'[e] = fromWorker[e]
    BY <1>2, <2>2, SayDoes
  <2>7. HandledAs(d, c)
    BY <1>10, <2>2, <2>4, <2>5, <2>6 DEF HandledAs, Says, Only
  <2> QED
    BY <2>5, <2>6, <2>7, <1>4 DEF DeviceTypes
<1>11. CASE c.type = "edit"
  <2> DEFINE fs == [w.files EXCEPT ![c.m] = NewVersion(c.m)]
  <2>1. /\ Puts(d, fs, w.reader)
        /\ UNCHANGED fromWorker
        /\ latest' = [latest EXCEPT ![c.m] = latest[c.m] + 1]
    BY <1>3, <1>11 DEF Handled, Puts, NewVersion
  <2>2. c.m \in Media /\ NewVersion(c.m) = latest[c.m] + 1 /\ latest[c.m] + 1 \in Versions
    BY <1>1, <1>4, <1>11 DEF Commands, NewVersion
  <2>3. fs \in [Media -> Versions] /\ fs[c.m] = latest[c.m] + 1 /\ \A n \in Media \ {c.m} : fs[n] = w.files[n]
    BY <1>2, <2>2
  <2> HIDE DEF fs
  <2>4. /\ worker' \in [Devices -> WorkerStates]
        /\ worker'[d].files = fs /\ worker'[d].reader = w.reader
        /\ worker'[d].phase = worker[d].phase
        /\ \A e \in Devices \ {d} : worker'[e] = worker[e]
    BY <1>2, <2>1, <2>3, WorkerPut
  <2>5. HandledAs(d, c)
    BY <1>11, <2>1, <2>3, <2>4 DEF HandledAs, Only
  <2> QED
    BY <2>1, <2>4, <2>5, <1>4 DEF DeviceTypes, ChannelTypes
<1> QED
  BY <1>1, <1>5, <1>6, <1>7, <1>8, <1>9, <1>10, <1>11 DEF Commands, Media

LEMMA PhaseDoes ==
  ASSUME DeviceTypes, NEW d \in Devices, NEW phase \in {"ready", "running"},
         worker' = [worker EXCEPT ![d].phase = phase]
  PROVE  /\ worker' \in [Devices -> WorkerStates]
         /\ worker'[d].phase = phase
         /\ worker'[d].files = worker[d].files /\ worker'[d].reader = worker[d].reader
         /\ \A e \in Devices \ {d} : worker'[e] = worker[e]
BY Fields DEF DeviceTypes, WorkerStates

LEMMA ReadyDoes ==
  ASSUME DeviceTypes, ChannelTypes, NEW d \in Devices, WorkerReady(d)
  PROVE  /\ DeviceTypes' /\ ChannelTypes' /\ Elsewhere(d)
         /\ worker[d].phase = "booting" /\ worker'[d].phase = "ready"
         /\ worker'[d].files = worker[d].files /\ worker'[d].reader = worker[d].reader
         /\ UNCHANGED <<page, toPage, toParent, toWorker, fromWorker>>
BY PhaseDoes DEF WorkerReady, channels, DeviceTypes, ChannelTypes, Elsewhere, Same

LEMMA RunsDoes ==
  ASSUME DeviceTypes, ChannelTypes, NEW d \in Devices, WorkerRuns(d)
  PROVE  /\ DeviceTypes' /\ ChannelTypes' /\ Elsewhere(d)
         /\ worker[d].phase = "ready" /\ worker'[d].phase = "running"
         /\ worker'[d].files = worker[d].files /\ worker'[d].reader = worker[d].reader
         /\ fromWorker'[d] = Append(fromWorker[d], Plain("running"))
         /\ UNCHANGED <<page, toPage, toParent, toWorker>>
<1>1. /\ worker[d].phase = "ready" /\ worker' = [worker EXCEPT ![d].phase = "running"]
      /\ fromWorker' = Post(fromWorker, d, Plain("running"))
      /\ UNCHANGED <<page, toPage, toParent, toWorker, latest>>
  BY DEF WorkerRuns
<1>2. /\ worker' \in [Devices -> WorkerStates] /\ worker'[d].phase = "running"
      /\ worker'[d].files = worker[d].files /\ worker'[d].reader = worker[d].reader
      /\ \A e \in Devices \ {d} : worker'[e] = worker[e]
  BY <1>1, PhaseDoes
<1>3. Plain("running") \in Reports
  BY PlainTypes
<1>4. /\ fromWorker' \in [Devices -> Seq(Reports)]
      /\ fromWorker'[d] = Append(fromWorker[d], Plain("running"))
      /\ \A e \in Devices \ {d} : fromWorker'[e] = fromWorker[e]
  BY <1>1, <1>3, FromWorkerPosted
<1> QED
  BY <1>1, <1>2, <1>4 DEF DeviceTypes, ChannelTypes, Elsewhere, Same

LEMMA HandlesDoes ==
  ASSUME DeviceTypes, ChannelTypes, NEW d \in Devices, WorkerHandles(d)
  PROVE  /\ DeviceTypes' /\ ChannelTypes' /\ Elsewhere(d)
         /\ worker[d].phase \in {"ready", "running"} /\ worker'[d].phase = worker[d].phase
         /\ toWorker[d] # <<>> /\ toWorker'[d] = Tail(toWorker[d])
         /\ toWorker[d][1] \in WorkerMessages
         /\ HandledAs(d, toWorker[d][1])
         /\ UNCHANGED <<page, toPage, toParent>>
BY ToWorkerTaken, HandledDoes DEF WorkerHandles, DeviceTypes, ChannelTypes, Elsewhere, Same

LEMMA WritesDoes ==
  ASSUME DeviceTypes, ChannelTypes, NEW d \in Devices, NEW m \in Media, FirmwareWrites(d, m)
  PROVE  /\ DeviceTypes' /\ ChannelTypes' /\ Elsewhere(d)
         /\ worker[d].phase \in {"ready", "running"} /\ m \in worker[d].reader
         /\ worker'[d].phase = worker[d].phase /\ worker'[d].reader = worker[d].reader
         /\ worker'[d].files[m] = latest[m] + 1 /\ Only(d, m)
         /\ latest' = [latest EXCEPT ![m] = latest[m] + 1]
         /\ UNCHANGED <<page, toPage, toParent, toWorker, fromWorker>>
<1>1. /\ worker[d].phase \in {"ready", "running"} /\ m \in worker[d].reader
      /\ latest' = [latest EXCEPT ![m] = latest[m] + 1]
      /\ worker' = [worker EXCEPT ![d].files[m] = latest[m] + 1]
      /\ UNCHANGED <<page, toPage, toParent, toWorker, fromWorker>>
  BY DEF FirmwareWrites, channels, NewVersion
<1>2. worker[d] \in WorkerStates /\ worker[d].files \in [Media -> Versions] /\ latest \in [Media -> Versions]
  BY Fields DEF DeviceTypes
<1>3. latest[m] + 1 \in Versions
  BY <1>2 DEF Versions
<1>4. [worker[d].files EXCEPT ![m] = latest[m] + 1] \in [Media -> Versions]
  BY <1>2, <1>3
<1>5. /\ worker' \in [Devices -> WorkerStates]
      /\ worker'[d].phase = worker[d].phase /\ worker'[d].reader = worker[d].reader
      /\ worker'[d].files = [worker[d].files EXCEPT ![m] = latest[m] + 1]
      /\ \A e \in Devices \ {d} : worker'[e] = worker[e]
  BY <1>1, <1>2, <1>4 DEF DeviceTypes, WorkerStates
<1>6. latest' \in [Media -> Versions]
  BY <1>1, <1>2, <1>3
<1>7. worker'[d].files[m] = latest[m] + 1 /\ Only(d, m)
  BY <1>2, <1>5 DEF Only
<1> QED
  BY <1>1, <1>5, <1>6, <1>7 DEF DeviceTypes, ChannelTypes, Elsewhere, Same

LEMMA FirmwareRebootsDoes ==
  ASSUME DeviceTypes, ChannelTypes, NEW d \in Devices, FirmwareReboots(d)
  PROVE  /\ DeviceTypes' /\ ChannelTypes' /\ Elsewhere(d)
         /\ worker[d].phase = "running"
         /\ fromWorker'[d] = Append(fromWorker[d], Plain("reboot"))
         /\ UNCHANGED <<page, worker, toPage, toParent, toWorker>>
BY PlainTypes, FromWorkerPosted DEF FirmwareReboots, DeviceTypes, ChannelTypes, Elsewhere, Same

LEMMA ReloadDoes ==
  ASSUME DeviceTypes, ChannelTypes, NEW d \in Devices, Reload(d)
  PROVE  /\ DeviceTypes' /\ ChannelTypes' /\ Elsewhere(d)
         /\ page'[d] = LoadedPage /\ worker'[d] = NoWorker
         /\ toPage'[d] = <<>> /\ toParent'[d] = Append(toParent[d], Plain("awaiting"))
         /\ toWorker'[d] = <<>> /\ fromWorker'[d] = <<>>
         /\ ready' = ready \ {d} /\ UNCHANGED <<latest, owner, kept, op, base, ops>>
<1>1. /\ page' = [page EXCEPT ![d] = LoadedPage] /\ worker' = [worker EXCEPT ![d] = NoWorker]
      /\ toPage' = [toPage EXCEPT ![d] = <<>>] /\ toParent' = Post(toParent, d, Plain("awaiting"))
      /\ Silence(d) /\ ready' = ready \ {d}
      /\ UNCHANGED <<latest, owner, kept, op, base, ops>>
  BY DEF Reload
<1>2. LoadedPage \in PageStates /\ NoWorker \in WorkerStates
  BY NoFilesType DEF LoadedPage, NoWorker, PageStates, WorkerStates, Dues
<1>3. /\ page' \in [Devices -> PageStates] /\ page'[d] = LoadedPage
      /\ worker' \in [Devices -> WorkerStates] /\ worker'[d] = NoWorker
      /\ \A e \in Devices \ {d} : page'[e] = page[e] /\ worker'[e] = worker[e]
  BY <1>1, <1>2 DEF DeviceTypes
<1>4. /\ toPage' \in [Devices -> Seq(PageMessages)] /\ toPage'[d] = <<>>
      /\ \A e \in Devices \ {d} : toPage'[e] = toPage[e]
  BY <1>1 DEF ChannelTypes
<1>5. Plain("awaiting") \in ParentMessages
  BY PlainTypes
<1>6. /\ toParent' \in [Devices -> Seq(ParentMessages)]
      /\ toParent'[d] = Append(toParent[d], Plain("awaiting"))
      /\ \A e \in Devices \ {d} : toParent'[e] = toParent[e]
  BY <1>1, <1>5, ToParentPosted
<1>7. /\ toWorker' \in [Devices -> Seq(WorkerMessages)] /\ toWorker'[d] = <<>>
      /\ fromWorker' \in [Devices -> Seq(Reports)] /\ fromWorker'[d] = <<>>
      /\ \A e \in Devices \ {d} : toWorker'[e] = toWorker[e] /\ fromWorker'[e] = fromWorker[e]
  BY <1>1, SilenceTypes
<1> QED
  BY <1>1, <1>3, <1>4, <1>6, <1>7 DEF DeviceTypes, ChannelTypes, Elsewhere, Same

LEMMA AwaitingDoes ==
  ASSUME DeviceTypes, ChannelTypes, BenchTypes, NEW d \in Devices, HearsAwaiting(d)
  PROVE  /\ DeviceTypes' /\ ChannelTypes' /\ Elsewhere(d)
         /\ toParent[d] # <<>> /\ toParent[d][1].type = "awaiting" /\ toParent'[d] = Tail(toParent[d])
         /\ \E files \in [Media -> Versions] :
              /\ \A m \in Media : files[m] = IF owner[m] = d THEN kept[m] ELSE 0
              /\ toPage'[d] = Append(toPage[d], [Plain("provide") EXCEPT !.files = files])
         /\ UNCHANGED <<page, worker, toWorker, fromWorker, bench>>
<1> DEFINE files == [m \in Media |-> IF owner[m] = d THEN kept[m] ELSE 0]
           msg == [Plain("provide") EXCEPT !.files = files]
<1>1. /\ toParent[d] # <<>> /\ Head(toParent[d]).type = "awaiting" /\ toParent' = Take(toParent, d)
      /\ toPage' = Post(toPage, d, msg)
      /\ UNCHANGED <<page, worker, toWorker, fromWorker, latest, bench>>
  BY DEF HearsAwaiting, Hears, Has
<1>2. /\ toParent' \in [Devices -> Seq(ParentMessages)] /\ toParent'[d] = Tail(toParent[d])
      /\ \A e \in Devices \ {d} : toParent'[e] = toParent[e]
      /\ Head(toParent[d]) = toParent[d][1]
  BY <1>1, ToParentTaken
<1>3. /\ files \in [Media -> Versions]
      /\ \A m \in Media : files[m] = IF owner[m] = d THEN kept[m] ELSE 0
  BY DEF BenchTypes, Versions
<1> HIDE DEF files
<1>4. msg \in PageMessages
  BY <1>3, NoFilesType DEF Plain, PageMessages, Message, Addressed, Commands
<1> HIDE DEF msg
<1>5. /\ toPage' \in [Devices -> Seq(PageMessages)] /\ toPage'[d] = Append(toPage[d], msg)
      /\ \A e \in Devices \ {d} : toPage'[e] = toPage[e]
  BY <1>1, <1>4, ToPagePosted
<1>6. DeviceTypes' /\ ChannelTypes' /\ Elsewhere(d)
  BY <1>1, <1>2, <1>5 DEF DeviceTypes, ChannelTypes, Elsewhere, Same
<1> QED
  BY <1>1, <1>2, <1>3, <1>5, <1>6 DEF msg

-----------------------------------------------------------------------------
(* What the steps of the gallery do.                                        *)

LEMMA OperationFields ==
  ASSUME NEW o \in Operations
  PROVE  /\ o.at \in {"idle", "saving", "clearing", "inserting", "reading"} /\ o.out \in Seq(Media)
         /\ o.m \in Media \cup {None} /\ o.target \in Devices \cup {None} /\ o.wipe \in BOOLEAN
         /\ o.from \in Devices \cup {None} /\ o.id \in Ids \cup {0}
BY DEF Operations

LEMMA NoOpFields ==
  /\ NoOp \in Operations /\ NoOp.at = "idle" /\ NoOp.out = <<>> /\ NoOp.m = None /\ NoOp.target = None
  /\ NoOp.wipe = FALSE
BY DEF NoOp, Operations

LEMMA NextRequestType ==
  ASSUME FreeRequests # {}
  PROVE  NextRequest \in FreeRequests /\ NextRequest \in Ids
BY DEF NextRequest, FreeRequests

LEMMA ToPagePostedAll ==
  ASSUME ChannelTypes, NEW d \in Devices, NEW msgs \in Seq(PageMessages), toPage' = PostAll(toPage, d, msgs)
  PROVE  /\ toPage' \in [Devices -> Seq(PageMessages)]
         /\ toPage'[d] = toPage[d] \o msgs
         /\ \A e \in Devices \ {d} : toPage'[e] = toPage[e]
BY ConcatProperties DEF ChannelTypes, PostAll

\* A request is posted behind commands, and the operation waits for it.
Asks(d, commands, next) ==
  /\ d \in ready
  /\ op'.at = next.at /\ op'.out = next.out /\ op'.m = next.m
  /\ op'.target = next.target /\ op'.wipe = next.wipe /\ op'.from = d /\ op'.id \in Ids
  /\ toPage'[d] = toPage[d] \o Append(commands, Export(op'.id))
Rejects(d, commands) ==
  d \notin ready /\ op' = NoOp /\ toPage'[d] = toPage[d] \o commands

LEMMA AskAfterDoes ==
  ASSUME ChannelTypes, NEW d \in Devices, NEW commands \in Seq(PageMessages), NEW next \in Operations,
         AskAfter(d, commands, next)
  PROVE  /\ toPage' \in [Devices -> Seq(PageMessages)]
         /\ \A e \in Devices \ {d} : toPage'[e] = toPage[e]
         /\ op' \in Operations
         /\ Asks(d, commands, next) \/ Rejects(d, commands)
<1>1. toPage \in [Devices -> Seq(PageMessages)]
  BY DEF ChannelTypes
<1>2. CASE d \in ready
  <2>1. /\ FreeRequests # {}
        /\ op' = [next EXCEPT !.from = d, !.id = NextRequest]
        /\ toPage' = PostAll(toPage, d, Append(commands, Export(NextRequest)))
    BY <1>2 DEF AskAfter
  <2>2. NextRequest \in Ids
    BY <2>1, NextRequestType
  <2>3. Export(NextRequest) \in PageMessages
    BY <2>2, SnapshotTypes, NoFilesType
  <2>4. Append(commands, Export(NextRequest)) \in Seq(PageMessages)
    BY <2>3, AppendProperties
  <2>5. /\ toPage' \in [Devices -> Seq(PageMessages)]
        /\ toPage'[d] = toPage[d] \o Append(commands, Export(NextRequest))
        /\ \A e \in Devices \ {d} : toPage'[e] = toPage[e]
    BY <2>1, <2>4, ToPagePostedAll
  <2>6. /\ op' \in Operations
        /\ op'.at = next.at /\ op'.out = next.out /\ op'.m = next.m
        /\ op'.target = next.target /\ op'.wipe = next.wipe /\ op'.from = d /\ op'.id = NextRequest
    BY <2>1, <2>2 DEF Operations
  <2> QED
    BY <1>2, <2>2, <2>5, <2>6 DEF Asks
<1>3. CASE d \notin ready
  BY <1>3, ToPagePostedAll, NoOpFields DEF AskAfter, Rejects
<1> QED
  BY <1>2, <1>3

\* What is still to be detached is inserted somewhere, and the medium that is
\* to be inserted afterwards is one.
Plannable(o, own) ==
  /\ o \in Operations /\ own \in [Media -> Devices \cup {None}] /\ o.m \in Media
  /\ \A i \in DOMAIN o.out : own[o.out[i]] # None
  /\ \A i, j \in DOMAIN o.out : o.out[i] = o.out[j] => i = j
  /\ o.target # None /\ own[o.m] # None => \E i \in DOMAIN o.out : o.out[i] = o.m

Insertion(o) == <<[Command("import", o.m) EXCEPT !.files = CopyOf(o.m, kept')], Command("insert", o.m)>>

LEMMA InsertionTypes ==
  ASSUME NEW o \in Operations, o.m \in Media, kept' \in [Media -> Versions]
  PROVE  Insertion(o) \in Seq(PageMessages)
<1> DEFINE fs == CopyOf(o.m, kept')
<1>1. fs \in [Media -> Versions]
  BY NoFilesType DEF CopyOf
<1> HIDE DEF fs
<1> DEFINE a == [Command("import", o.m) EXCEPT !.files = fs]
           b == Command("insert", o.m)
<1>2. a \in PageMessages /\ b \in PageMessages
  BY <1>1, CommandTypes DEF Commands
<1> HIDE DEF a, b
<1>3. <<a, b>> \in Seq(PageMessages)
  BY <1>2
<1> QED
  BY <1>3 DEF a, b, fs, Insertion

\* The three outcomes of a transfer that goes on, and where it goes on.
Where(o, own)    == IF o.out # <<>> THEN own[Head(o.out)] ELSE o.target
Detaches(o, own) == o.out # <<>> /\ own[Head(o.out)] \in Devices
                    /\ Asks(own[Head(o.out)], <<>>, [o EXCEPT !.at = "saving"])
Inserts(o)       == o.out = <<>> /\ o.target \in Devices
                    /\ Asks(o.target, Insertion(o), [o EXCEPT !.at = "inserting"])
Ends(o, own)     == /\ op' = NoOp
                    /\ \/ o.out = <<>> /\ o.target = None /\ toPage' = toPage
                       \/ o.out # <<>> /\ Rejects(own[Head(o.out)], <<>>)
                       \/ o.out = <<>> /\ o.target # None /\ Rejects(o.target, Insertion(o))

LEMMA ProceedDoes ==
  ASSUME ChannelTypes, NEW o, NEW own, Plannable(o, own), kept' \in [Media -> Versions], Proceed(o, own)
  PROVE  /\ toPage' \in [Devices -> Seq(PageMessages)] /\ op' \in Operations /\ owner' = own
         /\ Planned'
         /\ Detaches(o, own) \/ Inserts(o) \/ Ends(o, own)
         /\ \A e \in Devices \ {Where(o, own)} : toPage'[e] = toPage[e]
<1> USE DEF Plannable
<1>1. owner' = own
  BY DEF Proceed
<1>2. toPage \in [Devices -> Seq(PageMessages)]
  BY DEF ChannelTypes
<1>3. CASE o.out # <<>>
  <2> DEFINE next == [o EXCEPT !.at = "saving"]
             d == own[Head(o.out)]
  <2>1. AskAfter(d, <<>>, next)
    BY <1>3 DEF Proceed
  <2>2. next \in Operations /\ next.at = "saving" /\ next.out = o.out /\ next.m = o.m
        /\ next.target = o.target
    BY DEF Operations
  <2>3. Head(o.out) = o.out[1] /\ 1 \in DOMAIN o.out /\ o.out[1] \in Media
    BY <1>3, OperationFields, TailFacts
  <2>4. d \in Devices /\ <<>> \in Seq(PageMessages)
    BY <2>3, EmptySeq
  <2> HIDE DEF next, d
  <2>5. /\ toPage' \in [Devices -> Seq(PageMessages)]
        /\ \A e \in Devices \ {d} : toPage'[e] = toPage[e]
        /\ op' \in Operations
        /\ Asks(d, <<>>, next) \/ Rejects(d, <<>>)
    BY <2>1, <2>2, <2>4, AskAfterDoes
  <2>6. CASE Asks(d, <<>>, next)
    <3>1. op'.at = "saving" /\ op'.out = o.out /\ op'.m = o.m /\ op'.from = d /\ op'.target = o.target
      BY <2>2, <2>6 DEF Asks
    <3>2. Planned'
      BY <1>1, <1>3, <3>1 DEF Planned, d
    <3>3. Detaches(o, own)
      BY <1>3, <2>4, <2>6 DEF Detaches, next, d
    <3>4. \A e \in Devices \ {Where(o, own)} : toPage'[e] = toPage[e]
      BY <1>3, <2>5 DEF d, Where
    <3> QED
      BY <1>1, <2>5, <3>2, <3>3, <3>4
  <2>7. CASE Rejects(d, <<>>)
    BY <1>1, <1>3, <2>5, <2>7, NoOpFields DEF Rejects, Planned, Ends, d, Where
  <2> QED
    BY <2>5, <2>6, <2>7
<1>4. CASE o.out = <<>> /\ o.target = None
  BY <1>1, <1>2, <1>4, NoOpFields DEF Proceed, Planned, Ends
<1>5. CASE o.out = <<>> /\ o.target # None
  <2> DEFINE next == [o EXCEPT !.at = "inserting"]
             d == o.target
             commands == Insertion(o)
  <2>1. AskAfter(d, commands, next)
    BY <1>5 DEF Proceed, Insert, Insertion
  <2>2. next \in Operations /\ next.at = "inserting" /\ next.out = o.out /\ next.m = o.m /\ next.target = o.target
    BY DEF Operations
  <2>3. d \in Devices /\ commands \in Seq(PageMessages)
    BY <1>5, OperationFields, InsertionTypes
  <2> HIDE DEF next, d, commands
  <2>4. /\ toPage' \in [Devices -> Seq(PageMessages)]
        /\ \A e \in Devices \ {d} : toPage'[e] = toPage[e]
        /\ op' \in Operations
        /\ Asks(d, commands, next) \/ Rejects(d, commands)
    BY <2>1, <2>2, <2>3, AskAfterDoes
  <2>5. CASE Asks(d, commands, next)
    <3>1. op'.at = "inserting" /\ op'.out = <<>> /\ op'.m = o.m /\ op'.from = d /\ op'.target = d
      BY <1>5, <2>2, <2>5 DEF Asks, d
    <3>2. Planned'
      BY <1>1, <1>5, <2>3, <3>1 DEF Planned
    <3>3. Inserts(o)
      BY <1>5, <2>3, <2>5 DEF Inserts, next, d, commands
    <3>4. \A e \in Devices \ {Where(o, own)} : toPage'[e] = toPage[e]
      BY <1>5, <2>4 DEF d, Where
    <3> QED
      BY <1>1, <2>4, <3>2, <3>3, <3>4
  <2>6. CASE Rejects(d, commands)
    <3>1. op' = NoOp
      BY <2>6 DEF Rejects
    <3>2. Planned'
      BY <3>1, NoOpFields DEF Planned
    <3>3. Ends(o, own)
      BY <1>5, <2>6, <3>1 DEF Ends, d, commands
    <3>4. \A e \in Devices \ {Where(o, own)} : toPage'[e] = toPage[e]
      BY <1>5, <2>4 DEF d, Where
    <3> QED
      BY <1>1, <2>4, <3>2, <3>3, <3>4
  <2> QED
    BY <2>4, <2>5, <2>6
<1> QED
  BY <1>3, <1>4, <1>5

LEMMA CurrentType ==
  ASSUME DeviceTypes, BenchTypes
  PROVE  Current \in [Media -> Versions]
<1>1. \A m \in Media : Bytes(m) \in Versions
  <2> TAKE m \in Media
  <2>1. CASE owner[m] = None
    BY <2>1 DEF Bytes, BenchTypes
  <2>2. CASE owner[m] # None
    BY <2>2, Fields DEF BenchTypes, Bytes
  <2> QED
    BY <2>1, <2>2
<1> QED
  BY <1>1 DEF Current

\* The user starts something: a transfer goes its first step, or a read begins,
\* or it is over at once.
Goes(o, own) ==
  /\ Plannable(o, own) /\ owner' = own
  /\ Detaches(o, own) \/ Inserts(o) \/ Ends(o, own)
  /\ \A e \in Devices \ {Where(o, own)} : toPage'[e] = toPage[e]
Reading == [NoOp EXCEPT !.at = "reading", !.m = SD]
Reads(commands) ==
  /\ owner[SD] \in Devices /\ owner' = owner /\ commands \in Seq(PageMessages)
  /\ Asks(owner[SD], commands, Reading) \/ Rejects(owner[SD], commands)
  /\ \A e \in Devices \ {owner[SD]} : toPage'[e] = toPage[e]
UserDoes ==
  /\ ~busy
  /\ UNCHANGED <<page, worker, toParent, toWorker, fromWorker, ready>>
  /\ \/ \E o \in Operations : Goes(o, owner)
     \/ op' = op /\ UNCHANGED <<owner, toPage>>
     \/ Reads(<<>>) \/ Reads(<<Command("edit", SD)>>)

LEMMA BeginDoes ==
  ASSUME Begin
  PROVE  ~busy /\ UNCHANGED <<page, worker, toParent, toWorker, fromWorker, ready>>
BY DEF Begin

\* A step of the gallery that leaves the devices alone keeps the types.
LEMMA BenchStepTypes ==
  ASSUME Types, UNCHANGED <<page, worker, toWorker, fromWorker>>, ready' \subseteq Devices,
         toParent' \in [Devices -> Seq(ParentMessages)],
         latest' \in [Media -> Versions], toPage' \in [Devices -> Seq(PageMessages)],
         op' \in Operations, owner' \in [Media -> Devices \cup {None}],
         kept' \in [Media -> Versions], base' \in [Media -> Versions], Planned'
  PROVE  Types'
BY DEF Types, DeviceTypes, ChannelTypes, BenchTypes

LEMMA StartTypes ==
  ASSUME Types, NEW o \in Operations, Plannable(o, owner), Proceed(o, owner), Begin, base' = Current,
         kept' = kept, latest' = latest
  PROVE  Types' /\ UserDoes
BY CurrentType, ProceedDoes, BeginDoes, BenchStepTypes DEF Types, BenchTypes, DeviceTypes, Goes,
   UserDoes, ChannelTypes

LEMMA EjectDoes ==
  ASSUME Types, NEW m \in Media, Eject(m)
  PROVE  Types' /\ UserDoes
<1> DEFINE o == [NoOp EXCEPT !.out = <<m>>, !.m = m]
<1>1. /\ Begin /\ base' = Current /\ owner[m] # None /\ kept' = kept /\ latest' = latest
      /\ Proceed(o, owner)
  BY DEF Eject
<1>2. <<m>> \in Seq(Media) /\ DOMAIN <<m>> = {1} /\ <<m>>[1] = m
  OBVIOUS
<1>3. o \in Operations /\ o.out = <<m>> /\ o.m = m /\ o.target = None
  BY <1>2, NoOpFields DEF Operations
<1> HIDE DEF o
<1>4. Plannable(o, owner)
  BY <1>1, <1>2, <1>3 DEF Plannable, Types, BenchTypes
<1> QED
  BY <1>1, <1>3, <1>4, StartTypes

LEMMA MoveDoes ==
  ASSUME Types, NEW m \in Media, NEW d \in Devices, Move(m, d)
  PROVE  Types' /\ UserDoes
<1>1. PICK first \in IF Occupant(m, d) = {} THEN {<<>>} ELSE {<<c>> : c \in Occupant(m, d)} :
        Proceed([NoOp EXCEPT !.out = first \o ToDetach(m), !.m = m, !.target = d], owner)
  BY DEF Move
<1> DEFINE out == first \o ToDetach(m)
           o == [NoOp EXCEPT !.out = out, !.m = m, !.target = d]
<1>2. Begin /\ base' = Current /\ owner[m] # d /\ kept' = kept /\ latest' = latest /\ Proceed(o, owner)
  BY <1>1 DEF Move
<1>3. first = <<>> \/ \E c \in Media : c # m /\ owner[c] = d /\ first = <<c>>
  BY <1>1 DEF Occupant, Media
<1>4. /\ out \in Seq(Media)
      /\ \A i \in DOMAIN out : owner[out[i]] # None
      /\ \A i, j \in DOMAIN out : out[i] = out[j] => i = j
      /\ owner[m] # None => \E i \in DOMAIN out : out[i] = m
  <2>1. CASE owner[m] = None
    <3>1. out = first
      BY <1>3, <2>1 DEF ToDetach
    <3> QED
      BY <1>3, <2>1, <3>1, DevicesAssumption
  <2>2. CASE owner[m] # None
    <3>1. ToDetach(m) = <<m>> /\ <<m>> \in Seq(Media) /\ Len(<<m>>) = 1 /\ <<m>>[1] = m
      BY <2>2 DEF ToDetach
    <3>2. CASE first = <<>>
      BY <2>2, <3>1, <3>2
    <3>3. ASSUME NEW c \in Media, c # m, owner[c] = d, first = <<c>>
          PROVE  /\ out \in Seq(Media)
                 /\ \A i \in DOMAIN out : owner[out[i]] # None
                 /\ \A i, j \in DOMAIN out : out[i] = out[j] => i = j
                 /\ \E i \in DOMAIN out : out[i] = m
      BY <2>2, <3>1, <3>3, ConcatProperties, DevicesAssumption
    <3> QED
      BY <1>3, <3>2, <3>3
  <2> QED
    BY <2>1, <2>2
<1> HIDE DEF out
<1>5. o \in Operations /\ o.out = out /\ o.m = m /\ o.target = d
  BY <1>4, NoOpFields DEF Operations
<1> HIDE DEF o
<1>6. Plannable(o, owner)
  BY <1>4, <1>5 DEF Plannable, Types, BenchTypes
<1> QED
  BY <1>2, <1>5, <1>6, StartTypes

LEMMA ResetDoes ==
  ASSUME Types, NEW c \in Cards, Reset(c)
  PROVE  Types' /\ UserDoes
<1>1. Begin /\ latest' = latest /\ c \in Media
  BY DEF Reset, Media
<1>2. CASE owner[c] = None
  <2>1. base' = [Current EXCEPT ![c] = 0] /\ kept' = [kept EXCEPT ![c] = 0] /\ UNCHANGED <<owner, op, toPage>>
    BY <1>2 DEF Reset
  <2>2. base' \in [Media -> Versions] /\ kept' \in [Media -> Versions]
    BY <2>1, CurrentType DEF Types, BenchTypes, Versions
  <2>3. Types'
    BY <1>1, <2>1, <2>2, BeginDoes DEF Types, DeviceTypes, ChannelTypes, BenchTypes, Planned
  <2> QED
    BY <1>1, <2>1, <2>3, BeginDoes DEF UserDoes
<1>3. CASE owner[c] # None
  <2> DEFINE o == [NoOp EXCEPT !.out = <<c>>, !.m = c, !.wipe = TRUE]
  <2>1. base' = Current /\ kept' = kept /\ Proceed(o, owner)
    BY <1>3 DEF Reset
  <2>2. <<c>> \in Seq(Media) /\ DOMAIN <<c>> = {1} /\ <<c>>[1] = c
    BY <1>1
  <2>3. o \in Operations /\ o.out = <<c>> /\ o.m = c /\ o.target = None
    BY <1>1, <2>2, NoOpFields DEF Operations
  <2> HIDE DEF o
  <2>4. Plannable(o, owner)
    BY <1>1, <1>3, <2>2, <2>3 DEF Plannable, Types, BenchTypes
  <2> QED
    BY <1>1, <2>1, <2>3, <2>4, StartTypes
<1> QED
  BY <1>2, <1>3

\* Edit and Refresh of an inserted SD card.
LEMMA ReadTypes ==
  ASSUME Types, Begin, base' = Current, owner[SD] # None, UNCHANGED <<owner, kept, latest>>,
         NEW commands \in Seq(PageMessages), AskAfter(owner[SD], commands, Reading)
  PROVE  Types' /\ ~busy /\ UNCHANGED <<page, worker, toParent, toWorker, fromWorker, ready>> /\ Reads(commands)
<1>1. owner[SD] \in Devices
  BY DEF Types, BenchTypes, Media
<1>2. Reading \in Operations /\ Reading.at = "reading" /\ Reading.m = SD /\ Reading.out = <<>>
      /\ Reading.target = None
  BY NoOpFields DEF Reading, Operations, Media
<1>3. /\ toPage' \in [Devices -> Seq(PageMessages)]
      /\ \A e \in Devices \ {owner[SD]} : toPage'[e] = toPage[e]
      /\ op' \in Operations
      /\ Asks(owner[SD], commands, Reading) \/ Rejects(owner[SD], commands)
  BY <1>1, <1>2, AskAfterDoes DEF Types
<1>4. Planned'
  <2>1. CASE Asks(owner[SD], commands, Reading)
    BY <1>2, <2>1 DEF Asks, Planned
  <2>2. CASE Rejects(owner[SD], commands)
    BY <2>2, NoOpFields DEF Rejects, Planned
  <2> QED
    BY <1>3, <2>1, <2>2
<1>5. Reads(commands)
  BY <1>1, <1>3 DEF Reads
<1>6. UNCHANGED <<page, worker, toParent, toWorker, fromWorker, ready>> /\ ~busy
  BY BeginDoes
<1>7. owner' \in [Media -> Devices \cup {None}] /\ ready' \subseteq Devices
      /\ kept' \in [Media -> Versions] /\ base' \in [Media -> Versions] /\ latest' \in [Media -> Versions]
      /\ toParent' \in [Devices -> Seq(ParentMessages)]
  BY <1>6, CurrentType DEF Types, BenchTypes, ChannelTypes, DeviceTypes
<1>8. Types'
  BY <1>3, <1>4, <1>6, <1>7, BenchStepTypes
<1> QED
  BY <1>5, <1>6, <1>8

LEMMA EditDoes ==
  ASSUME Types, Edit
  PROVE  Types' /\ UserDoes
<1>1. Begin /\ base' = Current /\ UNCHANGED owner
  BY DEF Edit
<1>2. CASE owner[SD] = None
  <2>1. /\ kept' = [kept EXCEPT ![SD] = NewVersion(SD)] /\ latest' = [latest EXCEPT ![SD] = NewVersion(SD)]
        /\ UNCHANGED <<op, toPage>>
    BY <1>2 DEF Edit
  <2>2. NewVersion(SD) \in Versions
    BY DEF NewVersion, Types, DeviceTypes, Versions, Media
  <2>3. kept' \in [Media -> Versions] /\ latest' \in [Media -> Versions] /\ base' \in [Media -> Versions]
    BY <1>1, <2>1, <2>2, CurrentType DEF Types, BenchTypes, DeviceTypes
  <2>4. Types'
    BY <1>1, <2>1, <2>3, BeginDoes DEF Types, DeviceTypes, ChannelTypes, BenchTypes, Planned
  <2> QED
    BY <1>1, <2>1, <2>4, BeginDoes DEF UserDoes
<1>3. CASE owner[SD] # None
  <2> DEFINE commands == <<Command("edit", SD)>>
  <2>1. UNCHANGED <<kept, latest>> /\ AskAfter(owner[SD], commands, Reading)
    BY <1>3 DEF Edit, Reading
  <2>2. commands \in Seq(PageMessages)
    <3>1. Command("edit", SD) \in PageMessages
      BY CommandTypes, NoFilesType DEF Commands, Media
    <3> QED
      BY <3>1
  <2> HIDE DEF commands
  <2>3. Types' /\ ~busy /\ UNCHANGED <<page, worker, toParent, toWorker, fromWorker, ready>> /\ Reads(commands)
    BY <1>1, <1>3, <2>1, <2>2, ReadTypes
  <2> QED
    BY <2>3 DEF UserDoes, commands
<1> QED
  BY <1>2, <1>3

LEMMA RefreshDoes ==
  ASSUME Types, Refresh
  PROVE  Types' /\ UserDoes
BY EmptySeq, ReadTypes DEF Refresh, Reading, UserDoes

\* The answer the operation waits for is heard.
Answered(d, at) ==
  /\ busy /\ op.at = at /\ op.from = d /\ op.id = toParent[d][1].id
  /\ toParent[d] # <<>> /\ toParent[d][1].type = "snapshot" /\ toParent'[d] = Tail(toParent[d])
  /\ \A e \in Devices \ {d} : toParent'[e] = toParent[e]
  /\ UNCHANGED <<page, worker, toWorker, fromWorker, latest, ready>>

LEMMA ContinuesDoes ==
  ASSUME Types, NEW d \in Devices, NEW at, Continues(d, at)
  PROVE  /\ Answered(d, at) /\ toParent' \in [Devices -> Seq(ParentMessages)]
         /\ base' \in [Media -> Versions]
         /\ Answer(d) \in [Media -> Versions]
<1>1. /\ toParent[d] # <<>> /\ Head(toParent[d]).type = "snapshot" /\ toParent' = Take(toParent, d)
      /\ busy /\ op.from = d /\ op.id = Head(toParent[d]).id /\ op.at = at
      /\ base' = IF at = "clearing" /\ op.wipe THEN [base EXCEPT ![op.m] = 0] ELSE base
      /\ UNCHANGED <<page, worker, toWorker, fromWorker, latest, ready>>
  BY DEF Continues, Hears, Has, Answers
<1>2. /\ toParent' \in [Devices -> Seq(ParentMessages)] /\ toParent'[d] = Tail(toParent[d])
      /\ \A e \in Devices \ {d} : toParent'[e] = toParent[e]
      /\ Head(toParent[d]) = toParent[d][1] /\ Head(toParent[d]) \in ParentMessages
  BY <1>1, ToParentTaken DEF Types
<1>3. Answered(d, at)
  BY <1>1, <1>2 DEF Answered
<1>4. base' \in [Media -> Versions]
  BY <1>1 DEF Types, BenchTypes, Versions
<1>5. Answer(d) \in [Media -> Versions]
  BY <1>2 DEF Answer, ParentMessages, Message
<1> QED
  BY <1>2, <1>3, <1>4, <1>5

\* detach removes a medium from a device.
Removal(m) == <<Command("eject", m), Command("remove", m)>>

LEMMA RemovalTypes ==
  ASSUME NEW m \in Media
  PROVE  Removal(m) \in Seq(PageMessages)
<1> DEFINE a == Command("eject", m)
           b == Command("remove", m)
<1>1. a \in PageMessages /\ b \in PageMessages
  BY CommandTypes, NoFilesType DEF Commands
<1> HIDE DEF a, b
<1>2. <<a, b>> \in Seq(PageMessages)
  BY <1>1
<1> QED
  BY <1>2 DEF a, b, Removal

Clearing == [op EXCEPT !.at = "clearing"]
SavedDo(d) ==
  /\ Answered(d, "saving") /\ owner' = owner /\ op.out # <<>> /\ Head(op.out) \in Media
  /\ d = owner[Head(op.out)]
  /\ Asks(d, Removal(Head(op.out)), Clearing) \/ Rejects(d, Removal(Head(op.out)))
  /\ \A e \in Devices \ {d} : toPage'[e] = toPage[e]

LEMMA SavedDoes ==
  ASSUME Types, NEW d \in Devices, Saved(d)
  PROVE  Types' /\ SavedDo(d)
<1> DEFINE m == Head(op.out)
<1>1. /\ Continues(d, "saving") /\ kept' = [kept EXCEPT ![m] = Answer(d)[m]]
      /\ AskAfter(d, Removal(m), Clearing) /\ UNCHANGED owner
  BY DEF Saved, Removal, Clearing
<1>2. /\ Answered(d, "saving") /\ toParent' \in [Devices -> Seq(ParentMessages)]
      /\ base' \in [Media -> Versions] /\ Answer(d) \in [Media -> Versions]
  BY <1>1, ContinuesDoes
<1>3. op.at = "saving" /\ op.from = d /\ op.out # <<>> /\ op.out \in Seq(Media) /\ d = owner[m]
  BY <1>2, OperationFields DEF Answered, Types, BenchTypes, Planned
<1>4. m \in Media
  BY <1>3, TailFacts
<1>5. Clearing \in Operations /\ Clearing.at = "clearing" /\ Clearing.out = op.out /\ Clearing.m = op.m
      /\ Clearing.target = op.target
  BY DEF Clearing, Types, BenchTypes, Operations
<1>6. Removal(m) \in Seq(PageMessages)
  BY <1>4, RemovalTypes
<1> HIDE DEF m
<1>7. /\ toPage' \in [Devices -> Seq(PageMessages)]
      /\ \A e \in Devices \ {d} : toPage'[e] = toPage[e]
      /\ op' \in Operations
      /\ Asks(d, Removal(m), Clearing) \/ Rejects(d, Removal(m))
  BY <1>1, <1>5, <1>6, AskAfterDoes DEF Types
<1>8. Planned'
  <2>1. CASE Asks(d, Removal(m), Clearing)
    <3>1. op'.at = "clearing" /\ op'.out = op.out /\ op'.m = op.m /\ op'.from = d /\ op'.target = op.target
      BY <1>5, <2>1 DEF Asks
    <3> QED
      BY <1>1, <1>3, <3>1 DEF Planned, Types, m
  <2>2. CASE Rejects(d, Removal(m))
    BY <2>2, NoOpFields DEF Rejects, Planned
  <2> QED
    BY <1>7, <2>1, <2>2
<1>9. /\ UNCHANGED <<page, worker, toWorker, fromWorker>> /\ ready' \subseteq Devices
      /\ latest' \in [Media -> Versions] /\ owner' \in [Media -> Devices \cup {None}]
      /\ kept' \in [Media -> Versions]
  BY <1>1, <1>2, <1>4 DEF Answered, Types, BenchTypes, DeviceTypes
<1>10. Types'
  BY <1>2, <1>7, <1>8, <1>9, BenchStepTypes
<1> QED
  BY <1>1, <1>2, <1>3, <1>4, <1>7, <1>10 DEF SavedDo, m

Rest      == [op EXCEPT !.out = Tail(@)]
Abroad(m) == [owner EXCEPT ![m] = None]
ClearedDo(d) ==
  /\ Answered(d, "clearing") /\ op.out # <<>> /\ Head(op.out) \in Media
  /\ d = owner[Head(op.out)] /\ Goes(Rest, Abroad(Head(op.out)))

LEMMA ClearedDoes ==
  ASSUME Types, NEW d \in Devices, Cleared(d)
  PROVE  Types' /\ ClearedDo(d)
<1> DEFINE m == Head(op.out)
           own == Abroad(m)
           o == Rest
<1>1. /\ Continues(d, "clearing")
      /\ kept' = IF op.wipe THEN [kept EXCEPT ![op.m] = 0] ELSE kept
      /\ Proceed(o, own)
  BY DEF Cleared, Rest, Abroad
<1>2. /\ Answered(d, "clearing") /\ toParent' \in [Devices -> Seq(ParentMessages)]
      /\ base' \in [Media -> Versions]
  BY <1>1, ContinuesDoes
<1>3. op \in Operations /\ op.at = "clearing" /\ op.from = d /\ op.out # <<>> /\ op.out \in Seq(Media)
      /\ op.m \in Media /\ d = owner[m]
  BY <1>2, OperationFields DEF Answered, Types, BenchTypes, Planned
<1>4. /\ m = op.out[1] /\ m \in Media /\ Tail(op.out) \in Seq(Media)
      /\ Len(op.out) \in Nat \ {0} /\ Len(Tail(op.out)) = Len(op.out) - 1
      /\ \A i \in 1..(Len(op.out) - 1) : Tail(op.out)[i] = op.out[i + 1]
  BY <1>3, TailFacts
<1>5. o \in Operations /\ o.out = Tail(op.out) /\ o.m = op.m /\ o.target = op.target
  BY <1>3, <1>4 DEF Operations, Rest
<1>6. /\ own \in [Media -> Devices \cup {None}] /\ own[m] = None
      /\ \A n \in Media \ {m} : own[n] = owner[n]
  BY <1>4 DEF Types, BenchTypes, Abroad
<1>7. /\ DOMAIN op.out = 1..Len(op.out) /\ DOMAIN Tail(op.out) = 1..(Len(op.out) - 1)
      /\ \A i \in DOMAIN op.out : op.out[i] \in Media
  BY <1>3, <1>4
<1>8. /\ \A i \in DOMAIN op.out : owner[op.out[i]] # None
      /\ \A i, j \in DOMAIN op.out : op.out[i] = op.out[j] => i = j
      /\ op.target # None /\ owner[op.m] # None => \E i \in DOMAIN op.out : op.out[i] = op.m
  BY DEF Types, Planned
<1>9. \A i \in DOMAIN o.out : /\ i + 1 \in DOMAIN op.out /\ o.out[i] = op.out[i + 1]
                              /\ op.out[i + 1] # m /\ o.out[i] \in Media
  BY <1>4, <1>5, <1>7, <1>8
<1> HIDE DEF m, own, o
<1>10. Plannable(o, own)
  <2>1. \A i \in DOMAIN o.out : own[o.out[i]] # None
    BY <1>6, <1>8, <1>9
  <2>2. \A i, j \in DOMAIN o.out : o.out[i] = o.out[j] => i = j
    BY <1>4, <1>5, <1>7, <1>8, <1>9
  <2>3. ASSUME o.target # None, own[o.m] # None
        PROVE  \E i \in DOMAIN o.out : o.out[i] = o.m
    <3>1. op.m # m /\ owner[op.m] # None
      BY <1>3, <1>5, <1>6, <2>3
    <3>2. PICK i \in DOMAIN op.out : op.out[i] = op.m
      BY <1>5, <1>8, <2>3, <3>1
    <3> DEFINE k == i - 1
    <3>3. i # 1 /\ i \in 1..Len(op.out) /\ Len(op.out) \in Nat
      BY <1>4, <1>7, <3>1, <3>2
    <3>4. k \in 1..(Len(op.out) - 1) /\ k + 1 = i
      BY <3>3
    <3>5. k \in DOMAIN o.out /\ o.out[k] = op.out[i]
      BY <1>4, <1>5, <1>7, <3>4
    <3> QED
      BY <1>5, <3>2, <3>5
  <2> QED
    BY <1>3, <1>5, <1>6, <2>1, <2>2, <2>3 DEF Plannable
<1>11. kept' \in [Media -> Versions]
  BY <1>1, <1>3 DEF Types, BenchTypes, Versions
<1>12. /\ toPage' \in [Devices -> Seq(PageMessages)] /\ op' \in Operations /\ owner' = own
       /\ Planned'
       /\ Detaches(o, own) \/ Inserts(o) \/ Ends(o, own)
       /\ \A e \in Devices \ {Where(o, own)} : toPage'[e] = toPage[e]
  BY <1>1, <1>10, <1>11, ProceedDoes DEF Types
<1>13. /\ UNCHANGED <<page, worker, toWorker, fromWorker>> /\ ready' \subseteq Devices
       /\ latest' \in [Media -> Versions] /\ owner' \in [Media -> Devices \cup {None}]
  BY <1>2, <1>6, <1>12 DEF Answered, Types, BenchTypes, DeviceTypes
<1>14. Types'
  BY <1>2, <1>11, <1>12, <1>13, BenchStepTypes
<1> QED
  BY <1>2, <1>3, <1>4, <1>10, <1>12, <1>14 DEF ClearedDo, Goes, m, own, o

InsertedDo(d) ==
  /\ Answered(d, "inserting") /\ op.m \in Media /\ owner' = [owner EXCEPT ![op.m] = d]
  /\ op' = NoOp /\ UNCHANGED toPage
ReadDo(d) ==
  Answered(d, "reading") /\ op' = NoOp /\ UNCHANGED <<owner, toPage>>

LEMMA InsertedDoes ==
  ASSUME Types, NEW d \in Devices, Inserted(d)
  PROVE  Types' /\ InsertedDo(d)
<1>1. /\ Continues(d, "inserting") /\ kept' = [kept EXCEPT ![op.m] = Answer(d)[op.m]]
      /\ owner' = [owner EXCEPT ![op.m] = d] /\ op' = NoOp /\ UNCHANGED toPage
  BY DEF Inserted
<1>2. /\ Answered(d, "inserting") /\ toParent' \in [Devices -> Seq(ParentMessages)]
      /\ base' \in [Media -> Versions] /\ Answer(d) \in [Media -> Versions]
  BY <1>1, ContinuesDoes
<1>3. op.m \in Media
  BY <1>2 DEF Answered, Types, Planned
<1>4. Planned'
  BY <1>1, NoOpFields DEF Planned
<1>5. /\ UNCHANGED <<page, worker, toWorker, fromWorker>> /\ ready' \subseteq Devices
      /\ latest' \in [Media -> Versions] /\ owner' \in [Media -> Devices \cup {None}]
      /\ kept' \in [Media -> Versions] /\ op' \in Operations
      /\ toPage' \in [Devices -> Seq(PageMessages)]
  BY <1>1, <1>2, <1>3, NoOpFields DEF Answered, Types, BenchTypes, DeviceTypes, ChannelTypes
<1>6. Types'
  BY <1>2, <1>4, <1>5, BenchStepTypes
<1> QED
  BY <1>1, <1>2, <1>3, <1>6 DEF InsertedDo

LEMMA ReadDoes ==
  ASSUME Types, NEW d \in Devices, Read(d)
  PROVE  Types' /\ ReadDo(d)
<1>1. /\ Continues(d, "reading") /\ kept' = [kept EXCEPT ![op.m] = Answer(d)[op.m]]
      /\ op' = NoOp /\ UNCHANGED <<owner, toPage>>
  BY DEF Read
<1>2. /\ Answered(d, "reading") /\ toParent' \in [Devices -> Seq(ParentMessages)]
      /\ base' \in [Media -> Versions] /\ Answer(d) \in [Media -> Versions]
  BY <1>1, ContinuesDoes
<1>3. op.m \in Media
  BY <1>2 DEF Answered, Types, Planned, Media
<1>4. Planned'
  BY <1>1, NoOpFields DEF Planned
<1>5. /\ UNCHANGED <<page, worker, toWorker, fromWorker>> /\ ready' \subseteq Devices
      /\ latest' \in [Media -> Versions] /\ owner' \in [Media -> Devices \cup {None}]
      /\ kept' \in [Media -> Versions] /\ op' \in Operations
      /\ toPage' \in [Devices -> Seq(PageMessages)]
  BY <1>1, <1>2, <1>3, NoOpFields DEF Answered, Types, BenchTypes, DeviceTypes, ChannelTypes
<1>6. Types'
  BY <1>2, <1>4, <1>5, BenchStepTypes
<1> QED
  BY <1>1, <1>2, <1>6 DEF ReadDo

StateDo(d) ==
  /\ toParent[d] # <<>> /\ toParent'[d] = Tail(toParent[d])
  /\ \A e \in Devices \ {d} : toParent'[e] = toParent[e]
  /\ \/ toParent[d][1].type = "running" /\ ready' = ready \cup {d}
     \/ toParent[d][1].type = "restarting" /\ ready' = ready \ {d}
     \/ toParent[d][1].type = "error" /\ ready' = ready \ {d}
  /\ UNCHANGED <<page, worker, toPage, toWorker, fromWorker, owner, op>>

LEMMA StateDoes ==
  ASSUME Types, NEW d \in Devices, HearsState(d)
  PROVE  Types' /\ StateDo(d)
BY ToParentTaken DEF HearsState, Hears, Has, Types, DeviceTypes, ChannelTypes, BenchTypes, Planned,
   StateDo

LEMMA StaleDoes ==
  ASSUME Types, NEW d \in Devices, HearsStale(d)
  PROVE  /\ Types' /\ toParent[d] # <<>> /\ toParent[d][1].type = "snapshot"
         /\ ~(busy /\ op.from = d /\ op.id = toParent[d][1].id)
<1>1. /\ toParent[d] # <<>> /\ Head(toParent[d]).type = "snapshot" /\ toParent' = Take(toParent, d)
      /\ ~(busy /\ op.from = d /\ op.id = Head(toParent[d]).id)
      /\ UNCHANGED <<page, worker, toPage, toWorker, fromWorker, latest, bench, upsets>>
  BY DEF HearsStale, Hears, Has, Answers
<1>2. /\ toParent' \in [Devices -> Seq(ParentMessages)]
      /\ Head(toParent[d]) = toParent[d][1]
  BY <1>1, ToParentTaken DEF Types
<1>3. Types'
  BY <1>1, <1>2 DEF Types, DeviceTypes, ChannelTypes, BenchTypes, Planned, bench
<1> QED
  BY <1>1, <1>2, <1>3

LEMMA ButtonDoes ==
  ASSUME Types, NEW d \in Devices, RestartButton(d)
  PROVE  /\ Types' /\ ready' = ready \ {d} /\ toPage'[d] = Append(toPage[d], Plain("restart"))
         /\ Elsewhere(d) /\ UNCHANGED <<page, worker, toParent, toWorker, fromWorker, owner, op>>
<1>1. /\ ready' = ready \ {d} /\ toPage' = Post(toPage, d, Plain("restart")) /\ base' = Current
      /\ UNCHANGED <<page, worker, toParent, toWorker, fromWorker, latest, owner, kept, op, ops>>
  BY DEF RestartButton
<1>2. Plain("restart") \in PageMessages
  BY PlainTypes
<1>3. /\ toPage' \in [Devices -> Seq(PageMessages)] /\ toPage'[d] = Append(toPage[d], Plain("restart"))
      /\ \A e \in Devices \ {d} : toPage'[e] = toPage[e]
  BY <1>1, <1>2, ToPagePosted DEF Types
<1>4. base' \in [Media -> Versions]
  BY <1>1, CurrentType DEF Types
<1>5. Types'
  BY <1>1, <1>3, <1>4 DEF Types, DeviceTypes, ChannelTypes, BenchTypes, Planned
<1> QED
  BY <1>1, <1>3, <1>5 DEF Elsewhere, Same

\* A step of a page and its worker, and nothing else.
LEMMA DeviceKeepsTypes ==
  ASSUME Types, NEW d \in Devices, DeviceTypes', ChannelTypes', UNCHANGED <<bench, upsets>>
  PROVE  Types'
BY DEF Types, BenchTypes, Planned, bench

LEMMA DeviceStepTypes ==
  ASSUME Types, NEW d \in Devices, Device(d)
  PROVE  Types' /\ Elsewhere(d) /\ UNCHANGED <<bench, upsets>>
<1> USE DEF Types
<1>1. UNCHANGED <<bench, upsets>> /\ (PageSteps(d) \/ WorkerSteps(d))
  BY DEF Device
<1>2. CASE PageProvided(d)
  BY <1>1, <1>2, ProvidedDoes, DeviceKeepsTypes
<1>3. CASE PageExports(d)
  BY <1>1, <1>3, ExportsDoes, DeviceKeepsTypes
<1>4. CASE PageForwards(d)
  BY <1>1, <1>4, ForwardsDoes, DeviceKeepsTypes
<1>5. CASE PageRestarts(d)
  BY <1>1, <1>5, RestartsDoes, DeviceKeepsTypes
<1>6. CASE PageReboots(d)
  BY <1>1, <1>6, RebootsDoes, DeviceKeepsTypes
<1>7. CASE PageSeesRunning(d)
  BY <1>1, <1>7, SeesRunningDoes, DeviceKeepsTypes
<1>8. CASE PageSeesSd(d)
  BY <1>1, <1>8, SeesSdDoes, DeviceKeepsTypes
<1>9. CASE PageSeesCard(d)
  BY <1>1, <1>9, SeesCardDoes, DeviceKeepsTypes
<1>10. CASE PageSnapshot(d)
  BY <1>1, <1>10, SnapshotDoes, DeviceKeepsTypes
<1>11. CASE PageStarts(d)
  BY <1>1, <1>11, StartsDoes, DeviceKeepsTypes
<1>12. ASSUME NEW a \in page[d].asked, PageTimeout(d, a)
       PROVE  Types' /\ Elsewhere(d)
  BY <1>1, <1>12, TimeoutDoes, DeviceKeepsTypes
<1>13. CASE WorkerReady(d)
  BY <1>1, <1>13, ReadyDoes, DeviceKeepsTypes
<1>14. CASE WorkerRuns(d)
  BY <1>1, <1>14, RunsDoes, DeviceKeepsTypes
<1>15. CASE WorkerHandles(d)
  BY <1>1, <1>15, HandlesDoes, DeviceKeepsTypes
<1> QED
  BY <1>1, <1>2, <1>3, <1>4, <1>5, <1>6, <1>7, <1>8, <1>9, <1>10, <1>11, <1>12, <1>13, <1>14, <1>15
     DEF PageSteps, WorkerSteps

LEMMA UserTypes ==
  ASSUME Types, User
  PROVE  Types' /\ UserDoes
BY EjectDoes, MoveDoes, ResetDoes, EditDoes, RefreshDoes DEF User

LEMMA InterruptionTypes ==
  ASSUME Types, NEW d \in Devices, Interruption(d)
  PROVE  Types'
<1>1. CASE RestartButton(d)
  BY <1>1, ButtonDoes
<1>2. CASE Reboot(d)
  BY <1>2, CurrentType, FirmwareRebootsDoes DEF Reboot, Types, BenchTypes, Planned
<1>3. CASE Reload(d)
  BY <1>3, ReloadDoes DEF Types, BenchTypes, Planned
<1>4. ASSUME NEW retries \in BOOLEAN, Crash(d, retries)
      PROVE  Types'
  BY <1>4, CrashesDoes, Fields DEF Crash, Types, BenchTypes, Planned
<1> QED
  BY <1>1, <1>2, <1>3, <1>4 DEF Interruption

LEMMA BenchTypesKept ==
  ASSUME Types, NEW d \in Devices, Bench(d)
  PROVE  Types'
<1>1. CASE HearsAwaiting(d)
  BY <1>1, AwaitingDoes DEF Types, BenchTypes, Planned, bench
<1> QED
  BY <1>1, StateDoes, StaleDoes, SavedDoes, ClearedDoes, InsertedDoes, ReadDoes DEF Bench

LEMMA TypesInit == Init => Types
<1> SUFFICES ASSUME Init
             PROVE  Types
  OBVIOUS
<1>1. LoadedPage \in PageStates /\ NoWorker \in WorkerStates
  BY NoFilesType DEF LoadedPage, NoWorker, PageStates, WorkerStates, Dues
<1>2. Plain("awaiting") \in ParentMessages
  BY PlainTypes
<1>3. <<Plain("awaiting")>> \in Seq(ParentMessages)
  BY <1>2
<1>4. DeviceTypes
  BY <1>1 DEF Init, PageInit, DeviceTypes, Versions
<1>5. ChannelTypes
  BY <1>3, EmptySeq DEF Init, PageInit, ChannelTypes
<1>6. BenchTypes /\ Planned
  BY NoFilesType, NoOpFields DEF Init, BenchTypes, Planned
<1> QED
  BY <1>4, <1>5, <1>6 DEF Types

LEMMA TypesKept ==
  ASSUME Types, [Next]_vars
  PROVE  Types'
<1>1. CASE User
  BY <1>1, UserTypes
<1>2. CASE Expires
  BY <1>2, NoOpFields
     DEF Expires, pageVars, channels, Types, DeviceTypes, ChannelTypes, BenchTypes, Planned
<1>3. ASSUME NEW d \in Devices, Bench(d)
      PROVE  Types'
  BY <1>3, BenchTypesKept
<1>4. ASSUME NEW d \in Devices, Device(d)
      PROVE  Types'
  BY <1>4, DeviceStepTypes
<1>5. ASSUME NEW d \in Devices, Firmware(d)
      PROVE  Types'
  BY <1>5, WritesDoes, DeviceKeepsTypes DEF Firmware, Types
<1>6. ASSUME NEW d \in Devices, Interruption(d)
      PROVE  Types'
  BY <1>6, InterruptionTypes
<1>7. CASE UNCHANGED vars
  BY <1>7 DEF vars, pageVars, channels, bench, Types, DeviceTypes, ChannelTypes, BenchTypes, Planned
<1> QED
  BY <1>1, <1>2, <1>3, <1>4, <1>5, <1>6, <1>7 DEF Next

LEMMA TypesHold == Spec => []Types
BY TypesInit, TypesKept, PTL DEF Spec

\* Every message, every entry of a page's snapshots, and the operation that is
\* under way have the shape the handlers read, so none of them meets a field
\* that is not there.
THEOREM TypeCorrect == Spec => []TypeOK
<1>1. Types => TypeOK
  BY DEF Types, DeviceTypes, BenchTypes, PageStates, WorkerStates, Requests, TypeOK, Operations
<1> QED
  BY <1>1, TypesHold, PTL

-----------------------------------------------------------------------------
(* Where a device is in its life.  The interruptions come one at a time and *)
(* not during a transfer, and a running worker answers in time.             *)
In(s) == {s[i] : i \in DOMAIN s}

\* Every message of A has one of B behind it; or no message of B has one of A
\* in front of it.
Behind(s, A, B) == \A i \in DOMAIN s : s[i] \in A => \E j \in DOMAIN s : j > i /\ s[j] \in B
Never(s, A, B)  == \A i, j \in DOMAIN s : i < j => ~(s[i] \in A /\ s[j] \in B)

Messages  == PageMessages \cup ParentMessages \cup WorkerMessages \cup Reports
Of(types) == {c \in Messages : c.type \in types}
Snap(id)  == {c \in Messages : c.type = "snapshot" /\ c.id = id}
No(s, A)  == \A c \in In(s) : c \notin A

\* What the shapes of a channel become when its first message is taken, or
\* message x is posted.
Pops(S, s, t) ==
  /\ In(s) = {s[1]} \cup In(t) /\ In(s) \subseteq S
  /\ \A A : No(s, A) <=> s[1] \notin A /\ No(t, A)
  /\ \A A, B : Behind(s, A, B) => Behind(t, A, B) /\ (s[1] \in A => ~No(t, B))
  /\ \A A, B : Never(s, A, B) => Never(t, A, B) /\ (s[1] \in A => No(t, B))
Pushes(S, s, t, x) ==
  /\ In(t) = In(s) \cup {x} /\ In(s) \subseteq S /\ t # <<>>
  /\ \A A : No(t, A) <=> No(s, A) /\ x \notin A
  /\ \A A, B : Behind(s, A, B) /\ x \notin A => Behind(t, A, B)
  /\ \A A, B : x \in B /\ x \notin A => Behind(t, A, B)
  /\ \A A, B : Never(s, A, B) /\ (x \notin B \/ No(s, A)) => Never(t, A, B)

LEMMA Popped ==
  ASSUME NEW S, NEW s \in Seq(S), s # <<>>, NEW t, t = Tail(s)
  PROVE  Pops(S, s, t)
<1>1. /\ Len(s) \in Nat \ {0} /\ Len(t) = Len(s) - 1 /\ t \in Seq(S)
      /\ \A i \in 1..(Len(s) - 1) : t[i] = s[i + 1]
  BY TailFacts
<1>2. DOMAIN s = 1..Len(s) /\ DOMAIN t = 1..(Len(s) - 1)
  BY <1>1
<1>3. \A i \in DOMAIN t : i + 1 \in DOMAIN s /\ i + 1 > 1 /\ i \in Nat /\ t[i] = s[i + 1]
  BY <1>1, <1>2
<1>4. \A j \in DOMAIN s : j \in Nat /\ (j = 1 \/ (j > 1 /\ j - 1 \in DOMAIN t /\ s[j] = t[j - 1]))
  BY <1>1, <1>2
<1>5. 1 \in DOMAIN s
  BY <1>1, <1>2
<1>6. In(s) = {s[1]} \cup In(t)
  <2>1. In(s) \subseteq {s[1]} \cup In(t)
    BY <1>4 DEF In
  <2>2. {s[1]} \cup In(t) \subseteq In(s)
    BY <1>3, <1>5 DEF In
  <2> QED
    BY <2>1, <2>2
<1>7. In(s) \subseteq S
  BY DEF In
<1>8. ASSUME NEW A
      PROVE  No(s, A) <=> s[1] \notin A /\ No(t, A)
  BY <1>6 DEF No
<1>9. ASSUME NEW A, NEW B, Behind(s, A, B)
      PROVE  Behind(t, A, B) /\ (s[1] \in A => ~No(t, B))
  <2>1. ASSUME NEW i \in DOMAIN t, t[i] \in A
        PROVE  \E j \in DOMAIN t : j > i /\ t[j] \in B
    <3>1. i + 1 \in DOMAIN s /\ s[i + 1] \in A /\ i \in Nat /\ i + 1 > 1
      BY <1>3, <2>1
    <3>2. PICK j \in DOMAIN s : j > i + 1 /\ s[j] \in B
      BY <1>9, <3>1 DEF Behind
    <3>3. j \in Nat /\ j # 1 /\ j - 1 \in DOMAIN t /\ s[j] = t[j - 1] /\ j - 1 > i
      BY <1>4, <3>1, <3>2
    <3> QED
      BY <3>2, <3>3
  <2>2. ASSUME s[1] \in A
        PROVE  ~No(t, B)
    BY <1>4, <1>5, <1>9, <2>2 DEF Behind, No, In
  <2> QED
    BY <2>1, <2>2 DEF Behind
<1>10. ASSUME NEW A, NEW B, Never(s, A, B)
       PROVE  Never(t, A, B) /\ (s[1] \in A => No(t, B))
  <2>1. ASSUME NEW i \in DOMAIN t, NEW j \in DOMAIN t, i < j, t[i] \in A, t[j] \in B
        PROVE  FALSE
    BY <1>3, <1>10, <2>1 DEF Never
  <2>2. ASSUME s[1] \in A, NEW j \in DOMAIN t, t[j] \in B
        PROVE  FALSE
    BY <1>3, <1>5, <1>10, <2>2 DEF Never
  <2> QED
    BY <2>1, <2>2 DEF Never, No, In
<1> QED
  BY <1>6, <1>7, <1>8, <1>9, <1>10 DEF Pops

LEMMA Pushed ==
  ASSUME NEW S, NEW s \in Seq(S), NEW x \in S, NEW t, t = Append(s, x)
  PROVE  Pushes(S, s, t, x)
<1>1. /\ Len(s) \in Nat /\ Len(t) = Len(s) + 1 /\ t \in Seq(S) /\ t # <<>>
      /\ \A i \in 1..Len(s) : t[i] = s[i]
      /\ t[Len(s) + 1] = x
  BY AppendFacts
<1>2. DOMAIN s = 1..Len(s) /\ DOMAIN t = 1..(Len(s) + 1)
  BY <1>1
<1>3. /\ \A i \in DOMAIN s : i \in DOMAIN t /\ i \in Nat /\ t[i] = s[i] /\ i < Len(s) + 1
      /\ Len(s) + 1 \in DOMAIN t
      /\ \A i \in DOMAIN t : i \in Nat /\ i <= Len(s) + 1 /\ (i \in DOMAIN s \/ i = Len(s) + 1)
  BY <1>1, <1>2
<1>4. In(t) = In(s) \cup {x}
  BY <1>1, <1>3 DEF In
<1>5. In(s) \subseteq S
  BY DEF In
<1>6. ASSUME NEW A
      PROVE  No(t, A) <=> No(s, A) /\ x \notin A
  BY <1>4 DEF No
<1>7. ASSUME NEW A, NEW B, Behind(s, A, B), x \notin A
      PROVE  Behind(t, A, B)
  <2>1. ASSUME NEW i \in DOMAIN t, t[i] \in A
        PROVE  \E j \in DOMAIN t : j > i /\ t[j] \in B
    BY <1>1, <1>3, <1>7, <2>1 DEF Behind
  <2> QED
    BY <2>1 DEF Behind
<1>8. ASSUME NEW A, NEW B, x \in B, x \notin A
      PROVE  Behind(t, A, B)
  <2>1. ASSUME NEW i \in DOMAIN t, t[i] \in A
        PROVE  \E j \in DOMAIN t : j > i /\ t[j] \in B
    BY <1>1, <1>3, <1>8, <2>1
  <2> QED
    BY <2>1 DEF Behind
<1>9. ASSUME NEW A, NEW B, Never(s, A, B), x \notin B \/ No(s, A)
      PROVE  Never(t, A, B)
  <2>1. ASSUME NEW i \in DOMAIN t, NEW j \in DOMAIN t, i < j, t[i] \in A, t[j] \in B
        PROVE  FALSE
    BY <1>1, <1>3, <1>9, <2>1 DEF Never, No, In
  <2> QED
    BY <2>1 DEF Never
<1> QED
  BY <1>1, <1>4, <1>5, <1>6, <1>7, <1>8, <1>9 DEF Pushes

LEMMA Emptied ==
  /\ In(<<>>) = {}
  /\ \A A : No(<<>>, A)
  /\ \A A, B : Behind(<<>>, A, B) /\ Never(<<>>, A, B)
BY DEF In, No, Behind, Never

LEMMA Single ==
  ASSUME NEW x
  PROVE  /\ In(<<x>>) = {x} /\ <<x>>[1] = x /\ Tail(<<x>>) = <<>> /\ <<x>> # <<>>
         /\ \A A : No(<<x>>, A) <=> x \notin A
BY DEF In, No

LEMMA FirstPushed ==
  ASSUME NEW x
  PROVE  Append(<<>>, x) = <<x>>
OBVIOUS

LEMMA NoneBehind ==
  ASSUME NEW s, NEW A, NEW B, No(s, A)
  PROVE  Behind(s, A, B) /\ Never(s, A, B)
BY DEF No, In, Behind, Never

LEMMA AllMessages ==
  /\ PageMessages \subseteq Messages /\ ParentMessages \subseteq Messages
  /\ WorkerMessages \subseteq Messages /\ Reports \subseteq Messages
BY DEF Messages

\* The worker does not run, and nothing is under way between it and the page.
Off(d) ==
  /\ worker[d].phase # "running"
  /\ worker[d].phase # "none" => page[d].due = "no"
  /\ page[d].asked = {} /\ ~page[d].restarting
  /\ toWorker[d] = <<>> /\ fromWorker[d] = <<>>
  /\ \A c \in In(toPage[d]) : c.type = "provide"

Running(d) == worker[d].phase = "running" /\ page[d].due = "no"

\* The ids of the requests differ, and each has one message that carries it.
Unanswered(d) ==
  /\ \A a, b \in page[d].asked : a.id = b.id => a = b
  /\ \A a \in page[d].asked : ~(No(toWorker[d], Snap(a.id)) /\ No(fromWorker[d], Snap(a.id)))
Carriers(d) ==
  \A id \in Ids : /\ Never(toWorker[d], Snap(id), Snap(id)) /\ Never(fromWorker[d], Snap(id), Snap(id))
                  /\ No(toWorker[d], Snap(id)) \/ No(fromWorker[d], Snap(id))

\* The device works; it was told to restart; its firmware asked for a reboot;
\* its files are saved for the restart.
Up(d) ==
  /\ Running(d) /\ ~page[d].restarting
  /\ \A a \in page[d].asked : a.for \in {"parent", "refresh"}
  /\ No(toPage[d], Of({"restart"})) /\ No(fromWorker[d], Of({"reboot"}))
  /\ Unanswered(d) /\ Carriers(d)
Told(d) ==
  /\ Running(d) /\ ~page[d].restarting /\ page[d].asked = {}
  /\ toPage[d] = <<Plain("restart")>> /\ toWorker[d] = <<>> /\ fromWorker[d] = <<>>
Rebooting(d) ==
  /\ Running(d) /\ ~page[d].restarting /\ page[d].asked = {}
  /\ toPage[d] = <<>> /\ toWorker[d] = <<>> /\ fromWorker[d] = <<Plain("reboot")>>
Saving(d) ==
  /\ Running(d) /\ page[d].restarting /\ toPage[d] = <<>>
  /\ \E a \in page[d].asked, c \in In(toWorker[d]) \cup In(fromWorker[d]) :
       /\ page[d].asked = {a} /\ a.for = "restart" /\ c \in Snap(a.id)
       /\ \/ toWorker[d] = <<c>> /\ fromWorker[d] = <<>>
          \/ toWorker[d] = <<>> /\ fromWorker[d] = <<c>>

\* What the gallery is told of it.
Heard(d) ==
  /\ \A c \in In(toParent[d]) : /\ c.type = "error" => worker[d].phase = "none" /\ page[d].due = "no"
                                /\ c.type = "restarting" => c.id = 0
                                /\ c.type = "awaiting" => page[d].due = "media" /\ toPage[d] = <<>>
  /\ Never(toParent[d], Of({"awaiting"}), Of({"awaiting"}))

Life(d) == (Off(d) \/ Up(d) \/ Told(d) \/ Rebooting(d) \/ Saving(d)) /\ Heard(d)

\* The gallery takes it for ready, and it is, and stays so.
Steady(d) == d \in ready /\ Up(d) /\ No(toParent[d], Of({"restarting"}))

\* A transfer meets no device that is being restarted.
Lives == (\A d \in Devices : Life(d)) /\ (busy => \A d \in Devices : Steady(d))


LEMMA ChannelsOf ==
  ASSUME ChannelTypes, NEW d \in Devices
  PROVE  /\ toPage[d] \in Seq(PageMessages) /\ toParent[d] \in Seq(ParentMessages)
         /\ toWorker[d] \in Seq(WorkerMessages) /\ fromWorker[d] \in Seq(Reports)
BY DEF ChannelTypes

\* What each channel becomes.
LEMMA PagePopped ==
  ASSUME ChannelTypes, NEW d \in Devices, toPage[d] # <<>>, toPage'[d] = Tail(toPage[d])
  PROVE  Pops(PageMessages, toPage[d], toPage'[d])
BY ChannelsOf, Popped

LEMMA ParentPopped ==
  ASSUME ChannelTypes, NEW d \in Devices, toParent[d] # <<>>, toParent'[d] = Tail(toParent[d])
  PROVE  Pops(ParentMessages, toParent[d], toParent'[d])
BY ChannelsOf, Popped

LEMMA WorkerPopped ==
  ASSUME ChannelTypes, NEW d \in Devices, toWorker[d] # <<>>, toWorker'[d] = Tail(toWorker[d])
  PROVE  Pops(WorkerMessages, toWorker[d], toWorker'[d])
BY ChannelsOf, Popped

LEMMA ReportPopped ==
  ASSUME ChannelTypes, NEW d \in Devices, fromWorker[d] # <<>>, fromWorker'[d] = Tail(fromWorker[d])
  PROVE  Pops(Reports, fromWorker[d], fromWorker'[d])
BY ChannelsOf, Popped

LEMMA PagePushed ==
  ASSUME ChannelTypes, NEW d \in Devices, NEW x \in PageMessages, toPage'[d] = Append(toPage[d], x)
  PROVE  Pushes(PageMessages, toPage[d], toPage'[d], x)
BY ChannelsOf, Pushed

LEMMA ParentPushed ==
  ASSUME ChannelTypes, NEW d \in Devices, NEW x \in ParentMessages, toParent'[d] = Append(toParent[d], x)
  PROVE  Pushes(ParentMessages, toParent[d], toParent'[d], x)
BY ChannelsOf, Pushed

LEMMA WorkerPushed ==
  ASSUME ChannelTypes, NEW d \in Devices, NEW x \in WorkerMessages, toWorker'[d] = Append(toWorker[d], x)
  PROVE  Pushes(WorkerMessages, toWorker[d], toWorker'[d], x)
BY ChannelsOf, Pushed

LEMMA ReportPushed ==
  ASSUME ChannelTypes, NEW d \in Devices, NEW x \in Reports, fromWorker'[d] = Append(fromWorker[d], x)
  PROVE  Pushes(Reports, fromWorker[d], fromWorker'[d], x)
BY ChannelsOf, Pushed

LEMMA SameLife ==
  ASSUME NEW e \in Devices, Same(e), Life(e)
  PROVE  Life(e)'
<1>1. /\ page'[e] = page[e] /\ worker'[e] = worker[e]
      /\ toPage'[e] = toPage[e] /\ toParent'[e] = toParent[e]
      /\ toWorker'[e] = toWorker[e] /\ fromWorker'[e] = fromWorker[e]
  BY DEF Same
<1>2. Off(e) => Off(e)'
  BY <1>1 DEF Off
<1>3. Up(e) => Up(e)'
  BY <1>1 DEF Up, Running, Unanswered, Carriers
<1>4. Told(e) => Told(e)'
  BY <1>1 DEF Told, Running
<1>5. Rebooting(e) => Rebooting(e)'
  BY <1>1 DEF Rebooting, Running
<1>6. Saving(e) => Saving(e)'
  BY <1>1 DEF Saving, Running
<1>7. Heard(e)'
  BY <1>1 DEF Life, Heard
<1> QED
  BY <1>2, <1>3, <1>4, <1>5, <1>6, <1>7 DEF Life

\* What the first message of a channel says about the device.
LEMMA PageHead ==
  ASSUME ChannelTypes, NEW d \in Devices, Life(d), toPage[d] # <<>>
  PROVE  /\ toPage[d][1] \in In(toPage[d]) /\ toPage[d][1] \in PageMessages
         /\ toPage[d][1].type = "restart" => Told(d)
         /\ toPage[d][1].type = "provide" => Off(d) \/ Up(d)
         /\ toPage[d][1].type \in {"export"} \cup Commands => Up(d)
<1>1. toPage[d] \in Seq(PageMessages)
  BY ChannelsOf
<1>2. toPage[d][1] \in In(toPage[d]) /\ toPage[d][1] \in PageMessages
  BY <1>1, TailFacts DEF In
<1>3. Off(d) => toPage[d][1].type = "provide"
  BY <1>2 DEF Off
<1>4. Told(d) => toPage[d][1].type = "restart"
  BY Single, PlainFields DEF Told
<1>5. ~Rebooting(d) /\ ~Saving(d)
  BY DEF Rebooting, Saving
<1>6. Up(d) => toPage[d][1].type # "restart"
  BY <1>2, AllMessages DEF Up, No, Of
<1> QED
  BY <1>2, <1>3, <1>4, <1>5, <1>6 DEF Life, Commands

LEMMA ReportHead ==
  ASSUME ChannelTypes, NEW d \in Devices, Life(d), fromWorker[d] # <<>>
  PROVE  /\ fromWorker[d][1] \in In(fromWorker[d]) /\ fromWorker[d][1] \in Reports
         /\ fromWorker[d][1].type = "reboot" => Rebooting(d)
         /\ fromWorker[d][1].type = "snapshot" => Up(d) \/ Saving(d)
         /\ fromWorker[d][1].type \in {"running", "sd-state", "card-state"} => Up(d)
<1>1. fromWorker[d] \in Seq(Reports)
  BY ChannelsOf
<1>2. fromWorker[d][1] \in In(fromWorker[d]) /\ fromWorker[d][1] \in Reports
  BY <1>1, TailFacts DEF In
<1>3. ~Off(d) /\ ~Told(d)
  BY DEF Off, Told
<1>4. Rebooting(d) => fromWorker[d][1].type = "reboot"
  BY Single, PlainFields DEF Rebooting
<1>5. Saving(d) => fromWorker[d][1].type = "snapshot"
  BY Single DEF Saving, Snap
<1>6. Up(d) => fromWorker[d][1].type # "reboot"
  BY <1>2, AllMessages DEF Up, No, Of
<1> QED
  BY <1>2, <1>3, <1>4, <1>5, <1>6 DEF Life

LEMMA WorkHead ==
  ASSUME ChannelTypes, NEW d \in Devices, Life(d), toWorker[d] # <<>>
  PROVE  /\ toWorker[d][1] \in In(toWorker[d]) /\ toWorker[d][1] \in WorkerMessages
         /\ Up(d) \/ (Saving(d) /\ toWorker[d][1].type = "snapshot")
<1>1. toWorker[d] \in Seq(WorkerMessages)
  BY ChannelsOf
<1>2. toWorker[d][1] \in In(toWorker[d]) /\ toWorker[d][1] \in WorkerMessages
  BY <1>1, TailFacts DEF In
<1>3. ~Off(d) /\ ~Told(d) /\ ~Rebooting(d)
  BY DEF Off, Told, Rebooting
<1>4. Saving(d) => toWorker[d][1].type = "snapshot"
  BY Single DEF Saving, Snap
<1> QED
  BY <1>2, <1>3, <1>4 DEF Life

LEMMA HeardKept ==
  ASSUME ChannelTypes, NEW d \in Devices, Heard(d),
         \/ /\ worker'[d].phase = worker[d].phase /\ page'[d].due = page[d].due
            /\ toPage[d] = <<>> => toPage'[d] = <<>>
         \/ (worker[d].phase # "none" \/ page[d].due # "no") /\ page[d].due # "media",
         \/ toParent'[d] = toParent[d]
         \/ \E x \in ParentMessages : /\ toParent'[d] = Append(toParent[d], x)
                                      /\ x.type \notin {"error", "awaiting"}
                                      /\ x.type = "restarting" => x.id = 0
  PROVE  Heard(d)'
<1>1. \A c \in In(toParent[d]) :
        /\ c.type = "error" => worker'[d].phase = "none" /\ page'[d].due = "no"
        /\ c.type = "restarting" => c.id = 0
        /\ c.type = "awaiting" => page'[d].due = "media" /\ toPage'[d] = <<>>
  BY DEF Heard
<1>2. Never(toParent[d], Of({"awaiting"}), Of({"awaiting"}))
  BY DEF Heard
<1>3. CASE toParent'[d] = toParent[d]
  BY <1>1, <1>2, <1>3 DEF Heard
<1>4. ASSUME NEW x \in ParentMessages, toParent'[d] = Append(toParent[d], x),
             x.type \notin {"error", "awaiting"}, x.type = "restarting" => x.id = 0
      PROVE  Heard(d)'
  <2>1. Pushes(ParentMessages, toParent[d], toParent'[d], x)
    BY <1>4, ParentPushed
  <2>2. In(toParent'[d]) = In(toParent[d]) \cup {x}
    BY <2>1 DEF Pushes
  <2>3. x \notin Of({"awaiting"})
    BY <1>4 DEF Of
  <2>4. Never(toParent'[d], Of({"awaiting"}), Of({"awaiting"}))
    BY <1>2, <2>1, <2>3 DEF Pushes
  <2> QED
    BY <1>1, <1>4, <2>2, <2>4 DEF Heard
<1> QED
  BY <1>3, <1>4

\* The steps of a device that it makes when it works keep it so.
Keeps(d) == Life(d)' /\ (Steady(d) => Up(d)' /\ No(toParent'[d], Of({"restarting"})))

LEMMA LifeOf ==
  ASSUME NEW d, Life(d)
  PROVE  /\ Heard(d)
         /\ worker[d].phase # "none" => page[d].due = "no"
         /\ worker[d].phase = "running" => page[d].due = "no"
         /\ worker[d].phase # "running" => Off(d)
         /\ Off(d) => ~Up(d)
BY DEF Life, Off, Up, Told, Rebooting, Saving, Running

LEMMA SteadyParent ==
  ASSUME ChannelTypes, NEW d \in Devices, Steady(d),
         \/ toParent'[d] = toParent[d]
         \/ \E x \in ParentMessages : toParent'[d] = Append(toParent[d], x) /\ x.type # "restarting"
  PROVE  No(toParent'[d], Of({"restarting"}))
<1>1. No(toParent[d], Of({"restarting"}))
  BY DEF Steady
<1>2. ASSUME NEW x \in ParentMessages, toParent'[d] = Append(toParent[d], x), x.type # "restarting"
      PROVE  No(toParent'[d], Of({"restarting"}))
  BY <1>1, <1>2, ParentPushed DEF Of, Pushes
<1> QED
  BY <1>1, <1>2

LEMMA ProvidedLives ==
  ASSUME DeviceTypes, ChannelTypes, NEW d \in Devices, PageProvided(d), Life(d)
  PROVE  Keeps(d)
<1>1. /\ toPage[d] # <<>> /\ toPage[d][1].type = "provide" /\ toPage'[d] = Tail(toPage[d])
      /\ UNCHANGED <<worker, toParent, toWorker, fromWorker>>
      /\ page[d].due # "media" => page' = page
      /\ page[d].due = "media" =>
           /\ page'[d].due = "load" /\ page'[d].files = toPage[d][1].files /\ page'[d].reader = {}
           /\ page'[d].restarting = page[d].restarting /\ page'[d].asked = page[d].asked
  BY ProvidedDoes
<1>2. Off(d) \/ Up(d)
  BY <1>1, PageHead
<1>3. Pops(PageMessages, toPage[d], toPage'[d])
  BY <1>1, PagePopped
<1>4. Heard(d)'
  BY <1>1 DEF Life, Heard
<1>5. CASE Off(d)
  BY <1>1, <1>3, <1>4, <1>5, LifeOf DEF Off, Pops, Keeps, Life, Steady
<1>6. CASE Up(d)
  <2>1. page' = page
    BY <1>1, <1>6 DEF Up, Running
  <2>2. No(toPage'[d], Of({"restart"}))
    BY <1>3, <1>6 DEF Up, Pops
  <2>3. Up(d)'
    BY <1>1, <1>6, <2>1, <2>2 DEF Up, Running, Unanswered, Carriers
  <2> QED
    BY <1>1, <1>4, <2>3 DEF Keeps, Life, Steady
<1> QED
  BY <1>2, <1>5, <1>6

LEMMA FreeIdNew ==
  ASSUME ChannelTypes, NEW d \in Devices, NEW id \in FreeIds(d)
  PROVE  /\ id \in Ids /\ \A a \in page[d].asked : a.id # id
         /\ No(toWorker[d], Snap(id)) /\ No(fromWorker[d], Snap(id))
BY DEF FreeIds, Occurs, No, In, Snap

\* A request is added to those of the page and sent to the worker.
LEMMA RequestAdded ==
  ASSUME DeviceTypes, ChannelTypes, NEW d \in Devices, NEW id \in FreeIds(d), NEW a, a.id = id,
         Unanswered(d), Carriers(d),
         page'[d].asked = page[d].asked \cup {a},
         toWorker'[d] = Append(toWorker[d], Snapshot(id, NoFiles)),
         \A k \in Ids : /\ No(fromWorker'[d], Snap(k)) <=> No(fromWorker[d], Snap(k))
                        /\ Never(fromWorker'[d], Snap(k), Snap(k))
  PROVE  Unanswered(d)' /\ Carriers(d)'
<1>1. /\ id \in Ids /\ \A b \in page[d].asked : b.id # id
      /\ No(toWorker[d], Snap(id)) /\ No(fromWorker[d], Snap(id))
  BY FreeIdNew
<1> DEFINE x == Snapshot(id, NoFiles)
<1>2. x \in WorkerMessages /\ x.type = "snapshot" /\ x.id = id
  BY <1>1, SnapshotTypes, SnapshotFields, NoFilesType
<1>3. toWorker'[d] = Append(toWorker[d], x)
  OBVIOUS
<1> HIDE DEF x
<1>4. Pushes(WorkerMessages, toWorker[d], toWorker'[d], x)
  BY <1>2, <1>3, WorkerPushed
<1>5. x \in Snap(id) /\ \A k \in Ids \ {id} : x \notin Snap(k)
  BY <1>2, AllMessages DEF Snap
<1>6. \A b \in page[d].asked : b.id \in Ids
  BY Fields DEF Requests
<1>7. Unanswered(d)'
  BY <1>1, <1>4, <1>5, <1>6 DEF Unanswered, Pushes
<1>8. Carriers(d)'
  <2> SUFFICES ASSUME NEW k \in Ids
               PROVE  /\ Never(toWorker'[d], Snap(k), Snap(k)) /\ Never(fromWorker'[d], Snap(k), Snap(k))
                      /\ No(toWorker'[d], Snap(k)) \/ No(fromWorker'[d], Snap(k))
    BY DEF Carriers
  <2>1. Never(toWorker'[d], Snap(k), Snap(k))
    BY <1>1, <1>4, <1>5 DEF Carriers, Pushes
  <2>2. No(toWorker'[d], Snap(k)) \/ No(fromWorker'[d], Snap(k))
    BY <1>1, <1>4, <1>5 DEF Carriers, Pushes
  <2> QED
    BY <2>1, <2>2
<1> QED
  BY <1>7, <1>8

LEMMA ExportsLives ==
  ASSUME DeviceTypes, ChannelTypes, NEW d \in Devices, PageExports(d), Life(d)
  PROVE  Keeps(d) /\ Up(d) /\ Up(d)'
<1>1. /\ toPage[d] # <<>> /\ toPage[d][1].type = "export" /\ toPage'[d] = Tail(toPage[d])
      /\ toPage[d][1].id \in Ids \cup {0}
      /\ UNCHANGED <<worker, fromWorker>>
      /\ worker[d].phase # "none" =>
           /\ UNCHANGED toParent
           /\ NextId(d) \in FreeIds(d) /\ NextId(d) \in Ids
           /\ page'[d].asked = page[d].asked \cup {Asked(NextId(d), "parent", toPage[d][1].id)}
           /\ page'[d].due = page[d].due /\ page'[d].files = page[d].files
           /\ page'[d].reader = page[d].reader /\ page'[d].restarting = page[d].restarting
           /\ toWorker'[d] = Append(toWorker[d], Snapshot(NextId(d), NoFiles))
  BY ExportsDoes
<1>2. Up(d)
  BY <1>1, PageHead
<1>3. Pops(PageMessages, toPage[d], toPage'[d])
  BY <1>1, PagePopped
<1>4. worker[d].phase = "running"
  BY <1>2 DEF Up, Running
<1> DEFINE a == Asked(NextId(d), "parent", toPage[d][1].id)
<1>5. a.id = NextId(d) /\ a.for = "parent"
  BY <1>1, <1>4, AskedFields
<1>6. \A k \in Ids : No(fromWorker'[d], Snap(k)) <=> No(fromWorker[d], Snap(k))
  BY <1>1
<1>7. \A k \in Ids : Never(fromWorker'[d], Snap(k), Snap(k))
  BY <1>1, <1>2 DEF Up, Carriers
<1>8. page'[d].asked = page[d].asked \cup {a}
  BY <1>1, <1>4
<1> HIDE DEF a
<1>9. Unanswered(d)' /\ Carriers(d)'
  BY <1>1, <1>2, <1>4, <1>5, <1>6, <1>7, <1>8, RequestAdded DEF Up
<1>10. No(toPage'[d], Of({"restart"}))
  BY <1>2, <1>3 DEF Up, Pops
<1>11. Up(d)'
  BY <1>1, <1>2, <1>4, <1>5, <1>8, <1>9, <1>10 DEF Up, Running
<1>12. Heard(d)'
  BY <1>1, <1>4, LifeOf, HeardKept
<1> QED
  BY <1>1, <1>2, <1>4, <1>11, <1>12 DEF Keeps, Life, Steady

\* The snapshots on a channel are those of another.
Alike(s, t) ==
  \A k \in Ids : /\ No(t, Snap(k)) <=> No(s, Snap(k))
                 /\ Never(s, Snap(k), Snap(k)) => Never(t, Snap(k), Snap(k))

LEMMA AlikePushed ==
  ASSUME NEW S, NEW s, NEW t, NEW x, Pushes(S, s, t, x), x.type # "snapshot"
  PROVE  Alike(s, t)
BY DEF Snap, Pushes, Alike

LEMMA AlikePopped ==
  ASSUME NEW S, NEW s, NEW t, Pops(S, s, t), s[1].type # "snapshot"
  PROVE  Alike(s, t)
BY DEF Snap, Pops, Alike

LEMMA AlikeSame ==
  ASSUME NEW s
  PROVE  Alike(s, s)
BY DEF Alike

LEMMA RequestsKept ==
  ASSUME DeviceTypes, NEW d \in Devices, Unanswered(d), Carriers(d), page'[d].asked = page[d].asked,
         Alike(toWorker[d], toWorker'[d]), Alike(fromWorker[d], fromWorker'[d])
  PROVE  Unanswered(d)' /\ Carriers(d)'
BY Fields DEF Requests, Unanswered, Alike, Carriers

\* A device that works goes on.
LEMMA UpStep ==
  ASSUME ChannelTypes, NEW d \in Devices, Life(d), Up(d),
         worker'[d].phase = worker[d].phase, page'[d].due = page[d].due,
         page'[d].restarting = page[d].restarting,
         \A a \in page'[d].asked : a.for \in {"parent", "refresh"},
         Unanswered(d)', Carriers(d)',
         No(toPage'[d], Of({"restart"})), No(fromWorker'[d], Of({"reboot"})),
         \/ toParent'[d] = toParent[d]
         \/ \E x \in ParentMessages : /\ toParent'[d] = Append(toParent[d], x)
                                      /\ x.type \notin {"error", "awaiting", "restarting"}
  PROVE  Keeps(d) /\ Up(d)'
BY HeardKept, SteadyParent DEF Up, Running, Life, Keeps

LEMMA ForwardsLives ==
  ASSUME DeviceTypes, ChannelTypes, NEW d \in Devices, PageForwards(d), Life(d)
  PROVE  Keeps(d) /\ Up(d) /\ Up(d)' /\ toWorker'[d] = Append(toWorker[d], toPage[d][1])
<1>1. /\ toPage[d] # <<>> /\ toPage[d][1].type \in Commands /\ toPage'[d] = Tail(toPage[d])
      /\ toPage[d][1] \in WorkerMessages
      /\ UNCHANGED <<page, worker, toParent, fromWorker>>
      /\ worker[d].phase # "none" => toWorker'[d] = Append(toWorker[d], toPage[d][1])
  BY ForwardsDoes
<1>2. Up(d)
  BY <1>1, PageHead
<1>3. toWorker'[d] = Append(toWorker[d], toPage[d][1])
  BY <1>1, <1>2 DEF Up, Running
<1>4. Pops(PageMessages, toPage[d], toPage'[d])
  BY <1>1, PagePopped
<1>5. Pushes(WorkerMessages, toWorker[d], toWorker'[d], toPage[d][1])
  BY <1>1, <1>3, WorkerPushed
<1>6. Alike(toWorker[d], toWorker'[d])
  BY <1>1, <1>5, AlikePushed DEF Commands
<1>7. Alike(fromWorker[d], fromWorker'[d])
  BY <1>1, AlikeSame
<1>8. Unanswered(d)' /\ Carriers(d)'
  BY <1>1, <1>2, <1>6, <1>7, RequestsKept DEF Up
<1>9. No(toPage'[d], Of({"restart"})) /\ No(fromWorker'[d], Of({"reboot"}))
  BY <1>1, <1>2, <1>4 DEF Up, Pops
<1>10. \A a \in page'[d].asked : a.for \in {"parent", "refresh"}
  BY <1>1, <1>2 DEF Up
<1>11. Keeps(d) /\ Up(d)'
  BY <1>1, <1>2, <1>8, <1>9, <1>10, UpStep
<1> QED
  BY <1>2, <1>3, <1>11

LEMMA SeesRunningLives ==
  ASSUME DeviceTypes, ChannelTypes, NEW d \in Devices, PageSeesRunning(d), Life(d)
  PROVE  Keeps(d) /\ Up(d) /\ Up(d)'
<1>1. /\ fromWorker[d] # <<>> /\ fromWorker[d][1].type = "running"
      /\ fromWorker'[d] = Tail(fromWorker[d])
      /\ toWorker'[d] = Append(toWorker[d], Plain("card-list"))
      /\ toParent'[d] = Append(toParent[d], Plain("running"))
      /\ UNCHANGED <<page, worker, toPage>>
  BY SeesRunningDoes
<1>2. Up(d)
  BY <1>1, ReportHead
<1>3. Pops(Reports, fromWorker[d], fromWorker'[d])
  BY <1>1, ReportPopped
<1>4. Pushes(WorkerMessages, toWorker[d], toWorker'[d], Plain("card-list"))
  BY <1>1, PlainTypes, WorkerPushed
<1>5. Alike(toWorker[d], toWorker'[d])
  BY <1>4, PlainFields, AlikePushed
<1>6. Alike(fromWorker[d], fromWorker'[d])
  BY <1>1, <1>3, AlikePopped
<1>7. Unanswered(d)' /\ Carriers(d)'
  BY <1>1, <1>2, <1>5, <1>6, RequestsKept DEF Up
<1>8. No(toPage'[d], Of({"restart"})) /\ No(fromWorker'[d], Of({"reboot"}))
  BY <1>1, <1>2, <1>3 DEF Up, Pops
<1>9. \A a \in page'[d].asked : a.for \in {"parent", "refresh"}
  BY <1>1, <1>2 DEF Up
<1>10. \E x \in ParentMessages : /\ toParent'[d] = Append(toParent[d], x)
                                 /\ x.type \notin {"error", "awaiting", "restarting"}
  BY <1>1, PlainTypes, PlainFields
<1>11. Keeps(d) /\ Up(d)'
  BY <1>1, <1>2, <1>7, <1>8, <1>9, <1>10, UpStep
<1> QED
  BY <1>2, <1>11

LEMMA SeesSdLives ==
  ASSUME DeviceTypes, ChannelTypes, NEW d \in Devices, PageSeesSd(d), Life(d)
  PROVE  Keeps(d) /\ Up(d) /\ Up(d)'
<1>1. /\ fromWorker[d] # <<>> /\ fromWorker[d][1].type = "sd-state"
      /\ fromWorker'[d] = Tail(fromWorker[d])
      /\ page'[d].due = page[d].due
      /\ page'[d].asked = page[d].asked /\ page'[d].restarting = page[d].restarting
      /\ UNCHANGED <<worker, toPage, toParent, toWorker>>
  BY SeesSdDoes
<1>2. Up(d)
  BY <1>1, ReportHead
<1>3. Pops(Reports, fromWorker[d], fromWorker'[d])
  BY <1>1, ReportPopped
<1>4. Alike(toWorker[d], toWorker'[d])
  BY <1>1, AlikeSame
<1>5. Alike(fromWorker[d], fromWorker'[d])
  BY <1>1, <1>3, AlikePopped
<1>6. Unanswered(d)' /\ Carriers(d)'
  BY <1>1, <1>2, <1>4, <1>5, RequestsKept DEF Up
<1>7. No(toPage'[d], Of({"restart"})) /\ No(fromWorker'[d], Of({"reboot"}))
  BY <1>1, <1>2, <1>3 DEF Up, Pops
<1>8. \A a \in page'[d].asked : a.for \in {"parent", "refresh"}
  BY <1>1, <1>2 DEF Up
<1>9. Keeps(d) /\ Up(d)'
  BY <1>1, <1>2, <1>6, <1>7, <1>8, UpStep
<1> QED
  BY <1>2, <1>9

LEMMA SeesCardLives ==
  ASSUME DeviceTypes, ChannelTypes, NEW d \in Devices, PageSeesCard(d), Life(d)
  PROVE  Keeps(d) /\ Up(d) /\ Up(d)'
<1>1. /\ fromWorker[d] # <<>> /\ fromWorker[d][1].type = "card-state"
      /\ fromWorker'[d] = Tail(fromWorker[d])
      /\ NextId(d) \in FreeIds(d) /\ NextId(d) \in Ids
      /\ page'[d].asked = page[d].asked \cup {Asked(NextId(d), "refresh", 0)}
      /\ page'[d].due = page[d].due
      /\ page'[d].restarting = page[d].restarting
      /\ toWorker'[d] = Append(toWorker[d], Snapshot(NextId(d), NoFiles))
      /\ UNCHANGED <<worker, toPage, toParent>>
  BY SeesCardDoes
<1>2. Up(d)
  BY <1>1, ReportHead
<1>3. Pops(Reports, fromWorker[d], fromWorker'[d])
  BY <1>1, ReportPopped
<1>4. Alike(fromWorker[d], fromWorker'[d])
  BY <1>1, <1>3, AlikePopped
<1>5. \A k \in Ids : /\ No(fromWorker'[d], Snap(k)) <=> No(fromWorker[d], Snap(k))
                     /\ Never(fromWorker'[d], Snap(k), Snap(k))
  BY <1>2, <1>4 DEF Alike, Up, Carriers
<1> DEFINE a == Asked(NextId(d), "refresh", 0)
<1>6. a.id = NextId(d) /\ a.for = "refresh"
  BY <1>1, AskedFields
<1>7. page'[d].asked = page[d].asked \cup {a}
  BY <1>1
<1> HIDE DEF a
<1>8. Unanswered(d)' /\ Carriers(d)'
  BY <1>1, <1>2, <1>5, <1>6, <1>7, RequestAdded DEF Up
<1>9. No(toPage'[d], Of({"restart"})) /\ No(fromWorker'[d], Of({"reboot"}))
  BY <1>1, <1>2, <1>3 DEF Up, Pops
<1>10. \A b \in page'[d].asked : b.for \in {"parent", "refresh"}
  BY <1>2, <1>6, <1>7 DEF Up
<1>11. Keeps(d) /\ Up(d)'
  BY <1>1, <1>2, <1>8, <1>9, <1>10, UpStep
<1> QED
  BY <1>2, <1>11

\* What is saved for a restart, when the request is made.
LEMMA SavingBegins ==
  ASSUME DeviceTypes, ChannelTypes, NEW d \in Devices, Life(d), Running(d), page[d].asked = {},
         Restarted(d, toWorker), ~page[d].restarting,
         toWorker[d] = <<>>, fromWorker'[d] = <<>>, toPage'[d] = <<>>
  PROVE  Life(d)'
<1>1. /\ worker' = worker /\ NextId(d) \in Ids
      /\ page'[d].restarting = TRUE
      /\ page'[d].asked = page[d].asked \cup {Asked(NextId(d), "restart", 0)}
      /\ page'[d].due = page[d].due
      /\ toParent'[d] = Append(toParent[d], Plain("restarting"))
      /\ toWorker'[d] = Append(toWorker[d], Snapshot(NextId(d), NoFiles))
  BY DEF Restarted
<1> DEFINE a == Asked(NextId(d), "restart", 0)
           c == Snapshot(NextId(d), NoFiles)
<1>2. a.id = NextId(d) /\ a.for = "restart"
  BY <1>1, AskedFields
<1>3. c \in WorkerMessages /\ c.type = "snapshot" /\ c.id = NextId(d)
  BY <1>1, SnapshotTypes, SnapshotFields, NoFilesType
<1>4. page'[d].asked = {a}
  BY <1>1
<1>5. toWorker'[d] = <<c>>
  BY <1>1, FirstPushed
<1> HIDE DEF a, c
<1>6. c \in Snap(a.id)
  BY <1>2, <1>3, AllMessages DEF Snap
<1>7. c \in In(toWorker'[d])
  BY <1>5, Single
<1>8. Saving(d)'
  BY <1>1, <1>2, <1>4, <1>5, <1>6, <1>7 DEF Saving, Running
<1>9. \E x \in ParentMessages : /\ toParent'[d] = Append(toParent[d], x)
                                /\ x.type \notin {"error", "awaiting"}
                                /\ x.type = "restarting" => x.id = 0
  BY <1>1, PlainTypes, PlainFields
<1>10. (worker[d].phase # "none" \/ page[d].due # "no") /\ page[d].due # "media"
  BY DEF Running
<1>11. Heard(d)'
  BY <1>9, <1>10, HeardKept DEF Life
<1> QED
  BY <1>8, <1>11 DEF Life

LEMMA RestartsLives ==
  ASSUME DeviceTypes, ChannelTypes, NEW d \in Devices, PageRestarts(d), Life(d)
  PROVE  Life(d)' /\ Told(d)
<1>1. /\ toPage[d] # <<>> /\ toPage[d][1].type = "restart" /\ toPage'[d] = Tail(toPage[d])
      /\ worker[d].phase # "none" => UNCHANGED fromWorker /\ Restarted(d, toWorker)
  BY RestartsDoes
<1>2. Told(d)
  BY <1>1, PageHead
<1>3. Running(d) /\ page[d].asked = {} /\ ~page[d].restarting
  BY <1>2 DEF Told
<1>4. toWorker[d] = <<>> /\ fromWorker'[d] = <<>> /\ toPage'[d] = <<>> /\ Restarted(d, toWorker)
  BY <1>1, <1>2, Single DEF Told, Running
<1>5. Life(d)'
  BY <1>3, <1>4, SavingBegins
<1> QED
  BY <1>2, <1>5

LEMMA RebootsLives ==
  ASSUME DeviceTypes, ChannelTypes, NEW d \in Devices, PageReboots(d), Life(d)
  PROVE  Life(d)' /\ Rebooting(d)
<1>1. /\ fromWorker[d] # <<>> /\ fromWorker[d][1].type = "reboot"
      /\ fromWorker'[d] = Tail(fromWorker[d])
      /\ UNCHANGED toPage /\ Restarted(d, toWorker)
  BY RebootsDoes
<1>2. Rebooting(d)
  BY <1>1, ReportHead
<1>3. Running(d) /\ page[d].asked = {} /\ ~page[d].restarting
  BY <1>2 DEF Rebooting
<1>4. toWorker[d] = <<>> /\ fromWorker'[d] = <<>> /\ toPage'[d] = <<>>
  BY <1>1, <1>2, Single DEF Rebooting
<1>5. Life(d)'
  BY <1>1, <1>3, <1>4, SavingBegins
<1> QED
  BY <1>2, <1>5

LEMMA StartsLives ==
  ASSUME DeviceTypes, ChannelTypes, NEW d \in Devices, PageStarts(d), Life(d)
  PROVE  Life(d)' /\ Off(d) /\ Off(d)'
<1>1. /\ page[d].due \in {"load", "retry"}
      /\ Launch(d, page[d].files, page[d].asked, "no")
      /\ UNCHANGED <<toPage, toParent>>
  BY StartsDoes
<1>2. Off(d)
  BY <1>1 DEF Life, Up, Told, Rebooting, Saving, Running
<1>3. page[d].files \in [Media -> Versions] /\ page[d].asked \in SUBSET Requests /\ "no" \in Dues
  BY Fields DEF Dues
<1>9. Launch(d, page[d].files, page[d].asked, "no")
  BY <1>1
<1> DEFINE files == page[d].files
           asked == page[d].asked
<1>10. files \in [Media -> Versions] /\ asked \in SUBSET Requests /\ Launch(d, files, asked, "no")
  BY <1>3, <1>9
<1>11. asked = {}
  BY <1>2 DEF Off
<1> HIDE DEF files, asked
<1>4. /\ toWorker'[d] = <<>> /\ fromWorker'[d] = <<>> /\ page'[d].due = "no"
      /\ worker'[d].phase = "booting"
  <2>1. toWorker'[d] = <<>> /\ fromWorker'[d] = <<>>
    BY <1>3, <1>10, LaunchDoes
  <2>2. page'[d].due = "no"
    BY <1>3, <1>10, LaunchDoes
  <2>3. worker'[d].phase = "booting"
    BY <1>3, <1>10, LaunchDoes
  <2> QED
    BY <2>1, <2>2, <2>3
<1>12. page'[d].asked = Orphans(asked)
  BY <1>3, <1>10, LaunchDoes
<1>13. page'[d].restarting = Abandoned(asked)
  BY <1>3, <1>10, LaunchDoes
<1>5. page'[d].asked = {} /\ page'[d].restarting = FALSE
  BY <1>11, <1>12, <1>13 DEF Orphans, Abandoned
<1>6. Off(d)'
  BY <1>1, <1>2, <1>4, <1>5 DEF Off
<1>7. (worker[d].phase # "none" \/ page[d].due # "no") /\ page[d].due # "media" /\ toParent'[d] = toParent[d]
  BY <1>1
<1>8. Heard(d)'
  BY <1>7, HeardKept DEF Life
<1> QED
  BY <1>2, <1>6, <1>8 DEF Life

LEMMA ReadyLives ==
  ASSUME DeviceTypes, ChannelTypes, NEW d \in Devices, WorkerReady(d), Life(d)
  PROVE  Life(d)' /\ Off(d) /\ Off(d)'
BY ReadyDoes, LifeOf, HeardKept DEF Off, Life

LEMMA RunsLives ==
  ASSUME DeviceTypes, ChannelTypes, NEW d \in Devices, WorkerRuns(d), Life(d)
  PROVE  Life(d)' /\ Off(d) /\ Up(d)'
<1>1. /\ worker[d].phase = "ready" /\ worker'[d].phase = "running"
      /\ fromWorker'[d] = Append(fromWorker[d], Plain("running"))
      /\ UNCHANGED <<page, toPage, toParent, toWorker>>
  BY RunsDoes
<1>2. Off(d) /\ page[d].due = "no"
  BY <1>1, LifeOf
<1>3. fromWorker'[d] = <<Plain("running")>>
  BY <1>1, <1>2, FirstPushed DEF Off
<1>4. \A A : No(fromWorker'[d], A) <=> Plain("running") \notin A
  BY <1>3, Single
<1>5. No(fromWorker'[d], Of({"reboot"})) /\ \A k \in Ids : No(fromWorker'[d], Snap(k))
  BY <1>4, PlainFields DEF Of, Snap
<1>6. \A k \in Ids : Never(fromWorker'[d], Snap(k), Snap(k))
  BY <1>5, NoneBehind
<1>7. toWorker'[d] = <<>>
  BY <1>1, <1>2 DEF Off
<1>8. Unanswered(d)' /\ Carriers(d)'
  BY <1>1, <1>2, <1>5, <1>6, <1>7, Emptied DEF Off, Unanswered, Carriers
<1>9. No(toPage'[d], Of({"restart"}))
  BY <1>1, <1>2 DEF Off, No, Of
<1>10. Up(d)'
  BY <1>1, <1>2, <1>5, <1>8, <1>9 DEF Up, Running, Off
<1>11. (worker[d].phase # "none" \/ page[d].due # "no") /\ page[d].due # "media" /\ toParent'[d] = toParent[d]
  BY <1>1, <1>2
<1>12. Heard(d)'
  BY <1>11, HeardKept DEF Life
<1> QED
  BY <1>2, <1>10, <1>12 DEF Life

LEMMA WritesLives ==
  ASSUME DeviceTypes, ChannelTypes, NEW d \in Devices, NEW m \in Media, FirmwareWrites(d, m), Life(d)
  PROVE  Keeps(d)
<1>1. /\ worker'[d].phase = worker[d].phase /\ worker[d].phase # "none"
      /\ UNCHANGED <<page, toPage, toParent, toWorker, fromWorker>>
  BY WritesDoes
<1>2. Off(d) => Off(d)'
  BY <1>1 DEF Off
<1>3. Up(d) => Up(d)'
  BY <1>1 DEF Up, Running, Unanswered, Carriers
<1>4. Told(d) => Told(d)'
  BY <1>1 DEF Told, Running
<1>5. Rebooting(d) => Rebooting(d)'
  BY <1>1 DEF Rebooting, Running
<1>6. Saving(d) => Saving(d)'
  BY <1>1 DEF Saving, Running
<1>7. Heard(d)'
  BY <1>1 DEF Life, Heard
<1> QED
  BY <1>1, <1>2, <1>3, <1>4, <1>5, <1>6, <1>7 DEF Life, Keeps, Steady

LEMMA TimeoutLives ==
  ASSUME DeviceTypes, ChannelTypes, NEW d \in Devices, NEW a \in page[d].asked, PageTimeout(d, a), Life(d)
  PROVE  Stalls
<1>1. Stalls \/ worker[d].phase # "running" \/ ~Answerable(d, a)
  BY TimeoutDoes
<1>2. Up(d) \/ Saving(d)
  BY DEF Life, Off, Told, Rebooting
<1>3. worker[d].phase = "running"
  BY <1>2 DEF Up, Saving, Running
<1>4. ~(No(toWorker[d], Snap(a.id)) /\ No(fromWorker[d], Snap(a.id)))
  BY <1>2 DEF Up, Unanswered, Saving, No
<1>5. Answerable(d, a)
  BY <1>4 DEF Answerable, Occurs, No, In, Snap
<1> QED
  BY <1>1, <1>3, <1>5

\* An answer is taken, and the request it is for is settled if there is one.
LEMMA AnswerTaken ==
  ASSUME DeviceTypes, ChannelTypes, NEW d \in Devices, Unanswered(d), Carriers(d),
         fromWorker[d] # <<>>, fromWorker'[d] = Tail(fromWorker[d]), toWorker'[d] = toWorker[d],
         \A b \in page'[d].asked : b \in page[d].asked /\ b.id # fromWorker[d][1].id
  PROVE  Unanswered(d)' /\ Carriers(d)'
BY ReportPopped DEF Pops, Snap, Unanswered, Carriers

\* The worker answers a request.
LEMMA RequestAnswered ==
  ASSUME DeviceTypes, ChannelTypes, NEW d \in Devices, Unanswered(d), Carriers(d),
         toWorker[d] # <<>>, toWorker[d][1].type = "snapshot", toWorker'[d] = Tail(toWorker[d]),
         NEW x \in Reports, x.type = "snapshot", x.id = toWorker[d][1].id,
         fromWorker'[d] = Append(fromWorker[d], x), page'[d].asked = page[d].asked
  PROVE  Unanswered(d)' /\ Carriers(d)'
<1>1. Pops(WorkerMessages, toWorker[d], toWorker'[d])
  BY WorkerPopped
<1>2. Pushes(Reports, fromWorker[d], fromWorker'[d], x)
  BY ReportPushed
<1>3. toWorker[d][1] \in Messages /\ x \in Messages
  BY ChannelsOf, TailFacts, AllMessages
<1>4. \A k \in Ids : x \in Snap(k) <=> toWorker[d][1] \in Snap(k)
  BY <1>3 DEF Snap
<1>5. \A A : No(toWorker[d], A) <=> toWorker[d][1] \notin A /\ No(toWorker'[d], A)
  BY <1>1 DEF Pops
<1>6. \A A, B : Never(toWorker[d], A, B) => Never(toWorker'[d], A, B) /\ (toWorker[d][1] \in A => No(toWorker'[d], B))
  BY <1>1 DEF Pops
<1>7. \A A : No(fromWorker'[d], A) <=> No(fromWorker[d], A) /\ x \notin A
  BY <1>2 DEF Pushes
<1>8. \A A, B : Never(fromWorker[d], A, B) /\ (x \notin B \/ No(fromWorker[d], A)) => Never(fromWorker'[d], A, B)
  BY <1>2 DEF Pushes
<1>9. \A a \in page[d].asked : a.id \in Ids
  BY Fields DEF Requests
<1>10. Unanswered(d)'
  BY <1>4, <1>5, <1>7, <1>9 DEF Unanswered
<1>11. ASSUME NEW k \in Ids
       PROVE  /\ Never(toWorker'[d], Snap(k), Snap(k)) /\ Never(fromWorker'[d], Snap(k), Snap(k))
              /\ No(toWorker'[d], Snap(k)) \/ No(fromWorker'[d], Snap(k))
  <2>1. /\ Never(toWorker[d], Snap(k), Snap(k)) /\ Never(fromWorker[d], Snap(k), Snap(k))
        /\ No(toWorker[d], Snap(k)) \/ No(fromWorker[d], Snap(k))
    BY DEF Carriers
  <2>2. CASE x \in Snap(k)
    BY <1>4, <1>5, <1>6, <1>8, <2>1, <2>2
  <2>3. CASE x \notin Snap(k)
    BY <1>5, <1>6, <1>7, <1>8, <2>1, <2>3
  <2> QED
    BY <2>2, <2>3
<1>12. Carriers(d)'
  BY <1>11 DEF Carriers
<1> QED
  BY <1>10, <1>12

LEMMA SnapshotLives ==
  ASSUME DeviceTypes, ChannelTypes, NEW d \in Devices, PageSnapshot(d), Life(d)
  PROVE  /\ Keeps(d)
         /\ (Up(d) /\ Up(d)') \/ (Saving(d) /\ Off(d)')
<1>1. /\ fromWorker[d] # <<>> /\ fromWorker[d][1].type = "snapshot" /\ UNCHANGED toPage
  BY SnapshotDoes
<1>2. (\A a \in page[d].asked : a.id # fromWorker[d][1].id) =>
        fromWorker'[d] = Tail(fromWorker[d]) /\ UNCHANGED <<page, worker, toParent, toWorker>>
  BY SnapshotDoes
<1>3. (\E a \in page[d].asked : a.id = fromWorker[d][1].id) =>
        \E a \in page[d].asked :
          /\ a.id = fromWorker[d][1].id
          /\ Resolved(d, a, fromWorker[d][1].files)
          /\ a.for # "restart" => fromWorker'[d] = Tail(fromWorker[d])
  BY SnapshotDoes
<1>4. Up(d) \/ Saving(d)
  BY <1>1, ReportHead
<1>5. CASE Up(d)
  <2>1. Unanswered(d) /\ Carriers(d)
    BY <1>5 DEF Up
  <2>2. /\ \A b \in page'[d].asked : b \in page[d].asked /\ b.id # fromWorker[d][1].id
        /\ fromWorker'[d] = Tail(fromWorker[d]) /\ toWorker'[d] = toWorker[d]
        /\ worker'[d].phase = worker[d].phase /\ page'[d].due = page[d].due
        /\ page'[d].restarting = page[d].restarting
    <3>1. CASE \A a \in page[d].asked : a.id # fromWorker[d][1].id
      BY <1>2, <3>1
    <3>2. CASE \E a \in page[d].asked : a.id = fromWorker[d][1].id
      BY <1>3, <1>5, <2>1, <3>2 DEF Up, Resolved, Settles, Unanswered
    <3> QED
      BY <3>1, <3>2
  <2>3. \/ toParent'[d] = toParent[d]
        \/ \E x \in ParentMessages : /\ toParent'[d] = Append(toParent[d], x)
                                     /\ x.type \notin {"error", "awaiting", "restarting"}
    <3>1. CASE \A a \in page[d].asked : a.id # fromWorker[d][1].id
      BY <1>2, <3>1
    <3>2. CASE \E a \in page[d].asked : a.id = fromWorker[d][1].id
      <4>1. PICK a \in page[d].asked : Resolved(d, a, fromWorker[d][1].files)
        BY <1>3, <3>2
      <4>2. a.for \in {"parent", "refresh"}
        BY <1>5 DEF Up
      <4>3. a.request \in Ids \cup {0} /\ fromWorker[d][1].files \in [Media -> Versions]
        BY <1>1, ReportHead, Fields DEF Requests, Reports, Message
      <4> DEFINE x == Snapshot(a.request, fromWorker[d][1].files)
      <4>4. x \in ParentMessages /\ x.type = "snapshot"
        BY <4>3, SnapshotTypes, SnapshotFields
      <4>5. CASE a.for = "parent"
        BY <4>1, <4>4, <4>5 DEF Resolved
      <4>6. CASE a.for = "refresh"
        BY <4>1, <4>6 DEF Resolved
      <4> QED
        BY <4>2, <4>5, <4>6
    <3> QED
      BY <3>1, <3>2
  <2>4. Unanswered(d)' /\ Carriers(d)'
    BY <1>1, <2>1, <2>2, AnswerTaken
  <2>5. Pops(Reports, fromWorker[d], fromWorker'[d])
    BY <1>1, <2>2, ReportPopped
  <2>6. No(toPage'[d], Of({"restart"})) /\ No(fromWorker'[d], Of({"reboot"}))
    BY <1>1, <1>5, <2>5 DEF Up, Pops
  <2>7. \A a \in page'[d].asked : a.for \in {"parent", "refresh"}
    BY <1>5, <2>2 DEF Up
  <2>8. Keeps(d) /\ Up(d)'
    BY <1>5, <2>2, <2>3, <2>4, <2>6, <2>7, UpStep
  <2> QED
    BY <1>5, <2>8
<1>6. CASE Saving(d)
  <2>1. PICK a \in page[d].asked : page[d].asked = {a} /\ a.for = "restart" /\ fromWorker[d][1] \in Snap(a.id)
    BY <1>1, <1>6, Single DEF Saving
  <2>2. Resolved(d, a, fromWorker[d][1].files)
    BY <1>3, <2>1 DEF Snap
  <2>3. fromWorker[d][1].files \in [Media -> Versions]
    BY <1>1, ReportHead DEF Reports, Message
  <2> DEFINE files == fromWorker[d][1].files
             asked == page[d].asked \ {a}
  <2>4. toParent' = toParent
    BY <2>1, <2>2 DEF Resolved
  <2>5. \E due \in Dues : Launch(d, files, asked, due) /\ (page[d].due # "retry" => due = page[d].due)
    BY <2>1, <2>2 DEF Resolved
  <2>6. page[d].due = "no" /\ toPage[d] = <<>>
    BY <1>6 DEF Saving, Running
  <2>7. asked = {} /\ asked \in SUBSET Requests /\ files \in [Media -> Versions] /\ "no" \in Dues
    BY <2>1, <2>3 DEF Dues
  <2> HIDE DEF files, asked
  <2>20. PICK due \in Dues : Launch(d, files, asked, due) /\ due = "no"
    BY <2>5, <2>6
  <2>8. Launch(d, files, asked, due)
    BY <2>20
  <2>9. toWorker'[d] = <<>> /\ fromWorker'[d] = <<>>
    BY <2>7, <2>8, LaunchDoes
  <2>10. page'[d].due = due
    BY <2>8, Fields DEF Launch, DeviceTypes, PageStates
  <2>11. worker'[d].phase = "booting"
    BY <2>7, <2>8, LaunchDoes
  <2>12. page'[d].asked = Orphans(asked)
    BY <2>7, <2>8, LaunchDoes
  <2>13. page'[d].restarting = Abandoned(asked)
    BY <2>7, <2>8, LaunchDoes
  <2>14. page'[d].asked = {} /\ page'[d].restarting = FALSE
    BY <2>7, <2>12, <2>13 DEF Orphans, Abandoned
  <2>15. toPage'[d] = <<>>
    BY <1>1, <2>6
  <2>16. Off(d)'
    BY <2>9, <2>10, <2>11, <2>14, <2>15, <2>20, Emptied DEF Off
  <2>17. (worker[d].phase # "none" \/ page[d].due # "no") /\ page[d].due # "media" /\ toParent'[d] = toParent[d]
    BY <1>6, <2>4, <2>6 DEF Saving, Running
  <2>18. Heard(d)'
    BY <2>17, HeardKept DEF Life
  <2>19. ~Steady(d)
    BY <1>6 DEF Saving, Steady, Up
  <2> QED
    BY <1>6, <2>16, <2>18, <2>19 DEF Keeps, Life
<1> QED
  BY <1>4, <1>5, <1>6

LEMMA HandlesLives ==
  ASSUME DeviceTypes, ChannelTypes, NEW d \in Devices, WorkerHandles(d), Life(d)
  PROVE  /\ Keeps(d)
         /\ (Up(d) /\ Up(d)') \/ (Saving(d) /\ Saving(d)' /\ toWorker[d][1].type = "snapshot")
<1>1. /\ worker'[d].phase = worker[d].phase
      /\ toWorker[d] # <<>> /\ toWorker'[d] = Tail(toWorker[d])
      /\ toWorker[d][1] \in WorkerMessages
      /\ HandledAs(d, toWorker[d][1])
      /\ UNCHANGED <<page, toPage, toParent>>
  BY HandlesDoes
<1> DEFINE c == toWorker[d][1]
<1>2. c.id \in Ids \cup {0} /\ worker[d].files \in [Media -> Versions]
  BY <1>1, Fields DEF WorkerMessages, Addressed, Message
<1> DEFINE x == Snapshot(c.id, worker[d].files)
<1>3. x \in Reports /\ x.type = "snapshot" /\ x.id = c.id
  BY <1>2, SnapshotTypes, SnapshotFields
<1>4. c.type = "snapshot" => fromWorker'[d] = Append(fromWorker[d], x)
  BY <1>1 DEF HandledAs
<1>5. Up(d) \/ (Saving(d) /\ c.type = "snapshot")
  BY <1>1, WorkHead
<1>6. c.type # "snapshot" =>
        \/ fromWorker'[d] = fromWorker[d]
        \/ \E r \in Reports : r.type \in {"sd-state", "card-state"} /\ fromWorker'[d] = Append(fromWorker[d], r)
  <2>1. SUFFICES ASSUME c.type # "snapshot"
                 PROVE  \/ fromWorker'[d] = fromWorker[d]
                        \/ \E r \in Reports : /\ r.type \in {"sd-state", "card-state"}
                                              /\ fromWorker'[d] = Append(fromWorker[d], r)
    OBVIOUS
  <2>2. c.type \in {"card-list"} \cup Commands
    BY <1>1, <2>1 DEF WorkerMessages, Addressed, Message
  <2>3. fromWorker'[d] = fromWorker[d] \/ Says(d, "card-state") \/ Says(d, "sd-state")
    BY <1>1, <2>2 DEF HandledAs, Commands, Rep
  <2>4. worker'[d].reader \in SUBSET Media
    BY HandlesDoes DEF DeviceTypes, WorkerStates
  <2>5. /\ Report("card-state", worker'[d].reader) \in Reports /\ Report("sd-state", worker'[d].reader) \in Reports
        /\ Report("card-state", worker'[d].reader).type = "card-state"
        /\ Report("sd-state", worker'[d].reader).type = "sd-state"
    BY <2>4, ReportTypes, ReportFields
  <2> QED
    BY <2>3, <2>5 DEF Says
<1> HIDE DEF x
<1>7. CASE Up(d)
  <2>1. Unanswered(d) /\ Carriers(d)
    BY <1>7 DEF Up
  <2>2. page'[d].asked = page[d].asked
    BY <1>1
  <2>3. CASE c.type = "snapshot"
    <3>1. Unanswered(d)' /\ Carriers(d)'
      BY <1>1, <1>3, <1>4, <2>1, <2>2, <2>3, RequestAnswered
    <3>2. Pushes(Reports, fromWorker[d], fromWorker'[d], x)
      BY <1>3, <1>4, <2>3, ReportPushed
    <3>3. x \notin Of({"reboot"})
      BY <1>3 DEF Of
    <3>4. No(fromWorker'[d], Of({"reboot"}))
      BY <1>7, <3>2, <3>3 DEF Up, Pushes
    <3> QED
      BY <3>1, <3>4, <1>1, <1>7, UpStep DEF Up
  <2>4. CASE c.type # "snapshot"
    <3>1. Pops(WorkerMessages, toWorker[d], toWorker'[d])
      BY <1>1, WorkerPopped
    <3>2. Alike(toWorker[d], toWorker'[d])
      BY <2>4, <3>1, AlikePopped
    <3>3. Alike(fromWorker[d], fromWorker'[d]) /\ No(fromWorker'[d], Of({"reboot"}))
      <4>1. CASE fromWorker'[d] = fromWorker[d]
        BY <1>7, <4>1, AlikeSame DEF Up
      <4>2. ASSUME NEW r \in Reports, r.type \in {"sd-state", "card-state"},
                   fromWorker'[d] = Append(fromWorker[d], r)
            PROVE  Alike(fromWorker[d], fromWorker'[d]) /\ No(fromWorker'[d], Of({"reboot"}))
        <5>1. Pushes(Reports, fromWorker[d], fromWorker'[d], r)
          BY <4>2, ReportPushed
        <5>2. r \notin Of({"reboot"}) /\ r.type # "snapshot"
          BY <4>2 DEF Of
        <5>3. No(fromWorker'[d], Of({"reboot"}))
          BY <1>7, <5>1, <5>2 DEF Up, Pushes
        <5> QED
          BY <5>1, <5>2, <5>3, AlikePushed
      <4> QED
        BY <1>6, <2>4, <4>1, <4>2
    <3>4. Unanswered(d)' /\ Carriers(d)'
      BY <2>1, <2>2, <3>2, <3>3, RequestsKept
    <3> QED
      BY <3>3, <3>4, <1>1, <1>7, UpStep DEF Up
  <2> QED
    BY <2>3, <2>4
<1>8. CASE Saving(d) /\ c.type = "snapshot"
  <2>1. PICK a \in page[d].asked : /\ page[d].asked = {a} /\ a.for = "restart" /\ c \in Snap(a.id)
                                   /\ toWorker[d] = <<c>> /\ fromWorker[d] = <<>>
    BY <1>1, <1>8, Single DEF Saving
  <2>2. toWorker'[d] = <<>>
    <3> HIDE DEF c
    <3>1. toWorker[d] = <<c>> /\ toWorker'[d] = Tail(toWorker[d])
      BY <1>1, <2>1
    <3>2. Tail(<<c>>) = <<>>
      BY Single
    <3> QED
      BY <3>1, <3>2
  <2>3. fromWorker'[d] = <<x>>
    BY <1>4, <1>8, <2>1, FirstPushed
  <2>4. x \in Snap(a.id)
    BY <1>3, <2>1, AllMessages DEF Snap
  <2>5. x \in In(fromWorker'[d])
    BY <2>3, Single
  <2>6. Saving(d)'
    BY <1>1, <1>8, <2>1, <2>2, <2>3, <2>4, <2>5 DEF Saving, Running
  <2>7. Heard(d)'
    BY <1>1 DEF Life, Heard
  <2>8. ~Steady(d)
    BY <1>8 DEF Saving, Steady, Up
  <2> QED
    BY <1>8, <2>6, <2>7, <2>8 DEF Keeps, Life
<1> QED
  BY <1>5, <1>7, <1>8

LEMMA NotUp ==
  ASSUME NEW d \in Devices, Off(d) \/ Told(d) \/ Rebooting(d) \/ Saving(d)
  PROVE  ~Up(d) /\ ~Steady(d)
<1> SUFFICES ~Up(d)
  BY DEF Steady
<1>1. CASE Off(d)
  BY <1>1 DEF Off, Up, Running
<1>2. CASE Told(d)
  BY <1>2, Single, PlainTypes, PlainFields, AllMessages DEF Told, Of, Up, No
<1>3. CASE Rebooting(d)
  BY <1>3, Single, PlainTypes, PlainFields, AllMessages DEF Rebooting, Of, Up, No
<1>4. CASE Saving(d)
  BY <1>4 DEF Saving, Up
<1> QED
  BY <1>1, <1>2, <1>3, <1>4

\* No step of its own takes a device out of its course.
LEMMA DeviceLives ==
  ASSUME DeviceTypes, ChannelTypes, ~Stalls, NEW d \in Devices, Device(d), Life(d)
  PROVE  Keeps(d)
<1>1. CASE PageStarts(d) \/ PageRestarts(d) \/ PageReboots(d) \/ WorkerReady(d) \/ WorkerRuns(d)
  BY <1>1, StartsLives, RestartsLives, RebootsLives, ReadyLives, RunsLives, NotUp DEF Keeps
<1>2. CASE PageProvided(d) \/ PageExports(d) \/ PageForwards(d)
  BY <1>2, ProvidedLives, ExportsLives, ForwardsLives
<1>3. CASE PageSeesRunning(d) \/ PageSeesSd(d) \/ PageSeesCard(d)
  BY <1>3, SeesRunningLives, SeesSdLives, SeesCardLives
<1>4. CASE PageSnapshot(d) \/ WorkerHandles(d)
  BY <1>4, SnapshotLives, HandlesLives
<1>5. ASSUME NEW a \in page[d].asked, PageTimeout(d, a)
      PROVE  FALSE
  BY <1>5, TimeoutLives
<1> QED
  BY <1>1, <1>2, <1>3, <1>4, <1>5 DEF Device, PageSteps, WorkerSteps

\* What two channels become when the second is put behind the first.
Joins(S, s, t, u) ==
  /\ In(u) = In(s) \cup In(t) /\ In(s) \subseteq S /\ In(t) \subseteq S
  /\ \A A : No(u, A) <=> No(s, A) /\ No(t, A)

LEMMA Joined ==
  ASSUME NEW S, NEW s \in Seq(S), NEW t \in Seq(S), NEW u, u = s \o t
  PROVE  Joins(S, s, t, u)
<1>1. /\ Len(s) \in Nat /\ Len(t) \in Nat /\ u \in Seq(S) /\ Len(u) = Len(s) + Len(t)
      /\ \A i \in 1..(Len(s) + Len(t)) : u[i] = IF i <= Len(s) THEN s[i] ELSE t[i - Len(s)]
  BY ConcatProperties
<1>2. DOMAIN s = 1..Len(s) /\ DOMAIN t = 1..Len(t) /\ DOMAIN u = 1..(Len(s) + Len(t))
  BY <1>1
<1>3. In(u) \subseteq In(s) \cup In(t)
  <2> SUFFICES ASSUME NEW i \in DOMAIN u
               PROVE  u[i] \in In(s) \cup In(t)
    BY DEF In
  <2>1. CASE i <= Len(s)
    BY <1>1, <1>2, <2>1 DEF In
  <2>2. CASE ~(i <= Len(s))
    BY <1>1, <1>2, <2>2 DEF In
  <2> QED
    BY <2>1, <2>2
<1>4. In(s) \subseteq In(u)
  <2> SUFFICES ASSUME NEW i \in DOMAIN s
               PROVE  s[i] \in In(u)
    BY DEF In
  <2>1. i \in DOMAIN u /\ u[i] = s[i]
    BY <1>1, <1>2
  <2> QED
    BY <2>1 DEF In
<1>5. In(t) \subseteq In(u)
  <2> SUFFICES ASSUME NEW i \in DOMAIN t
               PROVE  t[i] \in In(u)
    BY DEF In
  <2>1. i + Len(s) \in DOMAIN u /\ ~(i + Len(s) <= Len(s)) /\ (i + Len(s)) - Len(s) = i
    BY <1>1, <1>2
  <2>2. u[i + Len(s)] = t[i]
    BY <1>1, <1>2, <2>1
  <2> QED
    BY <2>1, <2>2 DEF In
<1>6. In(s) \subseteq S /\ In(t) \subseteq S
  BY DEF In
<1>7. In(u) = In(s) \cup In(t)
  BY <1>3, <1>4, <1>5
<1>8. \A A : No(u, A) <=> No(s, A) /\ No(t, A)
  BY <1>7 DEF No
<1> QED
  BY <1>6, <1>7, <1>8 DEF Joins

\* What the gallery sends for a transfer: commands, and the request after them.
Orders == {c \in PageMessages : c.type \in {"export"} \cup Commands}
Sent(d) == toPage'[d] = toPage[d] \/ \E msgs \in Seq(Orders) : toPage'[d] = toPage[d] \o msgs

LEMMA CommandOrders ==
  ASSUME NEW m \in Media, NEW type \in Commands
  PROVE  Command(type, m) \in Orders
<1>1. Command(type, m) \in PageMessages
  BY CommandTypes, NoFilesType
<1>2. Command(type, m).type = type
  BY CommandFields
<1> QED
  BY <1>1, <1>2 DEF Orders

LEMMA OrderTypes ==
  /\ \A id \in Ids : Export(id) \in Orders
  /\ \A m \in Media : Removal(m) \in Seq(Orders)
  /\ \A o \in Operations : o.m \in Media /\ kept' \in [Media -> Versions] => Insertion(o) \in Seq(Orders)
  /\ <<>> \in Seq(Orders) /\ (SD \in Media => <<Command("edit", SD)>> \in Seq(Orders))
<1>1. \A id \in Ids : Export(id) \in Orders
  BY SnapshotTypes, ExportFields, NoFilesType DEF Orders
<1>2. \A m \in Media : Removal(m) \in Seq(Orders)
  <2> SUFFICES ASSUME NEW m \in Media
               PROVE  Removal(m) \in Seq(Orders)
    OBVIOUS
  <2>1. Command("eject", m) \in Orders /\ Command("remove", m) \in Orders
    BY CommandOrders DEF Commands
  <2> QED
    BY <2>1 DEF Removal
<1>3. ASSUME NEW o \in Operations, o.m \in Media, kept' \in [Media -> Versions]
      PROVE  Insertion(o) \in Seq(Orders)
  <2>1. [Command("import", o.m) EXCEPT !.files = CopyOf(o.m, kept')] \in PageMessages
        /\ Command("insert", o.m) \in PageMessages
    BY <1>3, InsertionTypes DEF Insertion
  <2>2. [Command("import", o.m) EXCEPT !.files = CopyOf(o.m, kept')].type = "import"
        /\ Command("insert", o.m).type = "insert"
    BY DEF Command, Plain
  <2>3. [Command("import", o.m) EXCEPT !.files = CopyOf(o.m, kept')] \in Orders
        /\ Command("insert", o.m) \in Orders
    BY <2>1, <2>2 DEF Orders, Commands
  <2> QED
    BY <2>3 DEF Insertion
<1>4. SD \in Media => <<Command("edit", SD)>> \in Seq(Orders)
  BY CommandOrders DEF Commands
<1>5. <<>> \in Seq(Orders)
  OBVIOUS
<1> QED
  BY <1>1, <1>2, <1>3, <1>4, <1>5

LEMMA AsksSends ==
  ASSUME NEW d, NEW commands \in Seq(Orders), NEW next, Asks(d, commands, next) \/ Rejects(d, commands)
  PROVE  Sent(d)
<1>1. CASE Asks(d, commands, next)
  <2>1. op'.id \in Ids /\ toPage'[d] = toPage[d] \o Append(commands, Export(op'.id))
    BY <1>1 DEF Asks
  <2>2. Append(commands, Export(op'.id)) \in Seq(Orders)
    BY <2>1, OrderTypes
  <2> QED
    BY <2>1, <2>2 DEF Sent
<1>2. CASE Rejects(d, commands)
  BY <1>2 DEF Rejects, Sent
<1> QED
  BY <1>1, <1>2

LEMMA GoesSends ==
  ASSUME NEW o \in Operations, NEW own, Goes(o, own), kept' \in [Media -> Versions], NEW e \in Devices
  PROVE  Sent(e)
<1>1. o.m \in Media
  BY DEF Goes, Plannable
<1>2. Insertion(o) \in Seq(Orders) /\ <<>> \in Seq(Orders)
  BY <1>1, OrderTypes
<1>3. CASE e # Where(o, own)
  BY <1>3 DEF Goes, Sent
<1>4. CASE e = Where(o, own)
  <2>1. CASE o.out # <<>>
    BY <1>2, <1>4, <2>1, AsksSends DEF Where, Goes, Detaches, Inserts, Ends
  <2>2. CASE o.out = <<>>
    BY <1>2, <1>4, <2>2, AsksSends DEF Where, Goes, Detaches, Inserts, Ends, Sent
  <2> QED
    BY <2>1, <2>2
<1> QED
  BY <1>3, <1>4

LEMMA UserSends ==
  ASSUME Types, UserDoes, kept' \in [Media -> Versions], NEW e \in Devices
  PROVE  Sent(e)
<1>1. <<>> \in Seq(Orders) /\ <<Command("edit", SD)>> \in Seq(Orders)
  BY OrderTypes DEF Media
<1>2. ASSUME NEW commands \in Seq(Orders), Reads(commands)
      PROVE  Sent(e)
  BY <1>2, AsksSends DEF Reads, Sent
<1>3. ASSUME NEW o \in Operations, Goes(o, owner)
      PROVE  Sent(e)
  BY <1>3, GoesSends
<1>4. toPage' = toPage => Sent(e)
  BY DEF Sent
<1> QED
  BY <1>1, <1>2, <1>3, <1>4 DEF UserDoes

LEMMA HeardTaken ==
  ASSUME ChannelTypes, NEW d \in Devices, Heard(d), toParent[d] # <<>>, toParent'[d] = Tail(toParent[d]),
         worker'[d] = worker[d], page'[d] = page[d],
         toPage'[d] = toPage[d] \/ page[d].due # "media" \/ toParent[d][1].type = "awaiting"
  PROVE  Heard(d)' /\ \A A : No(toParent[d], A) => No(toParent'[d], A)
<1>1. Pops(ParentMessages, toParent[d], toParent'[d])
  BY ParentPopped
<1>2. In(toParent'[d]) \subseteq In(toParent[d])
  BY <1>1 DEF Pops
<1>3. Never(toParent'[d], Of({"awaiting"}), Of({"awaiting"}))
  BY <1>1 DEF Pops, Heard
<1>4. toParent[d][1].type = "awaiting" => No(toParent'[d], Of({"awaiting"}))
  <2>1. toParent[d][1] \in Messages
    BY ChannelsOf, TailFacts, AllMessages
  <2>2. toParent[d][1].type = "awaiting" => toParent[d][1] \in Of({"awaiting"})
    BY <2>1 DEF Of
  <2> QED
    BY <1>1, <2>2 DEF Pops, Heard
<1>5. \A c \in In(toParent'[d]) : c \in Messages
  BY <1>1, <1>2, AllMessages DEF Pops
<1>6. \A c \in In(toParent'[d]) : c.type = "awaiting" => page'[d].due = "media" /\ toPage'[d] = <<>>
  BY <1>2, <1>4, <1>5 DEF Heard, No, Of
<1>7. Heard(d)'
  BY <1>2, <1>3, <1>6 DEF Heard
<1>8. \A A : No(toParent[d], A) => No(toParent'[d], A)
  BY <1>1 DEF Pops
<1> QED
  BY <1>7, <1>8

\* The gallery sends to a device that works, or hears from it.
LEMMA SentLives ==
  ASSUME DeviceTypes, ChannelTypes, NEW d \in Devices, Life(d), Up(d), Sent(d),
         page'[d] = page[d], worker'[d] = worker[d], toWorker'[d] = toWorker[d], fromWorker'[d] = fromWorker[d],
         toParent'[d] = toParent[d] \/ (toParent[d] # <<>> /\ toParent'[d] = Tail(toParent[d]))
  PROVE  Life(d)' /\ Up(d)' /\ \A A : No(toParent[d], A) => No(toParent'[d], A)
<1>1. page[d].due = "no" /\ worker[d].phase = "running" /\ Heard(d)
  BY DEF Up, Running, Life
<1>2. Heard(d)' /\ \A A : No(toParent[d], A) => No(toParent'[d], A)
  BY <1>1, HeardTaken DEF Heard
<1>3. No(toPage'[d], Of({"restart"}))
  <2>1. No(toPage[d], Of({"restart"}))
    BY DEF Up
  <2>2. ASSUME NEW msgs \in Seq(Orders), toPage'[d] = toPage[d] \o msgs
        PROVE  No(toPage'[d], Of({"restart"}))
    <3>1. toPage[d] \in Seq(PageMessages)
      BY ChannelsOf
    <3>2. msgs \in Seq(PageMessages)
      BY DEF Orders
    <3>3. Joins(PageMessages, toPage[d], msgs, toPage'[d])
      BY <2>2, <3>1, <3>2, Joined
    <3>4. No(msgs, Of({"restart"}))
      BY DEF In, No, Of, Orders, Commands
    <3> QED
      BY <2>1, <3>3, <3>4 DEF Joins
  <2> QED
    BY <2>1, <2>2 DEF Sent
<1>4. Up(d)'
  BY <1>3 DEF Up, Running, Unanswered, Carriers
<1> QED
  BY <1>2, <1>4 DEF Life

\* Nothing but its messages to the gallery changes.
LEMMA TakenLives ==
  ASSUME ChannelTypes, NEW d \in Devices, Life(d),
         page'[d] = page[d], worker'[d] = worker[d], toPage'[d] = toPage[d],
         toWorker'[d] = toWorker[d], fromWorker'[d] = fromWorker[d],
         toParent[d] # <<>>, toParent'[d] = Tail(toParent[d])
  PROVE  Life(d)' /\ (Up(d) => Up(d)') /\ \A A : No(toParent[d], A) => No(toParent'[d], A)
BY HeardTaken DEF Life, Off, Up, Running, Unanswered, Carriers, Told, Rebooting, Saving

LEMMA AwaitingLives ==
  ASSUME DeviceTypes, ChannelTypes, BenchTypes, NEW d \in Devices, HearsAwaiting(d), Life(d)
  PROVE  Life(d)' /\ Off(d) /\ Off(d)'
<1>1. /\ toParent[d] # <<>> /\ toParent[d][1].type = "awaiting" /\ toParent'[d] = Tail(toParent[d])
      /\ UNCHANGED <<page, worker, toWorker, fromWorker>>
  BY AwaitingDoes
<1>2. PICK files \in [Media -> Versions] :
        toPage'[d] = Append(toPage[d], [Plain("provide") EXCEPT !.files = files])
  BY AwaitingDoes
<1>3. toParent[d][1] \in In(toParent[d])
  BY <1>1, ChannelsOf, TailFacts DEF In
<1>4. page[d].due = "media" /\ toPage[d] = <<>>
  BY <1>1, <1>3 DEF Life, Heard
<1> DEFINE c == [Plain("provide") EXCEPT !.files = files]
<1>5. c.type = "provide"
  BY DEF Plain
<1>6. toPage'[d] = <<c>>
  BY <1>2, <1>4, FirstPushed
<1> HIDE DEF c
<1>7. In(toPage'[d]) = {c}
  BY <1>6, Single
<1>8. Off(d)
  BY <1>4 DEF Life, Up, Told, Rebooting, Saving, Running
<1>9. Off(d)'
  BY <1>1, <1>5, <1>7, <1>8 DEF Off
<1>10. Heard(d)'
  BY <1>1, HeardTaken DEF Life
<1> QED
  BY <1>8, <1>9, <1>10 DEF Life

\* Interruptions come when everything rests.
LEMMA RestingLife ==
  ASSUME NEW d \in Devices, AtRest, Life(d)
  PROVE  /\ d \in ready /\ Up(d) /\ Running(d) /\ page[d].asked = {} /\ ~page[d].restarting
         /\ toPage[d] = <<>> /\ toParent[d] = <<>> /\ toWorker[d] = <<>> /\ fromWorker[d] = <<>>
BY LifeOf, Emptied DEF AtRest, Running, Up, Unanswered, Carriers

LEMMA InterruptionLives ==
  ASSUME Types, ~Overlap, NEW d \in Devices, Interruption(d), Life(d)
  PROVE  AtRest /\ Life(d)' /\ op' = op /\ Elsewhere(d)
<1>1. AtRest
  BY DEF Interruption, RestartButton, Reboot, Reload, Crash, Upset
<1>2. /\ Running(d) /\ page[d].asked = {} /\ ~page[d].restarting
      /\ toPage[d] = <<>> /\ toParent[d] = <<>> /\ toWorker[d] = <<>> /\ fromWorker[d] = <<>>
  BY <1>1, RestingLife
<1>3. DeviceTypes /\ ChannelTypes
  BY DEF Types
<1>4. CASE RestartButton(d)
  BY <1>1, <1>2, <1>4, ButtonDoes, FirstPushed, Emptied DEF Told, Running, Heard, Life
<1>5. CASE Reboot(d)
  <2>1. FirmwareReboots(d) /\ op' = op
    BY <1>5 DEF Reboot
  <2>2. /\ Elsewhere(d) /\ fromWorker'[d] = Append(fromWorker[d], Plain("reboot"))
        /\ UNCHANGED <<page, worker, toPage, toParent, toWorker>>
    BY <1>3, <2>1, FirmwareRebootsDoes
  <2>3. fromWorker'[d] = <<Plain("reboot")>>
    BY <1>2, <2>2, FirstPushed
  <2>4. Rebooting(d)'
    BY <1>2, <2>2, <2>3 DEF Rebooting, Running
  <2>5. Heard(d)'
    BY <1>2, <2>2, Emptied DEF Heard
  <2> QED
    BY <1>1, <2>1, <2>2, <2>4, <2>5 DEF Life
<1>6. ASSUME NEW retries \in BOOLEAN, Crash(d, retries)
      PROVE  AtRest /\ Life(d)' /\ op' = op /\ Elsewhere(d)
  <2>1. WorkerCrashes(d, retries) /\ op' = op
    BY <1>6 DEF Crash
  <2>2. /\ Elsewhere(d) /\ worker'[d] = NoWorker
        /\ toWorker'[d] = <<>> /\ fromWorker'[d] = <<>>
        /\ page'[d].restarting = page[d].restarting /\ page'[d].asked = Orphans(page[d].asked)
        /\ page'[d].due = IF retries /\ page[d].due = "no" THEN "retry" ELSE page[d].due
        /\ UNCHANGED toPage
    BY <1>3, <2>1, CrashesDoes
  <2>3. (retries => UNCHANGED toParent) /\ (~retries => toParent'[d] = Append(toParent[d], Plain("error")))
    BY <1>3, <2>1, CrashesDoes
  <2>4. page'[d].asked = {} /\ ~page'[d].restarting /\ toPage'[d] = <<>> /\ worker'[d].phase = "none"
    BY <1>2, <2>2 DEF Orphans, NoWorker
  <2>5. Off(d)'
    BY <2>2, <2>4, Emptied DEF Off
  <2>6. ASSUME retries
        PROVE  Heard(d)'
    BY <1>2, <2>3, <2>6, Emptied DEF Heard
  <2>7. ASSUME ~retries
        PROVE  Heard(d)'
    <3>1. toParent'[d] = <<Plain("error")>>
      BY <1>2, <2>3, <2>7, FirstPushed
    <3>2. In(toParent'[d]) = {Plain("error")}
      BY <3>1, Single
    <3>3. page'[d].due = "no"
      BY <1>2, <2>2, <2>7 DEF Running
    <3>4. No(toParent'[d], Of({"awaiting"}))
      BY <3>2, PlainFields DEF No, Of
    <3> QED
      BY <2>4, <3>2, <3>3, <3>4, PlainFields, NoneBehind DEF Heard
  <2> QED
    BY <1>1, <2>1, <2>2, <2>5, <2>6, <2>7 DEF Life
<1>7. CASE Reload(d)
  <2>1. /\ Elsewhere(d) /\ page'[d] = LoadedPage /\ worker'[d] = NoWorker
        /\ toPage'[d] = <<>> /\ toParent'[d] = Append(toParent[d], Plain("awaiting"))
        /\ toWorker'[d] = <<>> /\ fromWorker'[d] = <<>> /\ op' = op
    BY <1>3, <1>7, ReloadDoes
  <2>2. toParent'[d] = <<Plain("awaiting")>>
    BY <1>2, <2>1, FirstPushed
  <2>3. In(toParent'[d]) = {Plain("awaiting")} /\ Never(toParent'[d], Of({"awaiting"}), Of({"awaiting"}))
    BY <2>2, Single DEF Never
  <2>4. page'[d].due = "media" /\ page'[d].asked = {} /\ ~page'[d].restarting /\ worker'[d].phase = "none"
    BY <2>1 DEF LoadedPage, NoWorker
  <2>5. Off(d)'
    BY <2>1, <2>4, Emptied DEF Off
  <2>6. Heard(d)'
    BY <2>1, <2>3, <2>4, PlainFields DEF Heard
  <2> QED
    BY <1>1, <2>1, <2>5, <2>6 DEF Life
<1> QED
  BY <1>4, <1>5, <1>6, <1>7 DEF Interruption

LEMMA UndisturbedSteady ==
  ASSUME Lives, Undisturbed, NEW d \in Devices
  PROVE  Steady(d)
<1>1. Life(d)
  BY DEF Lives
<1>2. /\ d \in ready /\ worker[d].phase = "running" /\ ~page[d].restarting
      /\ ~Occurs(toPage, d, "restart", 0)
      /\ ~Occurs(fromWorker, d, "reboot", 0)
      /\ ~Occurs(toParent, d, "restarting", 0)
  BY DEF Undisturbed
<1>3. ~Off(d) /\ ~Saving(d)
  BY <1>2 DEF Off, Saving
<1>4. ~Told(d)
  BY <1>2, Single, PlainFields DEF Told, Occurs
<1>5. ~Rebooting(d)
  BY <1>2, Single, PlainFields DEF Rebooting, Occurs
<1>6. Up(d) /\ Heard(d)
  BY <1>1, <1>3, <1>4, <1>5 DEF Life
<1>7. No(toParent[d], Of({"restarting"}))
  BY <1>2, <1>6 DEF Heard, Occurs, In, No, Of
<1> QED
  BY <1>2, <1>6, <1>7 DEF Steady

LEMMA SameSteady ==
  ASSUME NEW e \in Devices, Same(e), Steady(e), e \in ready'
  PROVE  Steady(e)'
BY DEF Same, Steady, Up, Running, Unanswered, Carriers

\* The gallery sends in a step in which all devices work.
LEMMA BenchLives ==
  ASSUME Types, Lives, \A e \in Devices : Steady(e) /\ Sent(e),
         UNCHANGED <<page, worker, toWorker, fromWorker, ready>>,
         \A e \in Devices : \/ toParent'[e] = toParent[e]
                            \/ toParent[e] # <<>> /\ toParent'[e] = Tail(toParent[e])
  PROVE  Lives' /\ \A e \in Devices : Steady(e)'
<1>1. ASSUME NEW e \in Devices
      PROVE  Life(e)' /\ Steady(e)'
  BY SentLives DEF Lives, Types, Steady
<1> QED
  BY <1>1 DEF Lives

LEMMA AnsweredSends ==
  ASSUME Types, NEW d \in Devices, Saved(d) \/ Cleared(d) \/ Inserted(d) \/ Read(d)
  PROVE  /\ \E at \in {"saving", "clearing", "inserting", "reading"} : Answered(d, at)
         /\ \A e \in Devices : Sent(e)
<1>1. CASE Saved(d)
  <2>1. SavedDo(d)
    BY <1>1, SavedDoes
  <2>2. Sent(d)
    BY <2>1, OrderTypes, AsksSends DEF SavedDo
  <2> QED
    BY <2>1, <2>2 DEF SavedDo, Sent
<1>2. CASE Cleared(d)
  BY <1>2, ClearedDoes, GoesSends DEF ClearedDo, Goes, Plannable, Types, BenchTypes
<1>3. CASE Inserted(d)
  BY <1>3, InsertedDoes DEF InsertedDo, Sent
<1>4. CASE Read(d)
  BY <1>4, ReadDoes DEF ReadDo, Sent
<1> QED
  BY <1>1, <1>2, <1>3, <1>4

LEMMA DevicesLive ==
  ASSUME Types, Lives, NEW d \in Devices, Keeps(d), Elsewhere(d), UNCHANGED <<op, ready>>
  PROVE  Lives'
<1>1. \A e \in Devices \ {d} : Same(e) /\ Life(e)
  BY DEF Elsewhere, Lives
<1>2. \A e \in Devices \ {d} : Life(e)'
  BY <1>1, SameLife
<1>3. \A e \in Devices : Life(e)'
  BY <1>2 DEF Keeps
<1>4. ASSUME busy, NEW e \in Devices
      PROVE  Steady(e)'
  BY <1>1, <1>4, SameSteady DEF Lives, Steady, Keeps
<1> QED
  BY <1>3, <1>4 DEF Lives, busy

LEMMA LivesInit == Init => Lives
<1> SUFFICES ASSUME Init
             PROVE  Lives
  OBVIOUS
<1>1. ASSUME NEW d \in Devices
      PROVE  Life(d)
  <2>1. /\ page[d] = LoadedPage /\ worker[d] = NoWorker /\ toPage[d] = <<>>
        /\ toParent[d] = <<Plain("awaiting")>> /\ toWorker[d] = <<>> /\ fromWorker[d] = <<>>
    BY DEF Init, PageInit
  <2>2. page[d].due = "media" /\ page[d].asked = {} /\ ~page[d].restarting /\ worker[d].phase = "none"
    BY <2>1 DEF LoadedPage, NoWorker
  <2>3. Off(d)
    BY <2>1, <2>2, Emptied DEF Off
  <2>4. In(toParent[d]) = {Plain("awaiting")}
    BY <2>1, Single
  <2>5. Never(<<Plain("awaiting")>>, Of({"awaiting"}), Of({"awaiting"}))
    BY DEF Never
  <2>6. Heard(d)
    BY <2>1, <2>2, <2>4, <2>5, PlainFields DEF Heard
  <2> QED
    BY <2>3, <2>6 DEF Life
<1>2. ~busy
  BY DEF Init, NoOp, busy
<1> QED
  BY <1>1, <1>2 DEF Lives

LEMMA LivesKept ==
  ASSUME ~Overlap, ~Stalls, Types, Lives, [Next]_vars
  PROVE  Lives'
<1>0. DeviceTypes /\ ChannelTypes /\ BenchTypes
  BY DEF Types
<1>1. CASE User
  BY <1>1, UserTypes, UndisturbedSteady, UserSends, BenchLives DEF User, Types, BenchTypes,
     UserDoes
<1>2. CASE Expires
  BY <1>2, SameLife DEF Expires, pageVars, channels, Same, Lives, busy, NoOp
<1>3. ASSUME NEW d \in Devices, HearsAwaiting(d)
      PROVE  Lives'
  BY <1>0, <1>3, AwaitingLives, AwaitingDoes, NotUp, SameLife DEF Lives, bench, busy, Elsewhere
<1>4. ASSUME NEW d \in Devices, HearsState(d) \/ HearsStale(d)
      PROVE  Lives'
  <2>1. /\ toParent[d] # <<>> /\ toParent'[d] = Tail(toParent[d])
        /\ \A e \in Devices \ {d} : toParent'[e] = toParent[e]
        /\ UNCHANGED <<page, worker, toPage, toWorker, fromWorker, op>>
    BY <1>0, <1>4, StateDoes, ToParentTaken DEF StateDo, HearsStale, Hears, Has, bench
  <2>2. \A e \in Devices \ {d} : Same(e)
    BY <2>1 DEF Same
  <2>3. Life(d)' /\ (Up(d) => Up(d)') /\ \A A : No(toParent[d], A) => No(toParent'[d], A)
    BY <1>0, <2>1, TakenLives DEF Lives
  <2>4. \A e \in Devices : Life(e)'
    BY <2>2, <2>3, SameLife DEF Lives
  <2>5. busy => ready \subseteq ready'
    <3>1. CASE HearsStale(d)
      BY <3>1 DEF HearsStale, bench
    <3>2. CASE HearsState(d)
      <4>1. StateDo(d)
        BY <3>2, StateDoes
      <4>2. toParent[d][1] \in In(toParent[d]) /\ toParent[d][1] \in Messages
        BY <1>0, <2>1, ChannelsOf, TailFacts, AllMessages DEF In
      <4>3. ASSUME busy
            PROVE  toParent[d][1].type # "restarting" /\ toParent[d][1].type # "error"
        BY <4>2, <4>3 DEF Lives, Life, Steady, No, Of, Up, Running, Heard
      <4> QED
        BY <4>1, <4>3 DEF StateDo
    <3> QED
      BY <1>4, <3>1, <3>2
  <2>6. ASSUME busy, NEW e \in Devices
        PROVE  Steady(e)'
    BY <2>2, <2>3, <2>5, <2>6, SameSteady DEF Lives, Steady
  <2> QED
    BY <2>1, <2>4, <2>6 DEF Lives, busy
<1>5. ASSUME NEW d \in Devices, Saved(d) \/ Cleared(d) \/ Inserted(d) \/ Read(d)
      PROVE  Lives'
  BY <1>5, AnsweredSends, BenchLives DEF Answered, Lives
<1>6. ASSUME NEW d \in Devices, Device(d)
      PROVE  Lives'
  BY <1>0, <1>6, DeviceLives, DeviceStepTypes, DevicesLive DEF Lives, bench
<1>7. ASSUME NEW d \in Devices, Firmware(d)
      PROVE  Lives'
  BY <1>0, <1>7, WritesLives, WritesDoes, DevicesLive DEF Firmware, Lives, bench
<1>8. ASSUME NEW d \in Devices, Interruption(d)
      PROVE  Lives'
  BY <1>8, InterruptionLives, SameLife DEF Lives, AtRest, busy, Elsewhere
<1>9. CASE UNCHANGED vars
  <2>1. \A e \in Devices : Same(e)
    BY <1>9 DEF Same, vars, pageVars, channels
  <2>2. op' = op /\ ready' = ready
    BY <1>9 DEF vars, bench
  <2> QED
    BY <2>1, <2>2, SameLife, SameSteady DEF Lives, busy, Steady
<1> QED
  BY <1>1, <1>2, <1>3, <1>4, <1>5, <1>6, <1>7, <1>8, <1>9 DEF Next, Bench

LEMMA LivesHold == ~Overlap /\ ~Stalls /\ Spec => [](Types /\ Lives)
<1> SUFFICES ASSUME ~Overlap, ~Stalls
             PROVE  Spec => [](Types /\ Lives)
  OBVIOUS
<1>1. Lives /\ Types /\ [Next]_vars => Lives'
  BY LivesKept
<1> QED
  BY <1>1, LivesInit, TypesHold, PTL DEF Spec

-----------------------------------------------------------------------------
(* The request the operation waits for has exactly one carrier, and what the *)
(* operation told the device before is ahead of it.                         *)
Fits(c) == /\ op.at = "clearing" => c.type \in {"eject", "remove"} /\ c.m = Head(op.out)
           /\ op.at = "inserting" => c.type \in {"import", "insert"} /\ c.m = op.m
           /\ op.at = "reading" => c.type = "edit" /\ c.m = SD
           /\ op.at # "saving"

Unasked(d) == \A a \in page[d].asked : a.for # "parent"
Bare(d) ==
  /\ No(toPage[d], Of({"export"} \cup Commands)) /\ No(toWorker[d], Of(Commands))
  /\ Unasked(d) /\ No(toParent[d], Of({"snapshot"}))

AtPage(d) ==
  /\ \E c \in In(toPage[d]) : c.type = "export" /\ c.id = op.id
  /\ Never(toPage[d], Of({"export"}), Messages)
  /\ Unasked(d) /\ No(toParent[d], Of({"snapshot"}))
AtWorker(d) ==
  /\ toPage[d] = <<>>
  /\ \E a \in page[d].asked :
       /\ a.for = "parent" /\ a.request = op.id
       /\ \A b \in page[d].asked : b.for = "parent" => b = a
       /\ Never(toWorker[d], Snap(a.id), Of(Commands))
       /\ No(fromWorker[d], Snap(a.id)) \/ No(toWorker[d], Of(Commands))
  /\ No(toParent[d], Of({"snapshot"}))
AtGallery(d) ==
  /\ toPage[d] = <<>> /\ Unasked(d) /\ No(toWorker[d], Of(Commands))
  /\ ~No(toParent[d], Of({"snapshot"}))
  /\ \A c \in In(toParent[d]) : c.type = "snapshot" => c.id = op.id
  /\ Never(toParent[d], Of({"snapshot"}), Of({"snapshot"}))
Fitting(d)  == \A c \in In(toPage[d]) \cup In(toWorker[d]) : c.type \in Commands => Fits(c)
Carrying(d) == Fitting(d) /\ (AtPage(d) \/ AtWorker(d) \/ AtGallery(d))

OneCarrier ==
  /\ \A d \in Devices : (busy /\ d = op.from) \/ Bare(d)
  /\ busy => Carrying(op.from)

\* While a medium is removed from a device: an eject has a remove behind it,
\* and what is not under way any more is done.
Removing(d, m) ==
  /\ Behind(toPage[d], Of({"eject"}), Of({"remove"}))
  /\ Behind(toWorker[d], Of({"eject"}), Of({"remove"})) \/ ~No(toPage[d], Of({"remove"}))
  /\ No(toPage[d], Of({"eject"})) /\ No(toWorker[d], Of({"eject"})) => m \notin worker[d].reader
  /\ No(toPage[d], Of({"remove"})) /\ No(toWorker[d], Of({"remove"})) => worker[d].files[m] = 0
Removed == op.at = "clearing" => Removing(op.from, Head(op.out))

\* A step that neither orders nor answers anything.
QuietPage(d) ==
  \/ toPage'[d] = toPage[d]
  \/ toPage[d] # <<>> /\ toPage'[d] = Tail(toPage[d]) /\ toPage[d][1].type \in {"provide", "restart"}
QuietWorker(d) ==
  \/ toWorker'[d] = toWorker[d]
  \/ toWorker'[d] = <<>>
  \/ \E x \in WorkerMessages : x.type \notin Commands /\ toWorker'[d] = Append(toWorker[d], x)
QuietParent(d) ==
  \/ toParent'[d] = toParent[d]
  \/ toParent[d] # <<>> /\ toParent'[d] = Tail(toParent[d]) /\ toParent[d][1].type # "snapshot"
  \/ \E x \in ParentMessages : x.type # "snapshot" /\ toParent'[d] = Append(toParent[d], x)
QuietReports(d) ==
  \/ fromWorker'[d] = fromWorker[d]
  \/ fromWorker'[d] = <<>>
  \/ fromWorker[d] # <<>> /\ fromWorker'[d] = Tail(fromWorker[d])
  \/ \E x \in Reports : x.type # "snapshot" /\ fromWorker'[d] = Append(fromWorker[d], x)
ForParent(asked) == {a \in asked : a.for = "parent"}
Quiet(d) ==
  /\ QuietPage(d) /\ QuietWorker(d) /\ QuietParent(d) /\ QuietReports(d)
  /\ ForParent(page'[d].asked) = ForParent(page[d].asked)

LEMMA QuietPageKeeps ==
  ASSUME ChannelTypes, NEW d \in Devices, QuietPage(d)
  PROVE  /\ In(toPage'[d]) \subseteq In(toPage[d])
         /\ toPage[d] = <<>> => toPage'[d] = <<>>
         /\ \A c \in In(toPage[d]) : c.type = "export" => c \in In(toPage'[d])
         /\ \A A, B : Never(toPage[d], A, B) => Never(toPage'[d], A, B)
<1>1. CASE toPage'[d] = toPage[d]
  BY <1>1
<1>2. CASE toPage[d] # <<>> /\ toPage'[d] = Tail(toPage[d]) /\ toPage[d][1].type \in {"provide", "restart"}
  BY <1>2, PagePopped DEF Pops
<1> QED
  BY <1>1, <1>2 DEF QuietPage

LEMMA QuietWorkerKeeps ==
  ASSUME ChannelTypes, NEW d \in Devices, QuietWorker(d)
  PROVE  /\ \A c \in In(toWorker'[d]) : c.type \in Commands => c \in In(toWorker[d])
         /\ No(toWorker[d], Of(Commands)) => No(toWorker'[d], Of(Commands))
         /\ \A A : Never(toWorker[d], A, Of(Commands)) => Never(toWorker'[d], A, Of(Commands))
<1>1. CASE toWorker'[d] = toWorker[d]
  BY <1>1
<1>2. CASE toWorker'[d] = <<>>
  BY <1>2, Emptied
<1>3. ASSUME NEW x \in WorkerMessages, x.type \notin Commands, toWorker'[d] = Append(toWorker[d], x)
      PROVE  /\ \A c \in In(toWorker'[d]) : c.type \in Commands => c \in In(toWorker[d])
             /\ No(toWorker[d], Of(Commands)) => No(toWorker'[d], Of(Commands))
             /\ \A A : Never(toWorker[d], A, Of(Commands)) => Never(toWorker'[d], A, Of(Commands))
  <2>1. Pushes(WorkerMessages, toWorker[d], toWorker'[d], x)
    BY <1>3, WorkerPushed
  <2>2. x \notin Of(Commands)
    BY <1>3 DEF Of
  <2>3. In(toWorker'[d]) = In(toWorker[d]) \cup {x}
    BY <2>1 DEF Pushes
  <2>4. No(toWorker[d], Of(Commands)) => No(toWorker'[d], Of(Commands))
    BY <2>1, <2>2 DEF Pushes
  <2>5. \A A : Never(toWorker[d], A, Of(Commands)) => Never(toWorker'[d], A, Of(Commands))
    BY <2>1, <2>2 DEF Pushes
  <2> QED
    BY <1>3, <2>3, <2>4, <2>5
<1> QED
  BY <1>1, <1>2, <1>3 DEF QuietWorker

LEMMA QuietParentKeeps ==
  ASSUME ChannelTypes, NEW d \in Devices, QuietParent(d)
  PROVE  /\ No(toParent'[d], Of({"snapshot"})) <=> No(toParent[d], Of({"snapshot"}))
         /\ \A c \in In(toParent'[d]) : c.type = "snapshot" => c \in In(toParent[d])
         /\ Never(toParent[d], Of({"snapshot"}), Of({"snapshot"}))
              => Never(toParent'[d], Of({"snapshot"}), Of({"snapshot"}))
<1>1. CASE toParent'[d] = toParent[d]
  BY <1>1
<1>2. CASE toParent[d] # <<>> /\ toParent'[d] = Tail(toParent[d]) /\ toParent[d][1].type # "snapshot"
  BY <1>2, ParentPopped DEF Of, Pops
<1>3. ASSUME NEW x \in ParentMessages, x.type # "snapshot", toParent'[d] = Append(toParent[d], x)
      PROVE  /\ No(toParent'[d], Of({"snapshot"})) <=> No(toParent[d], Of({"snapshot"}))
             /\ \A c \in In(toParent'[d]) : c.type = "snapshot" => c \in In(toParent[d])
             /\ Never(toParent[d], Of({"snapshot"}), Of({"snapshot"}))
                  => Never(toParent'[d], Of({"snapshot"}), Of({"snapshot"}))
  <2>1. Pushes(ParentMessages, toParent[d], toParent'[d], x)
    BY <1>3, ParentPushed
  <2>2. x \notin Of({"snapshot"})
    BY <1>3 DEF Of
  <2>3. In(toParent'[d]) = In(toParent[d]) \cup {x}
    BY <2>1 DEF Pushes
  <2>4. No(toParent'[d], Of({"snapshot"})) <=> No(toParent[d], Of({"snapshot"}))
    BY <2>1, <2>2 DEF Pushes
  <2>5. Never(toParent[d], Of({"snapshot"}), Of({"snapshot"}))
          => Never(toParent'[d], Of({"snapshot"}), Of({"snapshot"}))
    BY <2>1, <2>2 DEF Pushes
  <2> QED
    BY <1>3, <2>3, <2>4, <2>5
<1> QED
  BY <1>1, <1>2, <1>3 DEF QuietParent

LEMMA QuietReportsKeep ==
  ASSUME ChannelTypes, NEW d \in Devices, QuietReports(d)
  PROVE  \A k : No(fromWorker[d], Snap(k)) => No(fromWorker'[d], Snap(k))
<1>1. CASE fromWorker'[d] = fromWorker[d]
  BY <1>1
<1>2. CASE fromWorker'[d] = <<>>
  BY <1>2, Emptied
<1>3. CASE fromWorker[d] # <<>> /\ fromWorker'[d] = Tail(fromWorker[d])
  BY <1>3, ReportPopped DEF Pops
<1>4. ASSUME NEW x \in Reports, x.type # "snapshot", fromWorker'[d] = Append(fromWorker[d], x)
      PROVE  \A k : No(fromWorker[d], Snap(k)) => No(fromWorker'[d], Snap(k))
  BY <1>4, ReportPushed DEF Snap, Pushes
<1> QED
  BY <1>1, <1>2, <1>3, <1>4 DEF QuietReports

LEMMA QuietKeeps ==
  ASSUME ChannelTypes, NEW d \in Devices, Quiet(d), op' = op
  PROVE  (Bare(d) => Bare(d)') /\ (Carrying(d) => Carrying(d)')
<1>1. /\ In(toPage'[d]) \subseteq In(toPage[d])
      /\ toPage[d] = <<>> => toPage'[d] = <<>>
      /\ \A c \in In(toPage[d]) : c.type = "export" => c \in In(toPage'[d])
      /\ \A A, B : Never(toPage[d], A, B) => Never(toPage'[d], A, B)
  BY QuietPageKeeps DEF Quiet
<1>2. /\ \A c \in In(toWorker'[d]) : c.type \in Commands => c \in In(toWorker[d])
      /\ No(toWorker[d], Of(Commands)) => No(toWorker'[d], Of(Commands))
      /\ \A A : Never(toWorker[d], A, Of(Commands)) => Never(toWorker'[d], A, Of(Commands))
  BY QuietWorkerKeeps DEF Quiet
<1>3. /\ No(toParent'[d], Of({"snapshot"})) <=> No(toParent[d], Of({"snapshot"}))
      /\ \A c \in In(toParent'[d]) : c.type = "snapshot" => c \in In(toParent[d])
      /\ Never(toParent[d], Of({"snapshot"}), Of({"snapshot"}))
              => Never(toParent'[d], Of({"snapshot"}), Of({"snapshot"}))
  BY QuietParentKeeps DEF Quiet
<1>4. \A k : No(fromWorker[d], Snap(k)) => No(fromWorker'[d], Snap(k))
  BY QuietReportsKeep DEF Quiet
<1>5. \A a : a.for = "parent" => (a \in page'[d].asked <=> a \in page[d].asked)
  BY DEF Quiet, ForParent
<1>6. Unasked(d) => Unasked(d)'
  BY <1>5 DEF Unasked
<1>7. Bare(d) => Bare(d)'
  BY <1>1, <1>2, <1>3, <1>6 DEF Bare, No
<1>8. Fitting(d) => Fitting(d)'
  BY <1>1, <1>2 DEF Fitting, Fits
<1>9. AtPage(d) => AtPage(d)'
  BY <1>1, <1>3, <1>6 DEF AtPage
<1>10. AtWorker(d) => AtWorker(d)'
  <2> SUFFICES ASSUME AtWorker(d)
               PROVE  AtWorker(d)'
    OBVIOUS
  <2>1. PICK a \in page[d].asked :
          /\ a.for = "parent" /\ a.request = op.id
          /\ \A b \in page[d].asked : b.for = "parent" => b = a
          /\ Never(toWorker[d], Snap(a.id), Of(Commands))
          /\ No(fromWorker[d], Snap(a.id)) \/ No(toWorker[d], Of(Commands))
    BY DEF AtWorker
  <2>2. a \in page'[d].asked /\ \A b \in page'[d].asked : b.for = "parent" => b = a
    BY <1>5, <2>1
  <2>3. Never(toWorker'[d], Snap(a.id), Of(Commands))
    BY <1>2, <2>1
  <2>4. No(fromWorker'[d], Snap(a.id)) \/ No(toWorker'[d], Of(Commands))
    BY <1>2, <1>4, <2>1
  <2> QED
    BY <1>1, <1>3, <2>1, <2>2, <2>3, <2>4 DEF AtWorker
<1>11. AtGallery(d) => AtGallery(d)'
  BY <1>1, <1>2, <1>3, <1>6 DEF AtGallery
<1> QED
  BY <1>7, <1>8, <1>9, <1>10, <1>11 DEF Carrying

LEMMA PushQuiet ==
  ASSUME NEW d \in Devices
  PROVE  /\ toWorker'[d] = Append(toWorker[d], Plain("card-list")) => QuietWorker(d)
         /\ \A id \in Ids : toWorker'[d] = Append(toWorker[d], Snapshot(id, NoFiles)) => QuietWorker(d)
         /\ \A type \in {"running", "restarting", "error"} :
              toParent'[d] = Append(toParent[d], Plain(type)) => QuietParent(d)
BY PlainTypes, PlainFields, SnapshotTypes, SnapshotFields, NoFilesType DEF Commands, QuietWorker,
   QuietParent

LEMMA OwnRequest ==
  ASSUME NEW asked, NEW id \in Ids, NEW for \in {"refresh", "restart"}
  PROVE  ForParent(asked \cup {Asked(id, for, 0)}) = ForParent(asked)
BY AskedFields DEF ForParent

LEMMA RestartedQuiet ==
  ASSUME NEW d \in Devices, Restarted(d, toWorker)
  PROVE  QuietWorker(d) /\ QuietParent(d) /\ ForParent(page'[d].asked) = ForParent(page[d].asked)
<1>1. CASE page[d].restarting
  BY <1>1 DEF Restarted, QuietWorker, QuietParent
<1>2. CASE ~page[d].restarting
  BY <1>2, PushQuiet, OwnRequest DEF Restarted
<1> QED
  BY <1>1, <1>2

LEMMA PageStepsQuiet ==
  ASSUME DeviceTypes, ChannelTypes, NEW d \in Devices, Life(d),
         \/ PageProvided(d) \/ PageRestarts(d) \/ PageReboots(d) \/ PageSeesRunning(d)
         \/ PageSeesSd(d) \/ PageSeesCard(d) \/ PageStarts(d)
  PROVE  Quiet(d)
<1>1. CASE PageProvided(d)
  BY <1>1, ProvidedDoes DEF Quiet, QuietPage, QuietWorker, QuietParent, QuietReports
<1>2. CASE PageRestarts(d)
  BY <1>2, RestartsDoes, RestartsLives, RestartedQuiet DEF Told, Running, Quiet, QuietPage,
     QuietReports
<1>3. CASE PageReboots(d)
  BY <1>3, RebootsDoes, RestartedQuiet DEF Quiet, QuietPage, QuietReports
<1>4. CASE PageSeesRunning(d)
  BY <1>4, SeesRunningDoes, PushQuiet DEF Quiet, QuietPage, QuietReports
<1>5. CASE PageSeesSd(d)
  BY <1>5, SeesSdDoes DEF Quiet, QuietPage, QuietWorker, QuietParent, QuietReports
<1>6. CASE PageSeesCard(d)
  BY <1>6, SeesCardDoes, PushQuiet, OwnRequest DEF Quiet, QuietPage, QuietParent, QuietReports
<1>7. CASE PageStarts(d)
  BY <1>7, StartsLives, StartsDoes DEF Off, Quiet, QuietPage, QuietWorker, QuietParent,
     QuietReports
<1> QED
  BY <1>1, <1>2, <1>3, <1>4, <1>5, <1>6, <1>7

LEMMA WorkerStepsQuiet ==
  ASSUME DeviceTypes, ChannelTypes, NEW d \in Devices,
         WorkerReady(d) \/ WorkerRuns(d) \/ \E m \in Media : FirmwareWrites(d, m)
  PROVE  Quiet(d)
<1>1. CASE WorkerReady(d)
  BY <1>1, ReadyDoes DEF Quiet, QuietPage, QuietWorker, QuietParent, QuietReports
<1>2. CASE WorkerRuns(d)
  BY <1>2, RunsDoes, PlainTypes, PlainFields DEF Quiet, QuietPage, QuietWorker, QuietParent,
     QuietReports
<1>3. ASSUME NEW m \in Media, FirmwareWrites(d, m)
      PROVE  Quiet(d)
  BY <1>3, WritesDoes DEF Quiet, QuietPage, QuietWorker, QuietParent, QuietReports
<1> QED
  BY <1>1, <1>2, <1>3

\* The answer to the gallery's own request is passed on.
Passes(d) ==
  \E a \in page[d].asked :
    /\ a.for = "parent" /\ fromWorker[d] # <<>>
    /\ fromWorker[d][1].type = "snapshot" /\ a.id = fromWorker[d][1].id
    /\ page'[d].asked = page[d].asked \ {a}
    /\ toParent'[d] = Append(toParent[d], Snapshot(a.request, fromWorker[d][1].files))
    /\ toPage' = toPage /\ toWorker' = toWorker /\ worker' = worker /\ fromWorker'[d] = Tail(fromWorker[d])
    /\ page'[d].files = page[d].files /\ page'[d].reader = page[d].reader

LEMMA SnapshotQuiet ==
  ASSUME DeviceTypes, ChannelTypes, NEW d \in Devices, PageSnapshot(d), Life(d)
  PROVE  Quiet(d) \/ Passes(d)
<1>1. /\ fromWorker[d] # <<>> /\ fromWorker[d][1].type = "snapshot" /\ UNCHANGED toPage
  BY SnapshotDoes
<1>2. (\A a \in page[d].asked : a.id # fromWorker[d][1].id) =>
        fromWorker'[d] = Tail(fromWorker[d]) /\ UNCHANGED <<page, worker, toParent, toWorker>>
  BY SnapshotDoes
<1>3. (\E a \in page[d].asked : a.id = fromWorker[d][1].id) =>
        \E a \in page[d].asked :
          /\ a.id = fromWorker[d][1].id
          /\ Resolved(d, a, fromWorker[d][1].files)
          /\ a.for # "restart" => fromWorker'[d] = Tail(fromWorker[d])
  BY SnapshotDoes
<1>4. CASE \A a \in page[d].asked : a.id # fromWorker[d][1].id
  BY <1>1, <1>2, <1>4 DEF Quiet, QuietPage, QuietWorker, QuietParent, QuietReports
<1>5. CASE \E a \in page[d].asked : a.id = fromWorker[d][1].id
  <2>1. PICK a \in page[d].asked :
          /\ a.id = fromWorker[d][1].id
          /\ Resolved(d, a, fromWorker[d][1].files)
          /\ a.for # "restart" => fromWorker'[d] = Tail(fromWorker[d])
    BY <1>3, <1>5
  <2>2. CASE a.for = "parent"
    BY <1>1, <2>1, <2>2 DEF Resolved, Settles, Passes
  <2>3. CASE a.for = "refresh"
    <3>1. page'[d].asked = page[d].asked \ {a} /\ UNCHANGED <<toWorker, toParent>>
      BY <2>1, <2>3 DEF Resolved, Settles
    <3>2. ForParent(page'[d].asked) = ForParent(page[d].asked)
      BY <2>3, <3>1 DEF ForParent
    <3> QED
      BY <1>1, <2>1, <2>3, <3>1, <3>2 DEF Quiet, QuietPage, QuietWorker, QuietParent, QuietReports
  <2>4. CASE a.for = "restart"
    <3>1. Saving(d) /\ Off(d)'
      BY <2>4, SnapshotLives DEF Up
    <3>2. UNCHANGED toParent
      BY <2>1, <2>4 DEF Resolved
    <3>3. ForParent(page'[d].asked) = {} /\ ForParent(page[d].asked) = {}
      BY <3>1 DEF Off, Saving, ForParent
    <3> QED
      BY <1>1, <3>1, <3>2, <3>3 DEF Off, Quiet, QuietPage, QuietWorker, QuietParent, QuietReports
  <2>5. a.for # "abandoned"
    BY SnapshotLives DEF Up, Saving
  <2>6. a.for \in {"parent", "refresh", "restart", "abandoned"}
    BY Fields DEF Requests
  <2> QED
    BY <2>2, <2>3, <2>4, <2>5, <2>6
<1> QED
  BY <1>4, <1>5

\* What carries the request through a step, or is no carrier.
Carries(d) == (Bare(d) => Bare(d)') /\ (Carrying(d) => Carrying(d)')

LEMMA NothingIn ==
  ASSUME NEW S, NEW s \in Seq(S), No(s, S)
  PROVE  s = <<>>
BY TailFacts DEF No, In

LEMMA ExportsCarries ==
  ASSUME DeviceTypes, ChannelTypes, NEW d \in Devices, PageExports(d), Life(d), op' = op
  PROVE  Carries(d)
<1>1. /\ toPage[d] # <<>> /\ toPage[d][1].type = "export" /\ toPage'[d] = Tail(toPage[d])
      /\ toPage[d][1].id \in Ids \cup {0}
      /\ UNCHANGED <<worker, fromWorker>>
      /\ worker[d].phase # "none" =>
           /\ UNCHANGED toParent
           /\ NextId(d) \in FreeIds(d) /\ NextId(d) \in Ids
           /\ page'[d].asked = page[d].asked \cup {Asked(NextId(d), "parent", toPage[d][1].id)}
           /\ toWorker'[d] = Append(toWorker[d], Snapshot(NextId(d), NoFiles))
  BY ExportsDoes
<1>2. worker[d].phase # "none"
  BY ExportsLives DEF Up, Running
<1>3. toPage[d][1] \in In(toPage[d]) /\ toPage[d][1] \in Messages
  BY <1>1, PageHead, AllMessages
<1>4. toPage[d][1] \in Of({"export"} \cup Commands) /\ toPage[d][1] \in Of({"export"})
  BY <1>1, <1>3 DEF Of
<1>5. ~Bare(d)
  BY <1>3, <1>4 DEF Bare, No
<1>6. ASSUME Carrying(d)
      PROVE  Carrying(d)'
  <2>1. AtPage(d) /\ Fitting(d)
    BY <1>1, <1>6 DEF Carrying, AtWorker, AtGallery
  <2>2. Pops(PageMessages, toPage[d], toPage'[d])
    BY <1>1, PagePopped
  <2>3. toPage'[d] = <<>>
    <3>1. No(toPage'[d], Messages)
      BY <1>4, <2>1, <2>2 DEF AtPage, Pops
    <3>2. toPage[d] \in Seq(PageMessages)
      BY ChannelsOf
    <3>3. toPage'[d] \in Seq(PageMessages)
      BY <1>1, <3>2, TailFacts
    <3>4. No(toPage'[d], PageMessages)
      BY <3>1, AllMessages DEF No
    <3> QED
      BY <3>3, <3>4, NothingIn
  <2>4. In(toPage[d]) = {toPage[d][1]}
    BY <2>2, <2>3, Emptied DEF Pops
  <2>5. toPage[d][1].id = op.id
    BY <2>1, <2>4 DEF AtPage
  <2> DEFINE a == Asked(NextId(d), "parent", toPage[d][1].id)
             x == Snapshot(NextId(d), NoFiles)
  <2>6. a.id = NextId(d) /\ a.for = "parent" /\ a.request = op.id
    BY <1>1, <1>2, <2>5, AskedFields
  <2>7. x \in WorkerMessages /\ x.type = "snapshot"
    BY <1>1, <1>2, SnapshotTypes, SnapshotFields, NoFilesType
  <2>8. page'[d].asked = page[d].asked \cup {a} /\ toWorker'[d] = Append(toWorker[d], x)
    BY <1>1, <1>2
  <2>9. NextId(d) \in FreeIds(d)
    BY <1>1, <1>2
  <2> HIDE DEF a, x
  <2>10. Pushes(WorkerMessages, toWorker[d], toWorker'[d], x)
    BY <2>7, <2>8, WorkerPushed
  <2>11. x \notin Of(Commands)
    BY <2>7 DEF Of, Commands
  <2>12. No(toWorker[d], Snap(a.id)) /\ No(fromWorker[d], Snap(a.id))
    BY <2>6, <2>9, FreeIdNew
  <2>13. Never(toWorker'[d], Snap(a.id), Of(Commands))
    BY <2>10, <2>11, <2>12, NoneBehind DEF Pushes
  <2>14. a \in page'[d].asked /\ \A b \in page'[d].asked : b.for = "parent" => b = a
    BY <2>1, <2>8 DEF AtPage, Unasked
  <2>15. No(fromWorker'[d], Snap(a.id)) /\ No(toParent'[d], Of({"snapshot"}))
    BY <1>1, <1>2, <2>1, <2>12 DEF AtPage
  <2>16. AtWorker(d)'
    BY <2>3, <2>6, <2>13, <2>14, <2>15, op' = op DEF AtWorker
  <2>17. In(toWorker'[d]) = In(toWorker[d]) \cup {x} /\ In(toPage'[d]) = {}
    BY <2>3, <2>10, Emptied DEF Pushes
  <2>18. Fitting(d)'
    BY <2>1, <2>7, <2>17, op' = op DEF Fitting, Fits, Commands
  <2> QED
    BY <2>16, <2>18 DEF Carrying
<1> QED
  BY <1>5, <1>6 DEF Carries

LEMMA ForwardsCarries ==
  ASSUME DeviceTypes, ChannelTypes, NEW d \in Devices, PageForwards(d), Life(d), op' = op
  PROVE  Carries(d)
<1>1. /\ toPage[d] # <<>> /\ toPage[d][1].type \in Commands /\ toPage'[d] = Tail(toPage[d])
      /\ toPage[d][1] \in WorkerMessages
      /\ UNCHANGED <<page, worker, toParent, fromWorker>>
      /\ toWorker'[d] = Append(toWorker[d], toPage[d][1])
  BY ForwardsDoes, ForwardsLives
<1>2. toPage[d][1] \in In(toPage[d]) /\ toPage[d][1] \in Messages
  BY <1>1, PageHead, AllMessages
<1>3. toPage[d][1] \in Of({"export"} \cup Commands)
  BY <1>1, <1>2 DEF Of
<1>4. ~Bare(d)
  BY <1>2, <1>3 DEF Bare, No
<1>5. ASSUME Carrying(d)
      PROVE  Carrying(d)'
  <2>1. AtPage(d) /\ Fitting(d)
    BY <1>1, <1>5 DEF Carrying, AtWorker, AtGallery
  <2>2. Pops(PageMessages, toPage[d], toPage'[d])
    BY <1>1, PagePopped
  <2>3. In(toPage[d]) = {toPage[d][1]} \cup In(toPage'[d])
    BY <2>2 DEF Pops
  <2>4. Never(toPage'[d], Of({"export"}), Messages)
    BY <2>1, <2>2 DEF Pops, AtPage
  <2>5. \E c \in In(toPage'[d]) : c.type = "export" /\ c.id = op.id
    BY <1>1, <2>1, <2>3 DEF AtPage, Commands
  <2>6. AtPage(d)'
    BY <1>1, <2>1, <2>4, <2>5, op' = op DEF AtPage, Unasked
  <2>7. In(toWorker'[d]) = In(toWorker[d]) \cup {toPage[d][1]}
    BY <1>1, WorkerPushed DEF Pushes
  <2>8. Fitting(d)'
    BY <2>1, <2>3, <2>7, op' = op DEF Fitting, Fits
  <2> QED
    BY <2>6, <2>8 DEF Carrying
<1> QED
  BY <1>4, <1>5 DEF Carries

LEMMA PassesCarries ==
  ASSUME DeviceTypes, ChannelTypes, NEW d \in Devices, Passes(d), op' = op
  PROVE  Carries(d)
<1>1. PICK a \in page[d].asked :
        /\ a.for = "parent" /\ fromWorker[d] # <<>>
        /\ fromWorker[d][1].type = "snapshot" /\ a.id = fromWorker[d][1].id
        /\ page'[d].asked = page[d].asked \ {a}
        /\ toParent'[d] = Append(toParent[d], Snapshot(a.request, fromWorker[d][1].files))
        /\ toPage' = toPage /\ toWorker' = toWorker
  BY DEF Passes
<1>2. ~Bare(d)
  BY <1>1 DEF Bare, Unasked
<1>3. ASSUME Carrying(d)
      PROVE  Carrying(d)'
  <2>1. AtWorker(d) /\ Fitting(d)
    BY <1>1, <1>3 DEF Carrying, AtPage, AtGallery, Unasked
  <2>2. /\ a.request = op.id
        /\ \A b \in page[d].asked : b.for = "parent" => b = a
        /\ No(fromWorker[d], Snap(a.id)) \/ No(toWorker[d], Of(Commands))
    BY <1>1, <2>1 DEF AtWorker
  <2>3. fromWorker[d][1] \in In(fromWorker[d]) /\ fromWorker[d][1] \in Reports
    BY <1>1, ChannelsOf, TailFacts DEF In
  <2>4. No(toWorker[d], Of(Commands))
    BY <1>1, <2>2, <2>3, AllMessages DEF No, Snap
  <2> DEFINE x == Snapshot(a.request, fromWorker[d][1].files)
  <2>5. a.request \in Ids \cup {0} /\ fromWorker[d][1].files \in [Media -> Versions]
    BY <2>3, Fields DEF Requests, Reports, Message
  <2>6. x \in ParentMessages /\ x.type = "snapshot" /\ x.id = op.id
    BY <2>2, <2>5, SnapshotTypes, SnapshotFields
  <2>7. toParent'[d] = Append(toParent[d], x)
    BY <1>1
  <2> HIDE DEF x
  <2>8. Pushes(ParentMessages, toParent[d], toParent'[d], x)
    BY <2>6, <2>7, ParentPushed
  <2>9. x \in Of({"snapshot"}) /\ No(toParent[d], Of({"snapshot"}))
    BY <2>1, <2>6, AllMessages DEF Of, AtWorker
  <2>10. ~No(toParent'[d], Of({"snapshot"}))
    BY <2>8, <2>9 DEF Pushes
  <2>11. \A c \in In(toParent'[d]) : c.type = "snapshot" => c.id = op.id
    BY <2>6, <2>8, <2>9, AllMessages DEF Pushes, No, Of
  <2>12. Never(toParent'[d], Of({"snapshot"}), Of({"snapshot"}))
    BY <2>8, <2>9, NoneBehind DEF Pushes
  <2>13. toPage'[d] = <<>> /\ No(toWorker'[d], Of(Commands))
    BY <1>1, <2>1, <2>4 DEF AtWorker
  <2>14. Unasked(d)'
    BY <1>1, <2>2 DEF Unasked
  <2>15. AtGallery(d)'
    BY <2>10, <2>11, <2>12, <2>13, <2>14, op' = op DEF AtGallery
  <2>16. Fitting(d)'
    BY <1>1, <2>1, op' = op DEF Fitting, Fits
  <2> QED
    BY <2>15, <2>16 DEF Carrying
<1> QED
  BY <1>2, <1>3 DEF Carries

LEMMA HandlesCarries ==
  ASSUME DeviceTypes, ChannelTypes, NEW d \in Devices, WorkerHandles(d), Life(d), op' = op
  PROVE  Carries(d)
<1>1. /\ toWorker[d] # <<>> /\ toWorker'[d] = Tail(toWorker[d]) /\ toWorker[d][1] \in WorkerMessages
      /\ HandledAs(d, toWorker[d][1])
      /\ UNCHANGED <<page, toPage, toParent>>
  BY HandlesDoes
<1>2. Pops(WorkerMessages, toWorker[d], toWorker'[d])
  BY <1>1, WorkerPopped
<1>3. In(toWorker'[d]) \subseteq In(toWorker[d]) /\ \A A : No(toWorker[d], A) => No(toWorker'[d], A)
  BY <1>2 DEF Pops
<1>4. Bare(d) => Bare(d)'
  BY <1>1, <1>3 DEF Bare, Unasked
<1>5. Fitting(d) => Fitting(d)'
  BY <1>1, <1>3, op' = op DEF Fitting, Fits
<1>6. AtPage(d) => AtPage(d)'
  BY <1>1, op' = op DEF AtPage, Unasked
<1>7. AtGallery(d) => AtGallery(d)'
  BY <1>1, <1>3, op' = op DEF AtGallery, Unasked
<1>8. ASSUME AtWorker(d)
      PROVE  AtWorker(d)'
  <2>1. PICK a \in page[d].asked :
          /\ a.for = "parent" /\ a.request = op.id
          /\ \A b \in page[d].asked : b.for = "parent" => b = a
          /\ Never(toWorker[d], Snap(a.id), Of(Commands))
          /\ No(fromWorker[d], Snap(a.id)) \/ No(toWorker[d], Of(Commands))
    BY <1>8 DEF AtWorker
  <2>2. Never(toWorker'[d], Snap(a.id), Of(Commands))
    BY <1>2, <2>1 DEF Pops
  <2>3. toWorker[d][1] \in Snap(a.id) => No(toWorker'[d], Of(Commands))
    BY <1>2, <2>1 DEF Pops
  <2>4. toWorker[d][1] \notin Snap(a.id) /\ No(fromWorker[d], Snap(a.id)) => No(fromWorker'[d], Snap(a.id))
    <3>1. \/ fromWorker'[d] = fromWorker[d]
          \/ \E r \in Reports : /\ fromWorker'[d] = Append(fromWorker[d], r)
                                /\ r \in Snap(a.id) => toWorker[d][1] \in Snap(a.id)
      <4>1. \/ toWorker[d][1].type = "snapshot"
            \/ toWorker[d][1].type \in {"card-list"} \cup Commands
        BY <1>1 DEF WorkerMessages, Addressed, Message
      <4>2. CASE toWorker[d][1].type = "snapshot"
        <5> DEFINE r == Snapshot(toWorker[d][1].id, worker[d].files)
        <5>1. fromWorker'[d] = Append(fromWorker[d], r)
          BY <1>1, <4>2 DEF HandledAs
        <5>2. toWorker[d][1].id \in Ids \cup {0} /\ worker[d].files \in [Media -> Versions]
          BY <1>1, Fields DEF WorkerMessages, Addressed, Message
        <5>3. r \in Reports /\ r.id = toWorker[d][1].id
          BY <5>2, SnapshotTypes, SnapshotFields
        <5> HIDE DEF r
        <5>4. r \in Snap(a.id) => toWorker[d][1] \in Snap(a.id)
          BY <1>1, <4>2, <5>3, AllMessages DEF Snap
        <5> QED
          BY <5>1, <5>3, <5>4
      <4>3. CASE toWorker[d][1].type \in {"card-list"} \cup Commands
        <5>1. fromWorker'[d] = fromWorker[d] \/ Says(d, "card-state") \/ Says(d, "sd-state")
          BY <1>1, <4>3 DEF HandledAs, Commands, Rep
        <5>2. worker'[d].reader \in SUBSET Media
          BY HandlesDoes DEF DeviceTypes, WorkerStates
        <5>3. \A type \in {"card-state", "sd-state"} :
                /\ Report(type, worker'[d].reader) \in Reports
                /\ Report(type, worker'[d].reader) \notin Snap(a.id)
          BY <5>2, ReportTypes, ReportFields DEF Snap
        <5> QED
          BY <5>1, <5>3 DEF Says
      <4> QED
        BY <4>1, <4>2, <4>3
    <3>2. ASSUME NEW r \in Reports, fromWorker'[d] = Append(fromWorker[d], r), r \notin Snap(a.id),
                 No(fromWorker[d], Snap(a.id))
          PROVE  No(fromWorker'[d], Snap(a.id))
      BY <3>2, ReportPushed DEF Pushes
    <3> QED
      BY <3>1, <3>2
  <2>5. No(fromWorker'[d], Snap(a.id)) \/ No(toWorker'[d], Of(Commands))
    BY <1>3, <2>1, <2>3, <2>4
  <2> QED
    BY <1>1, <1>8, <2>1, <2>2, <2>5, op' = op DEF AtWorker
<1> QED
  BY <1>4, <1>5, <1>6, <1>7, <1>8 DEF Carries, Carrying

LEMMA DeviceCarries ==
  ASSUME DeviceTypes, ChannelTypes, ~Stalls, NEW d \in Devices, Life(d), op' = op,
         Device(d) \/ Firmware(d)
  PROVE  Carries(d)
<1>1. Quiet(d) => Carries(d)
  BY QuietKeeps DEF Carries
<1>2. CASE \/ PageProvided(d) \/ PageRestarts(d) \/ PageReboots(d) \/ PageSeesRunning(d)
           \/ PageSeesSd(d) \/ PageSeesCard(d) \/ PageStarts(d)
  BY <1>1, <1>2, PageStepsQuiet
<1>3. CASE WorkerReady(d) \/ WorkerRuns(d) \/ Firmware(d)
  BY <1>1, <1>3, WorkerStepsQuiet DEF Firmware
<1>4. CASE PageExports(d) \/ PageForwards(d) \/ WorkerHandles(d)
  BY <1>4, ExportsCarries, ForwardsCarries, HandlesCarries
<1>5. CASE PageSnapshot(d)
  BY <1>1, <1>5, SnapshotQuiet, PassesCarries
<1>6. ASSUME NEW a \in page[d].asked, PageTimeout(d, a)
      PROVE  FALSE
  BY <1>6, TimeoutLives
<1> QED
  BY <1>2, <1>3, <1>4, <1>5, <1>6 DEF Device, PageSteps, WorkerSteps

\* Nothing of an operation is left when its answer is taken.
Idle(d) ==
  /\ No(toPage[d], Of({"export"} \cup Commands)) /\ No(toWorker[d], Of(Commands))
  /\ Unasked(d) /\ No(toParent'[d], Of({"snapshot"}))
AllIdle == UNCHANGED <<page, worker, toWorker, fromWorker>> /\ \A e \in Devices : Idle(e)

LEMMA IdleBare ==
  ASSUME AllIdle, NEW e \in Devices, toPage'[e] = toPage[e]
  PROVE  Bare(e)'
BY DEF AllIdle, Idle, Bare, Unasked

\* What is told fits the operation.
Suits(c, next) == /\ next.at = "clearing" => c.type \in {"eject", "remove"} /\ c.m = Head(next.out)
                  /\ next.at = "inserting" => c.type \in {"import", "insert"} /\ c.m = next.m
                  /\ next.at = "reading" => c.type = "edit" /\ c.m = SD
                  /\ next.at # "saving" /\ c.type \in Commands

\* What is joined to a channel ends with x, and nothing before that is in A.
LEMMA LastOnly ==
  ASSUME NEW S, NEW s \in Seq(S), NEW t \in Seq(S), NEW x \in S, NEW u, u = s \o Append(t, x),
         NEW A, NEW B, No(s, A), No(t, A)
  PROVE  Never(u, A, B)
<1>1. <<x>> \in Seq(S) /\ s \o t \in Seq(S) /\ Append(t, x) = t \o <<x>>
  BY AppendIsConcat
<1>2. u = (s \o t) \o <<x>>
  BY <1>1, ConcatAssociative
<1>3. u = Append(s \o t, x)
  BY <1>1, <1>2, AppendIsConcat
<1>4. Joins(S, s, t, s \o t) /\ Pushes(S, s \o t, u, x)
  BY <1>1, <1>3, Joined, Pushed
<1>5. No(s \o t, A)
  BY <1>4 DEF Joins
<1>6. Never(s \o t, A, B)
  BY <1>5, NoneBehind
<1> QED
  BY <1>4, <1>5, <1>6 DEF Pushes

LEMMA Started ==
  ASSUME ChannelTypes, AllIdle, NEW d \in Devices, NEW next, NEW commands \in Seq(Orders),
         Asks(d, commands, next), next.at # "idle", \A c \in In(commands) : Suits(c, next),
         \A e \in Devices \ {d} : toPage'[e] = toPage[e]
  PROVE  OneCarrier'
<1>1. /\ op'.at = next.at /\ op'.out = next.out /\ op'.m = next.m
      /\ op'.from = d /\ op'.id \in Ids
      /\ toPage'[d] = toPage[d] \o Append(commands, Export(op'.id))
  BY DEF Asks
<1> DEFINE x == Export(op'.id)
           msgs == Append(commands, x)
<1>2. x \in Orders /\ x.type = "export" /\ x.id = op'.id
  BY <1>1, OrderTypes, ExportFields
<1>3. toPage'[d] = toPage[d] \o msgs
  BY <1>1
<1> HIDE DEF x
<1>4. Pushes(Orders, commands, msgs, x) /\ msgs \in Seq(Orders)
  BY <1>2, Pushed, AppendFacts
<1>5. In(msgs) = In(commands) \cup {x} /\ In(commands) \subseteq Orders
  BY <1>4 DEF Pushes
<1>6. msgs \in Seq(PageMessages) /\ toPage[d] \in Seq(PageMessages)
  BY <1>4, ChannelsOf DEF Orders
<1> HIDE DEF msgs
<1>7. Joins(PageMessages, toPage[d], msgs, toPage'[d])
  BY <1>3, <1>6, Joined
<1>8. In(toPage'[d]) = In(toPage[d]) \cup In(commands) \cup {x}
  BY <1>5, <1>7 DEF Joins
<1>9. Idle(d) /\ UNCHANGED <<page, worker, toWorker, fromWorker>>
  BY DEF AllIdle
<1>10. \A c \in In(toPage[d]) : c.type \notin {"export"} \cup Commands
  BY <1>7, <1>9, AllMessages DEF Joins, Idle, No, Of
<1>11. Fitting(d)'
  <2>1. \A c \in In(commands) : Fits(c)'
    BY <1>1 DEF Suits, Fits
  <2>2. \A c \in In(toWorker'[d]) : c.type \notin Commands
    BY <1>9, ChannelsOf, AllMessages DEF In, Idle, No, Of
  <2>3. x.type \notin Commands
    BY <1>2 DEF Commands
  <2> QED
    BY <1>8, <1>10, <2>1, <2>2, <2>3 DEF Fitting
<1>12. Never(toPage'[d], Of({"export"}), Messages)
  <2>1. No(toPage[d], Of({"export"}))
    BY <1>10 DEF No, Of
  <2>2. No(commands, Of({"export"}))
    BY DEF Suits, Commands, No, Of
  <2>3. commands \in Seq(PageMessages) /\ x \in PageMessages
    BY <1>2 DEF Orders
  <2>4. toPage'[d] = toPage[d] \o Append(commands, x)
    BY <1>3 DEF msgs
  <2> QED
    BY <1>6, <2>1, <2>2, <2>3, <2>4, LastOnly
<1>13. AtPage(d)'
  BY <1>2, <1>8, <1>9, <1>12 DEF Idle, Unasked, AtPage
<1>14. \A e \in Devices \ {d} : Bare(e)'
  BY IdleBare
<1>15. busy'
  BY <1>1 DEF busy
<1> QED
  BY <1>1, <1>11, <1>13, <1>14, <1>15 DEF OneCarrier, Carrying

LEMMA Ended ==
  ASSUME AllIdle, op'.at = "idle", \A e \in Devices : toPage'[e] = toPage[e]
  PROVE  OneCarrier'
BY IdleBare DEF busy, OneCarrier

LEMMA TwoIn ==
  ASSUME NEW x, NEW y
  PROVE  In(<<x, y>>) = {x, y}
<1>1. DOMAIN <<x, y>> = 1..2 /\ <<x, y>>[1] = x /\ <<x, y>>[2] = y
  OBVIOUS
<1>2. In(<<x, y>>) \subseteq {x, y}
  BY <1>1 DEF In
<1>3. {x, y} \subseteq In(<<x, y>>)
  BY <1>1 DEF In
<1> QED
  BY <1>2, <1>3

\* A transfer that goes on.
LEMMA GoesOn ==
  ASSUME ChannelTypes, AllIdle, NEW o \in Operations, NEW own, Goes(o, own), kept' \in [Media -> Versions],
         \A e \in Devices : e \in ready
  PROVE  /\ OneCarrier' /\ op'.at # "clearing"
         /\ Detaches(o, own) \/ Inserts(o) \/ (op' = NoOp /\ o.out = <<>> /\ o.target = None /\ toPage' = toPage)
<1>1. o.m \in Media /\ <<>> \in Seq(Orders) /\ Insertion(o) \in Seq(Orders)
  BY OrderTypes DEF Goes, Plannable
<1>2. CASE Detaches(o, own)
  BY <1>1, <1>2, Emptied, Started DEF Detaches, Where, Operations, Goes, Asks
<1>3. CASE Inserts(o)
  <2> DEFINE next == [o EXCEPT !.at = "inserting"]
             a == [Command("import", o.m) EXCEPT !.files = CopyOf(o.m, kept')]
             b == Command("insert", o.m)
  <2>1. o.target \in Devices /\ Asks(o.target, Insertion(o), next) /\ o.target = Where(o, own)
    BY <1>3 DEF Inserts, Where
  <2>2. next.at = "inserting" /\ next.m = o.m
    BY DEF Operations
  <2>3. a.type = "import" /\ a.m = o.m /\ b.type = "insert" /\ b.m = o.m
    BY DEF Command, Plain
  <2>4. Insertion(o) = <<a, b>>
    BY DEF Insertion
  <2> HIDE DEF a, b, next
  <2>5. \A c \in In(Insertion(o)) : Suits(c, next)
    BY <2>2, <2>3, <2>4, TwoIn DEF Suits, Commands
  <2>6. \A e \in Devices \ {o.target} : toPage'[e] = toPage[e]
    BY <2>1 DEF Goes
  <2>7. OneCarrier' /\ op'.at = "inserting"
    BY <1>1, <2>1, <2>2, <2>5, <2>6, Started DEF Asks
  <2> QED
    BY <1>3, <2>7
<1>4. CASE Ends(o, own)
  <2>1. op' = NoOp /\ o.out = <<>> /\ o.target = None /\ toPage' = toPage
    <3>1. ~Rejects(own[Head(o.out)], <<>>) \/ own[Head(o.out)] \notin Devices
      BY DEF Rejects
    <3>2. ~Rejects(o.target, Insertion(o)) \/ o.target \notin Devices
      BY DEF Rejects
    <3>3. o.out # <<>> => own[Head(o.out)] \in Devices
      <4>1. ASSUME o.out # <<>>
            PROVE  own[Head(o.out)] \in Devices
        BY <4>1, OperationFields, TailFacts DEF Goes, Plannable
      <4> QED
        BY <4>1
    <3>4. o.target \in Devices \cup {None}
      BY OperationFields
    <3>5. ~(o.target # None /\ Rejects(o.target, Insertion(o)))
      BY <3>2, <3>4
    <3>6. op' = NoOp
      BY <1>4 DEF Ends
    <3>7. o.out = <<>> /\ o.target = None /\ toPage' = toPage
      BY <1>4, <3>1, <3>3, <3>5 DEF Ends
    <3> QED
      BY <3>6, <3>7
  <2>2. OneCarrier'
    BY <2>1, NoOpFields, Ended
  <2> QED
    BY <2>1, <2>2, NoOpFields
<1> QED
  BY <1>2, <1>3, <1>4 DEF Goes

LEMMA WaitedFor ==
  ASSUME Types, busy
  PROVE  op.from \in Devices
<1>1. op.at \in {"saving", "clearing", "inserting", "reading"}
  BY DEF Types, BenchTypes, Operations, busy
<1>2. CASE op.at \in {"saving", "clearing"}
  BY <1>2, OperationFields, TailFacts DEF Types, BenchTypes, Planned
<1>3. CASE op.at = "inserting"
  BY <1>3 DEF Types, Planned
<1>4. CASE op.at = "reading"
  BY <1>4 DEF Types, BenchTypes, Media, Planned
<1> QED
  BY <1>1, <1>2, <1>3, <1>4

LEMMA SameCarries ==
  ASSUME NEW e \in Devices, Same(e), op' = op
  PROVE  Carries(e)
BY DEF Same, Bare, Unasked, Fitting, Fits, AtPage, AtWorker, AtGallery, Carries, Carrying

LEMMA AllCarry ==
  ASSUME Types, OneCarrier, op' = op, \A e \in Devices : Carries(e)
  PROVE  OneCarrier'
BY WaitedFor DEF OneCarrier, Carries, busy

\* Before something is started nothing is left of what was.
LEMMA StartIdle ==
  ASSUME OneCarrier, ~busy, UNCHANGED <<page, worker, toParent, toWorker, fromWorker>>
  PROVE  AllIdle
BY DEF AllIdle, Idle, OneCarrier, Bare

\* The answer is the last that is left of what the operation asked.
LEMMA AnsweredIdle ==
  ASSUME Types, OneCarrier, NEW d \in Devices, NEW at, Answered(d, at)
  PROVE  AllIdle /\ AtGallery(d) /\ Fitting(d)
<1>1. /\ busy /\ op.from = d /\ toParent[d] # <<>> /\ toParent[d][1].type = "snapshot"
      /\ toParent'[d] = Tail(toParent[d])
      /\ \A e \in Devices \ {d} : toParent'[e] = toParent[e]
      /\ UNCHANGED <<page, worker, toWorker, fromWorker>>
  BY DEF Answered
<1>2. Pops(ParentMessages, toParent[d], toParent'[d])
  BY <1>1, ParentPopped DEF Types
<1>3. toParent[d][1] \in Of({"snapshot"})
  BY <1>1, <1>2, AllMessages DEF Pops, Of
<1>4. ~No(toParent[d], Of({"snapshot"}))
  BY <1>2, <1>3 DEF Pops
<1>5. AtGallery(d) /\ Fitting(d)
  BY <1>1, <1>4 DEF OneCarrier, Carrying, AtPage, AtWorker
<1>6. No(toParent'[d], Of({"snapshot"}))
  BY <1>2, <1>3, <1>5 DEF Pops, AtGallery
<1>7. Idle(d)
  BY <1>5, <1>6, Emptied DEF AtGallery, Idle
<1>8. ASSUME NEW e \in Devices \ {d}
      PROVE  Idle(e)
  BY <1>1 DEF OneCarrier, Bare, Idle
<1> QED
  BY <1>1, <1>5, <1>7, <1>8 DEF AllIdle

LEMMA UserCarries ==
  ASSUME Types, Lives, OneCarrier, User, ~Overlap
  PROVE  OneCarrier' /\ op'.at # "clearing"
<1>1. Types' /\ UserDoes /\ Undisturbed
  BY UserTypes DEF User
<1>2. ~busy /\ UNCHANGED <<page, worker, toParent, toWorker, fromWorker, ready>>
  BY <1>1 DEF UserDoes
<1>3. AllIdle /\ ChannelTypes /\ \A e \in Devices : e \in ready
  BY <1>1, <1>2, StartIdle DEF Undisturbed, Types
<1>4. kept' \in [Media -> Versions]
  BY <1>1 DEF Types, BenchTypes
<1>5. ASSUME NEW o \in Operations, Goes(o, owner)
      PROVE  OneCarrier' /\ op'.at # "clearing"
  BY <1>3, <1>4, <1>5, GoesOn
<1>6. CASE op' = op /\ UNCHANGED <<owner, toPage>>
  BY <1>2, <1>3, <1>6, Ended DEF busy
<1>7. ASSUME NEW commands \in Seq(Orders), Reads(commands), \A c \in In(commands) : Suits(c, Reading)
      PROVE  OneCarrier' /\ op'.at # "clearing"
  BY <1>3, <1>7, Started DEF Reads, Rejects, Reading, NoOp, Asks
<1>8. <<>> \in Seq(Orders) /\ \A c \in In(<<>>) : Suits(c, Reading)
  BY Emptied
<1>9. /\ <<Command("edit", SD)>> \in Seq(Orders)
      /\ \A c \in In(<<Command("edit", SD)>>) : Suits(c, Reading)
  BY OrderTypes, Single DEF Command, Plain, Reading, NoOp, Media, Suits, Commands
<1> QED
  BY <1>1, <1>5, <1>6, <1>7, <1>8, <1>9 DEF UserDoes

LEMMA SavedCarries ==
  ASSUME Types, Lives, OneCarrier, NEW d \in Devices, Saved(d)
  PROVE  /\ OneCarrier' /\ SavedDo(d) /\ Asks(d, Removal(Head(op.out)), Clearing)
         /\ AllIdle /\ AtGallery(d)
<1> DEFINE m == Head(op.out)
           next == Clearing
<1>1. SavedDo(d) /\ Answered(d, "saving") /\ m \in Media
  BY SavedDoes DEF SavedDo
<1>2. AllIdle /\ AtGallery(d)
  BY <1>1, AnsweredIdle
<1>3. d \in ready
  BY <1>1 DEF Answered, Lives, Steady
<1>4. Asks(d, Removal(m), next) /\ \A e \in Devices \ {d} : toPage'[e] = toPage[e]
  BY <1>1, <1>3 DEF SavedDo, Rejects
<1>5. next.at = "clearing" /\ next.out = op.out
  BY DEF Clearing, Types, BenchTypes, Operations
<1>6. Removal(m) \in Seq(Orders)
  BY <1>1, OrderTypes
<1>7. \A c \in In(Removal(m)) : Suits(c, next)
  BY <1>5, TwoIn DEF Command, Plain, Removal, Suits, Commands
<1>8. ChannelTypes
  BY DEF Types
<1> HIDE DEF m, next
<1>9. OneCarrier'
  BY <1>2, <1>4, <1>5, <1>6, <1>7, <1>8, Started
<1> QED
  BY <1>1, <1>2, <1>4, <1>9 DEF m, next

LEMMA ClearedCarries ==
  ASSUME Types, Lives, OneCarrier, NEW d \in Devices, Cleared(d)
  PROVE  /\ OneCarrier' /\ op'.at # "clearing" /\ ClearedDo(d)
         /\ AllIdle /\ AtGallery(d) /\ \A e \in Devices : Steady(e)
         /\ \/ Detaches(Rest, Abroad(Head(op.out))) \/ Inserts(Rest)
            \/ op' = NoOp /\ Rest.out = <<>> /\ Rest.target = None /\ toPage' = toPage
<1>1. ClearedDo(d) /\ Types' /\ Answered(d, "clearing") /\ Goes(Rest, Abroad(Head(op.out)))
  BY ClearedDoes DEF ClearedDo
<1>2. AllIdle /\ AtGallery(d)
  BY <1>1, AnsweredIdle
<1>3. \A e \in Devices : Steady(e) /\ e \in ready
  BY <1>1 DEF Answered, Lives, Steady
<1>4. ChannelTypes /\ Rest \in Operations /\ kept' \in [Media -> Versions]
  BY <1>1 DEF Goes, Plannable, Types, BenchTypes
<1>5. /\ OneCarrier' /\ op'.at # "clearing"
      /\ \/ Detaches(Rest, Abroad(Head(op.out))) \/ Inserts(Rest)
         \/ op' = NoOp /\ Rest.out = <<>> /\ Rest.target = None /\ toPage' = toPage
  BY <1>1, <1>2, <1>3, <1>4, GoesOn
<1> QED
  BY <1>1, <1>2, <1>3, <1>5

LEMMA OverCarries ==
  ASSUME Types, Lives, OneCarrier, NEW d \in Devices, Inserted(d) \/ Read(d)
  PROVE  /\ OneCarrier' /\ op' = NoOp /\ AllIdle /\ AtGallery(d) /\ UNCHANGED toPage
         /\ \A e \in Devices : Steady(e)
BY InsertedDoes, ReadDoes, AnsweredIdle, NoOpFields, Ended DEF InsertedDo, ReadDo, Answered, Lives

\* An operation does not end before its answer, and no answer comes late.
LEMMA ParentFirst ==
  ASSUME ChannelTypes, NEW d \in Devices, toParent[d] # <<>>
  PROVE  toParent[d][1] \in In(toParent[d]) /\ toParent[d][1] \in Messages
BY ChannelsOf, TailFacts, AllMessages DEF In

LEMMA NeverExpires ==
  ASSUME Types, OneCarrier, ~GalleryExpires, Expires
  PROVE  FALSE
<1>1. busy /\ ~Awaited
  BY DEF Expires
<1>2. Carrying(op.from)
  BY <1>1 DEF OneCarrier
<1>3. ~AtPage(op.from)
  BY <1>1 DEF Awaited, Occurs, AtPage, In
<1>4. ~AtWorker(op.from)
  BY <1>1 DEF Awaited, AtWorker
<1>5. ~AtGallery(op.from)
  BY <1>1 DEF Awaited, Occurs, AtGallery, In, No, Of
<1> QED
  BY <1>2, <1>3, <1>4, <1>5 DEF Carrying

LEMMA NeverStale ==
  ASSUME Types, OneCarrier, NEW d \in Devices, HearsStale(d)
  PROVE  FALSE
<1>1. /\ toParent[d] # <<>> /\ toParent[d][1].type = "snapshot"
      /\ ~(busy /\ op.from = d /\ op.id = toParent[d][1].id)
  BY StaleDoes
<1>2. toParent[d][1] \in In(toParent[d]) /\ toParent[d][1] \in Messages
  BY <1>1, ParentFirst DEF Types
<1>3. ~No(toParent[d], Of({"snapshot"}))
  BY <1>1, <1>2 DEF No, Of
<1>4. busy /\ d = op.from
  BY <1>3 DEF OneCarrier, Bare
<1>5. AtGallery(d)
  BY <1>3, <1>4 DEF OneCarrier, Carrying, AtPage, AtWorker
<1>6. toParent[d][1].id = op.id
  BY <1>1, <1>2, <1>5 DEF AtGallery
<1> QED
  BY <1>1, <1>4, <1>6

\* What may happen.
Step ==
  \/ User \/ UNCHANGED vars
  \/ \E d \in Devices : \/ HearsAwaiting(d) \/ HearsState(d)
                        \/ Saved(d) \/ Cleared(d) \/ Inserted(d) \/ Read(d)
                        \/ Device(d) \/ Firmware(d) \/ Interruption(d)

LEMMA Possible ==
  ASSUME Types, OneCarrier, ~GalleryExpires, [Next]_vars
  PROVE  Step
BY NeverExpires, NeverStale DEF Next, Bench, Step

\* A message of another kind is sent to a page.
LEMMA PlainSent ==
  ASSUME ChannelTypes, NEW d \in Devices, NEW c \in PageMessages, c.type \in {"provide", "restart"},
         toPage'[d] = Append(toPage[d], c)
  PROVE  No(toPage[d], Of({"export"} \cup Commands)) => No(toPage'[d], Of({"export"} \cup Commands))
BY PagePushed DEF Of, Commands, Pushes

LEMMA AwaitingBare ==
  ASSUME DeviceTypes, ChannelTypes, BenchTypes, NEW d \in Devices, HearsAwaiting(d), Bare(d)
  PROVE  Bare(d)'
<1>1. /\ toParent[d] # <<>> /\ toParent'[d] = Tail(toParent[d])
      /\ UNCHANGED <<page, worker, toWorker, fromWorker>>
  BY AwaitingDoes
<1>2. PICK files \in [Media -> Versions] :
        toPage'[d] = Append(toPage[d], [Plain("provide") EXCEPT !.files = files])
  BY AwaitingDoes
<1> DEFINE c == [Plain("provide") EXCEPT !.files = files]
<1>3. c.type = "provide" /\ c \in PageMessages
  BY NoFilesType DEF Plain, PageMessages, Message, Addressed, Commands
<1> HIDE DEF c
<1>4. No(toPage'[d], Of({"export"} \cup Commands))
  BY <1>2, <1>3, PlainSent DEF Bare, c
<1>5. No(toParent'[d], Of({"snapshot"}))
  BY <1>1, ParentPopped DEF Bare, Pops
<1> QED
  BY <1>1, <1>4, <1>5 DEF Bare, Unasked

LEMMA InterruptionBare ==
  ASSUME Types, ~Overlap, NEW d \in Devices, Interruption(d), Life(d)
  PROVE  Bare(d)'
<1>1. AtRest
  BY InterruptionLives
<1>2. page[d].asked = {} /\ toPage[d] = <<>> /\ toParent[d] = <<>> /\ toWorker[d] = <<>>
  BY <1>1, RestingLife
<1>3. DeviceTypes /\ ChannelTypes
  BY DEF Types
<1>4. CASE RestartButton(d)
  <2>1. /\ toPage'[d] = Append(toPage[d], Plain("restart"))
        /\ UNCHANGED <<page, worker, toParent, toWorker, fromWorker>>
    BY <1>4, ButtonDoes
  <2>2. Plain("restart") \in PageMessages /\ Plain("restart").type = "restart"
    BY PlainTypes, PlainFields
  <2>3. No(toPage'[d], Of({"export"} \cup Commands))
    BY <1>2, <1>3, <2>1, <2>2, Emptied, PlainSent
  <2> QED
    BY <1>2, <2>1, <2>3, Emptied DEF Bare, Unasked
<1>5. CASE Reboot(d)
  BY <1>2, <1>3, <1>5, FirmwareRebootsDoes, Emptied DEF Reboot, Bare, Unasked
<1>6. ASSUME NEW retries \in BOOLEAN, Crash(d, retries)
      PROVE  Bare(d)'
  <2>1. WorkerCrashes(d, retries)
    BY <1>6 DEF Crash
  <2>2. toWorker'[d] = <<>> /\ page'[d].asked = Orphans(page[d].asked) /\ UNCHANGED toPage
    BY <1>3, <2>1, CrashesDoes
  <2>3. (retries => UNCHANGED toParent) /\ (~retries => toParent'[d] = Append(toParent[d], Plain("error")))
    BY <1>3, <2>1, CrashesDoes
  <2>4. page'[d].asked = {}
    BY <1>2, <2>2 DEF Orphans
  <2>5. No(toParent'[d], Of({"snapshot"}))
    <3>1. CASE retries
      BY <1>2, <2>3, <3>1, Emptied
    <3>2. CASE ~retries
      <4>1. toParent'[d] = <<Plain("error")>>
        BY <1>2, <2>3, <3>2, FirstPushed
      <4>2. Plain("error") \notin Of({"snapshot"})
        BY PlainFields DEF Of
      <4> QED
        BY <4>1, <4>2, Single
    <3> QED
      BY <3>1, <3>2
  <2> QED
    BY <1>2, <2>2, <2>4, <2>5, Emptied DEF Bare, Unasked
<1>7. CASE Reload(d)
  <2>1. /\ page'[d] = LoadedPage /\ toPage'[d] = <<>> /\ toWorker'[d] = <<>>
        /\ toParent'[d] = Append(toParent[d], Plain("awaiting"))
    BY <1>3, <1>7, ReloadDoes
  <2>2. toParent'[d] = <<Plain("awaiting")>>
    BY <1>2, <2>1, FirstPushed
  <2>3. Plain("awaiting") \notin Of({"snapshot"})
    BY PlainFields DEF Of
  <2>4. No(toParent'[d], Of({"snapshot"}))
    BY <2>2, <2>3, Single
  <2>5. page'[d].asked = {}
    BY <2>1 DEF LoadedPage
  <2> QED
    BY <2>1, <2>4, <2>5, Emptied DEF Bare, Unasked
<1> QED
  BY <1>4, <1>5, <1>6, <1>7 DEF Interruption

LEMMA OneCarrierInit == Init => OneCarrier
<1> SUFFICES ASSUME Init
             PROVE  OneCarrier
  OBVIOUS
<1>1. ASSUME NEW d \in Devices
      PROVE  Bare(d)
  BY PlainFields, Single, Emptied DEF Init, PageInit, Of, LoadedPage, Bare, Unasked
<1>2. ~busy
  BY DEF Init, NoOp, busy
<1> QED
  BY <1>1, <1>2 DEF OneCarrier

LEMMA OneCarrierKept ==
  ASSUME ~Overlap, ~Stalls, Types, Lives, OneCarrier, Step
  PROVE  OneCarrier'
<1>0. DeviceTypes /\ ChannelTypes /\ BenchTypes
  BY DEF Types
<1>1. CASE User
  BY <1>1, UserCarries
<1>2. ASSUME NEW d \in Devices, HearsAwaiting(d)
      PROVE  OneCarrier'
  <2>1. Off(d) /\ Elsewhere(d) /\ op' = op
    BY <1>0, <1>2, AwaitingLives, AwaitingDoes DEF Lives, bench
  <2>2. ~busy /\ ~(busy')
    BY <2>1, NotUp DEF Lives, busy
  <2>3. Bare(d)'
    BY <1>0, <1>2, <2>2, AwaitingBare DEF OneCarrier
  <2>4. \A e \in Devices \ {d} : Bare(e)'
    BY <2>1, <2>2, SameCarries DEF Elsewhere, Carries, OneCarrier
  <2> QED
    BY <2>2, <2>3, <2>4 DEF OneCarrier
<1>3. ASSUME NEW d \in Devices, HearsState(d)
      PROVE  OneCarrier'
  <2>1. StateDo(d)
    BY <1>3, StateDoes
  <2>2. Quiet(d) /\ op' = op
    BY <2>1 DEF StateDo, Quiet, QuietPage, QuietWorker, QuietParent, QuietReports
  <2>3. Carries(d)
    BY <1>0, <2>2, QuietKeeps DEF Carries
  <2>4. \A e \in Devices \ {d} : Same(e)
    BY <2>1 DEF StateDo, Same
  <2>5. \A e \in Devices : Carries(e)
    BY <2>2, <2>3, <2>4, SameCarries
  <2> QED
    BY <2>2, <2>5, AllCarry
<1>4. ASSUME NEW d \in Devices, Saved(d) \/ Cleared(d) \/ Inserted(d) \/ Read(d)
      PROVE  OneCarrier'
  BY <1>4, SavedCarries, ClearedCarries, OverCarries
<1>5. ASSUME NEW d \in Devices, Device(d) \/ Firmware(d)
      PROVE  OneCarrier'
  <2>1. Elsewhere(d) /\ op' = op
    BY <1>0, <1>5, DeviceStepTypes, WritesDoes DEF bench, Firmware
  <2>2. Carries(d)
    BY <1>0, <1>5, <2>1, DeviceCarries DEF Lives
  <2>3. \A e \in Devices : Carries(e)
    BY <2>1, <2>2, SameCarries DEF Elsewhere
  <2> QED
    BY <2>1, <2>3, AllCarry
<1>6. ASSUME NEW d \in Devices, Interruption(d)
      PROVE  OneCarrier'
  BY <1>6, InterruptionLives, InterruptionBare, SameCarries DEF Lives, AtRest, busy, Elsewhere,
     Carries, OneCarrier
<1>7. CASE UNCHANGED vars
  BY <1>7, SameCarries, AllCarry DEF Same, vars, pageVars, channels, bench
<1> QED
  BY <1>1, <1>2, <1>3, <1>4, <1>5, <1>6, <1>7 DEF Step

-----------------------------------------------------------------------------
(* What a device does, as far as the media are concerned: it forwards or    *)
(* handles a command, its firmware writes, it starts, or neither its files  *)
(* nor its reader change.                                                   *)
Blank(c) == c.m = None /\ c.files = NoFiles /\ c.reader = {}
PageLearns(d) ==
  /\ \/ page'[d].files = page[d].files
     \/ \E c \in In(toPage[d]) \cup In(fromWorker[d]) : page'[d].files = c.files
  /\ \/ page'[d].reader \subseteq page[d].reader
     \/ \E c \in In(fromWorker[d]) : page'[d].reader \subseteq page[d].reader \cup c.reader
LessAtPage(d) ==
  \/ toPage'[d] = toPage[d]
  \/ toPage[d] # <<>> /\ toPage'[d] = Tail(toPage[d]) /\ toPage[d][1].type \notin Commands
MoreWork(d) ==
  \/ toWorker'[d] = toWorker[d]
  \/ \E x \in WorkerMessages : x.type \notin Commands /\ Blank(x) /\ toWorker'[d] = Append(toWorker[d], x)
OtherReports(d) ==
  \/ fromWorker'[d] = fromWorker[d]
  \/ fromWorker[d] # <<>> /\ fromWorker'[d] = Tail(fromWorker[d])
  \/ \E x \in Reports : Blank(x) /\ fromWorker'[d] = Append(fromWorker[d], x)
Untouched(d) == worker'[d].files = worker[d].files /\ worker'[d].reader = worker[d].reader
Passive(d)   == Untouched(d) /\ PageLearns(d) /\ LessAtPage(d) /\ MoreWork(d) /\ OtherReports(d)
Launched(d)  ==
  /\ ~Up(d) /\ PageLearns(d) /\ toPage' = toPage /\ toWorker'[d] = <<>> /\ fromWorker'[d] = <<>>
  /\ worker'[d].files = page'[d].files /\ worker'[d].reader = page'[d].reader

LEMMA BlankMessages ==
  ASSUME NEW d \in Devices
  PROVE  /\ toWorker'[d] = Append(toWorker[d], Plain("card-list")) => MoreWork(d)
         /\ \A id \in Ids : toWorker'[d] = Append(toWorker[d], Snapshot(id, NoFiles)) => MoreWork(d)
         /\ \A type \in {"running", "reboot"} :
              fromWorker'[d] = Append(fromWorker[d], Plain(type)) => OtherReports(d)
BY PlainTypes, PlainFields, SnapshotTypes, SnapshotFields, NoFilesType DEF Commands, Blank,
   MoreWork, OtherReports

LEMMA RestartedPassive ==
  ASSUME NEW d \in Devices, Restarted(d, toWorker)
  PROVE  Untouched(d) /\ PageLearns(d) /\ MoreWork(d)
<1>1. CASE page[d].restarting
  BY <1>1 DEF Restarted, Untouched, PageLearns, MoreWork
<1>2. CASE ~page[d].restarting
  BY <1>2, BlankMessages DEF Restarted, Untouched, PageLearns
<1> QED
  BY <1>1, <1>2

LEMMA LaunchLaunched ==
  ASSUME DeviceTypes, ChannelTypes, NEW d \in Devices, NEW files \in [Media -> Versions],
         NEW asked \in SUBSET Requests, NEW due \in Dues, Launch(d, files, asked, due), ~Up(d), toPage' = toPage,
         files = page[d].files \/ \E c \in In(toPage[d]) \cup In(fromWorker[d]) : files = c.files
  PROVE  Launched(d)
BY LaunchDoes DEF PageLearns, Launched

LEMMA SnapshotKinds ==
  ASSUME DeviceTypes, ChannelTypes, NEW d \in Devices, PageSnapshot(d), Life(d)
  PROVE  Passive(d) \/ Launched(d)
<1>1. /\ fromWorker[d] # <<>> /\ fromWorker[d][1].type = "snapshot" /\ UNCHANGED toPage
  BY SnapshotDoes
<1>2. (\A a \in page[d].asked : a.id # fromWorker[d][1].id) =>
        fromWorker'[d] = Tail(fromWorker[d]) /\ UNCHANGED <<page, worker, toParent, toWorker>>
  BY SnapshotDoes
<1>3. (\E a \in page[d].asked : a.id = fromWorker[d][1].id) =>
        \E a \in page[d].asked :
          /\ a.id = fromWorker[d][1].id
          /\ Resolved(d, a, fromWorker[d][1].files)
          /\ a.for # "restart" => fromWorker'[d] = Tail(fromWorker[d])
  BY SnapshotDoes
<1>4. fromWorker[d][1] \in In(fromWorker[d]) /\ fromWorker[d][1] \in Reports
  BY <1>1, ReportHead
<1>5. CASE \A a \in page[d].asked : a.id # fromWorker[d][1].id
  BY <1>1, <1>2, <1>5 DEF Passive, Untouched, PageLearns, LessAtPage, MoreWork, OtherReports
<1>6. CASE \E a \in page[d].asked : a.id = fromWorker[d][1].id
  <2>1. PICK a \in page[d].asked :
          /\ a.id = fromWorker[d][1].id
          /\ Resolved(d, a, fromWorker[d][1].files)
          /\ a.for # "restart" => fromWorker'[d] = Tail(fromWorker[d])
    BY <1>3, <1>6
  <2>2. CASE a.for \in {"parent", "refresh", "abandoned"}
    <3>1. fromWorker'[d] = Tail(fromWorker[d]) /\ Settles(d, a)
      BY <2>1, <2>2 DEF Resolved
    <3>2. page'[d].files = page[d].files \/ page'[d].files = fromWorker[d][1].files
      BY <2>1, <2>2 DEF Resolved
    <3>3. PageLearns(d)
      BY <1>4, <3>1, <3>2 DEF PageLearns, Settles
    <3> QED
      BY <1>1, <3>1, <3>3 DEF Passive, Settles, Untouched, LessAtPage, MoreWork, OtherReports
  <2>3. CASE a.for = "restart"
    BY <1>1, <1>4, <2>1, <2>3, Fields, LaunchLaunched DEF Up, Resolved, Reports, Message
  <2>4. a.for \in {"parent", "refresh", "restart", "abandoned"}
    BY Fields DEF Requests
  <2> QED
    BY <2>2, <2>3, <2>4
<1> QED
  BY <1>5, <1>6

Kinds(d) == \/ Passive(d) \/ Launched(d) \/ PageForwards(d) \/ WorkerHandles(d)
            \/ \E m \in Media : FirmwareWrites(d, m)

LEMMA DeviceKinds ==
  ASSUME DeviceTypes, ChannelTypes, ~Stalls, NEW d \in Devices, Life(d), Device(d) \/ Firmware(d)
  PROVE  Kinds(d)
<1> USE DEF Kinds
<1>1. CASE Firmware(d)
  BY <1>1 DEF Firmware
<1>2. CASE PageForwards(d) \/ WorkerHandles(d)
  BY <1>2
<1>3. CASE PageProvided(d)
  BY <1>3, ProvidedDoes, PageHead DEF PageLearns, Passive, Untouched, LessAtPage, MoreWork,
     OtherReports, Commands
<1>4. CASE PageExports(d)
  BY <1>4, ExportsDoes, BlankMessages DEF MoreWork, Passive, Untouched, PageLearns, LessAtPage,
     OtherReports, Commands
<1>5. CASE PageRestarts(d)
  BY <1>5, RestartsLives, RestartsDoes, RestartedPassive DEF Told, Running, Passive, LessAtPage,
     OtherReports, Commands
<1>6. CASE PageReboots(d)
  BY <1>6, RebootsDoes, RestartedPassive DEF Passive, LessAtPage, OtherReports
<1>7. CASE PageSeesRunning(d)
  BY <1>7, SeesRunningDoes, BlankMessages DEF Passive, Untouched, PageLearns, LessAtPage,
     OtherReports
<1>8. CASE PageSeesSd(d)
  BY <1>8, SeesSdDoes, ReportHead DEF PageLearns, Passive, Untouched, LessAtPage, MoreWork,
     OtherReports
<1>9. CASE PageSeesCard(d)
  BY <1>9, SeesCardDoes, ReportHead, BlankMessages DEF PageLearns, Passive, Untouched, LessAtPage,
     OtherReports
<1>10. CASE PageSnapshot(d)
  BY <1>10, SnapshotKinds
<1>11. CASE PageStarts(d)
  BY <1>11, StartsDoes, StartsLives, NotUp, Fields, LaunchLaunched DEF Dues
<1>12. CASE WorkerReady(d)
  BY <1>12, ReadyDoes DEF Passive, Untouched, PageLearns, LessAtPage, MoreWork, OtherReports
<1>13. CASE WorkerRuns(d)
  BY <1>13, RunsDoes, BlankMessages DEF Passive, Untouched, PageLearns, LessAtPage, MoreWork
<1>14. ASSUME NEW a \in page[d].asked, PageTimeout(d, a)
       PROVE  FALSE
  BY <1>14, TimeoutLives
<1> QED
  BY <1>1, <1>2, <1>3, <1>4, <1>5, <1>6, <1>7, <1>8, <1>9, <1>10, <1>11, <1>12, <1>13, <1>14
     DEF Device, PageSteps, WorkerSteps

\* What the other steps do to the commands under way.
LEMMA PageShapes ==
  ASSUME ChannelTypes, NEW d \in Devices, LessAtPage(d), NEW A, NEW B, A \subseteq Of(Commands), B \subseteq Of(Commands)
  PROVE  /\ No(toPage'[d], A) <=> No(toPage[d], A)
         /\ Behind(toPage[d], A, B) => Behind(toPage'[d], A, B)
<1>1. CASE toPage'[d] = toPage[d]
  BY <1>1
<1>2. CASE toPage[d] # <<>> /\ toPage'[d] = Tail(toPage[d]) /\ toPage[d][1].type \notin Commands
  BY <1>2, PagePopped DEF Of, Pops
<1> QED
  BY <1>1, <1>2 DEF LessAtPage

LEMMA WorkShapes ==
  ASSUME ChannelTypes, NEW d \in Devices, MoreWork(d), NEW A, NEW B, A \subseteq Of(Commands), B \subseteq Of(Commands)
  PROVE  /\ No(toWorker'[d], A) <=> No(toWorker[d], A)
         /\ Behind(toWorker[d], A, B) => Behind(toWorker'[d], A, B)
<1>1. CASE toWorker'[d] = toWorker[d]
  BY <1>1
<1>2. ASSUME NEW x \in WorkerMessages, x.type \notin Commands, toWorker'[d] = Append(toWorker[d], x)
      PROVE  /\ No(toWorker'[d], A) <=> No(toWorker[d], A)
             /\ Behind(toWorker[d], A, B) => Behind(toWorker'[d], A, B)
  BY <1>2, WorkerPushed DEF Of, Pushes
<1> QED
  BY <1>1, <1>2 DEF MoreWork

LEMMA SomeBehind ==
  ASSUME NEW s, NEW A, NEW B, Behind(s, A, B), ~No(s, A)
  PROVE  ~No(s, B)
BY DEF Behind, No, In

\* Only the removal of m is under way to the device.
Detaching(d, m) ==
  \A c \in In(toPage[d]) \cup In(toWorker[d]) : c.type \in Commands => c.type \in {"eject", "remove"} /\ c.m = m

LEMMA Removals ==
  /\ Of({"eject"}) \subseteq Of(Commands) /\ Of({"remove"}) \subseteq Of(Commands)
  /\ Of({"eject"}) \cap Of({"remove"}) = {}
BY DEF Of, Commands

LEMMA PassiveRemoves ==
  ASSUME ChannelTypes, NEW d \in Devices, NEW m \in Media, Passive(d), Removing(d, m)
  PROVE  Removing(d, m)'
BY Removals, PageShapes, WorkShapes DEF Passive, Removing, Untouched

LEMMA ForwardRemoves ==
  ASSUME DeviceTypes, ChannelTypes, NEW d \in Devices, NEW m \in Media, PageForwards(d), Up(d),
         Detaching(d, m), Removing(d, m)
  PROVE  Removing(d, m)'
<1> DEFINE c == toPage[d][1]
<1>1. worker[d].phase # "none"
  BY DEF Up, Running
<1>2. /\ toPage[d] # <<>> /\ c.type \in Commands /\ toPage'[d] = Tail(toPage[d]) /\ c \in WorkerMessages
      /\ worker' = worker /\ toWorker'[d] = Append(toWorker[d], c)
  BY <1>1, ForwardsDoes
<1>3. Pops(PageMessages, toPage[d], toPage'[d]) /\ Pushes(WorkerMessages, toWorker[d], toWorker'[d], c)
  BY <1>2, PagePopped, WorkerPushed
<1>4. c \in In(toPage[d]) /\ c \in Messages
  BY <1>2, <1>3, AllMessages DEF Pops
<1>5. c.type \in {"eject", "remove"}
  BY <1>2, <1>4 DEF Detaching
<1>6. Behind(toPage'[d], Of({"eject"}), Of({"remove"}))
  BY <1>3 DEF Pops, Removing
<1> HIDE DEF c
<1>7. CASE c.type = "eject"
  BY <1>3, <1>4, <1>6, <1>7 DEF Of, Pops, Removing, c, Pushes
<1>8. CASE c.type = "remove"
  BY <1>2, <1>3, <1>4, <1>6, <1>8 DEF Of, Pushes, Pops, c, Removing
<1> QED
  BY <1>5, <1>7, <1>8

LEMMA HandleRemoves ==
  ASSUME DeviceTypes, ChannelTypes, NEW d \in Devices, NEW m \in Media, WorkerHandles(d),
         Detaching(d, m), Removing(d, m)
  PROVE  Removing(d, m)'
<1> DEFINE c == toWorker[d][1]
<1>1. /\ toWorker[d] # <<>> /\ toWorker'[d] = Tail(toWorker[d]) /\ c \in WorkerMessages
      /\ HandledAs(d, c) /\ toPage' = toPage
  BY HandlesDoes
<1>2. Pops(WorkerMessages, toWorker[d], toWorker'[d])
  BY <1>1, WorkerPopped
<1>3. c \in In(toWorker[d]) /\ c \in Messages
  BY <1>1, <1>2, AllMessages DEF Pops
<1>4. Behind(toWorker[d], Of({"eject"}), Of({"remove"})) => Behind(toWorker'[d], Of({"eject"}), Of({"remove"}))
  BY <1>2 DEF Pops
<1>5. /\ c.type # "eject" /\ No(toWorker'[d], Of({"eject"})) => No(toWorker[d], Of({"eject"}))
      /\ c.type # "remove" /\ No(toWorker'[d], Of({"remove"})) => No(toWorker[d], Of({"remove"}))
  BY <1>2 DEF Pops, Of
<1>6. c.type \in {"snapshot", "card-list"} \/ (c.type \in {"eject", "remove"} /\ c.m = m)
  BY <1>1, <1>3 DEF WorkerMessages, Addressed, Message, Detaching
<1> HIDE DEF c
<1>7. CASE c.type \in {"snapshot", "card-list"}
  BY <1>1, <1>4, <1>5, <1>7 DEF HandledAs, Removing
<1>8. CASE c.type = "eject" /\ c.m = m
  BY <1>1, <1>4, <1>5, <1>8 DEF HandledAs, Beside, Media, Removing
<1>9. CASE c.type = "remove" /\ c.m = m
  BY <1>1, <1>4, <1>5, <1>9 DEF HandledAs, Removing
<1> QED
  BY <1>6, <1>7, <1>8, <1>9

LEMMA WriteRemoves ==
  ASSUME DeviceTypes, ChannelTypes, NEW d \in Devices, NEW m \in Media, NEW x \in Media,
         FirmwareWrites(d, x), Removing(d, m)
  PROVE  Removing(d, m)'
<1>1. /\ x \in worker[d].reader /\ worker'[d].reader = worker[d].reader /\ Only(d, x)
      /\ UNCHANGED <<toPage, toWorker>>
  BY WritesDoes
<1>2. CASE x # m
  BY <1>1, <1>2 DEF Only, Removing
<1>3. CASE x = m
  BY <1>1, <1>3, SomeBehind DEF Removing
<1> QED
  BY <1>2, <1>3

LEMMA RemovalGoesOn ==
  ASSUME DeviceTypes, ChannelTypes, NEW d \in Devices, NEW m \in Media, Kinds(d), Up(d),
         Detaching(d, m), Removing(d, m)
  PROVE  Removing(d, m)'
BY PassiveRemoves, ForwardRemoves, HandleRemoves, WriteRemoves DEF Kinds, Launched

LEMMA RemovalBegins ==
  ASSUME NEW d \in Devices, NEW m \in Media, NEW x, x \notin Of({"eject"}), toPage[d] = <<>>,
         toPage'[d] = toPage[d] \o Append(Removal(m), x),
         No(toWorker'[d], Of(Commands))
  PROVE  Removing(d, m)'
<1> DEFINE a == Command("eject", m)
           b == Command("remove", m)
<1>1. a \in Of({"eject"}) /\ b \in Of({"remove"})
  BY CommandOrders, AllMessages, CommandFields DEF Commands, Orders, Of
<1>2. Removal(m) = <<a, b>>
  BY DEF Removal
<1> HIDE DEF a, b
<1>3. <<a, b>> \in Seq({a, b, x}) /\ Len(<<a, b>>) = 2 /\ <<a, b>>[1] = a /\ <<a, b>>[2] = b
  OBVIOUS
<1> DEFINE t == Append(<<a, b>>, x)
<1>4. DOMAIN toPage'[d] = 1..3 /\ toPage'[d][1] = a /\ toPage'[d][2] = b /\ toPage'[d][3] = x
  BY <1>2, <1>3, AppendFacts, ConcatEmptySeq DEF t
<1> HIDE DEF t
<1>5. ~No(toPage'[d], Of({"eject"})) /\ ~No(toPage'[d], Of({"remove"}))
  BY <1>1, <1>4 DEF No, In
<1>6. b \notin Of({"eject"})
  BY <1>1, Removals
<1>7. Behind(toPage'[d], Of({"eject"}), Of({"remove"}))
  <2> SUFFICES ASSUME NEW i \in DOMAIN toPage'[d], toPage'[d][i] \in Of({"eject"})
               PROVE  \E j \in DOMAIN toPage'[d] : j > i /\ toPage'[d][j] \in Of({"remove"})
    BY DEF Behind
  <2>1. i = 1 /\ 2 \in DOMAIN toPage'[d]
    BY <1>4, <1>6
  <2> QED
    BY <1>1, <1>4, <2>1
<1> QED
  BY <1>5, <1>7, NoneBehind, Removals DEF Removing, No

LEMMA Detached ==
  ASSUME Types, op.at \in {"saving", "clearing"}
  PROVE  op.out # <<>> /\ Head(op.out) \in Media /\ op.from \in Devices /\ op.from = owner[Head(op.out)]
BY OperationFields, TailFacts, WaitedFor DEF Types, BenchTypes, Planned, busy

LEMMA RemovedSame ==
  ASSUME Removed, op' = op,
         op.at = "clearing" => /\ toPage'[op.from] = toPage[op.from] /\ toWorker'[op.from] = toWorker[op.from]
                               /\ worker'[op.from] = worker[op.from]
  PROVE  Removed'
BY DEF Removed, Removing

LEMMA RemovedKept ==
  ASSUME ~Overlap, ~Stalls, Types, Lives, OneCarrier, Removed, Step
  PROVE  Removed'
<1>0. DeviceTypes /\ ChannelTypes /\ BenchTypes
  BY DEF Types
<1>1. CASE User
  BY <1>1, UserCarries DEF Removed
<1>2. ASSUME NEW d \in Devices, HearsAwaiting(d)
      PROVE  Removed'
  BY <1>0, <1>2, AwaitingLives, AwaitingDoes, NotUp DEF Lives, bench, busy, Removed
<1>3. ASSUME NEW d \in Devices, HearsState(d)
      PROVE  Removed'
  BY <1>3, StateDoes, RemovedSame DEF StateDo
<1>4. ASSUME NEW d \in Devices, Saved(d)
      PROVE  Removed'
  <2>1. /\ SavedDo(d) /\ Asks(d, Removal(Head(op.out)), Clearing) /\ AtGallery(d)
    BY <1>4, SavedCarries
  <2>2. Answered(d, "saving") /\ op.at = "saving"
    BY <2>1 DEF SavedDo, Answered
  <2>3. PICK m \in Media : m = Head(op.out)
    BY <2>2, Detached
  <2>4. /\ op'.from = d /\ op'.out = op.out
        /\ toPage'[d] = toPage[d] \o Append(Removal(m), Export(op'.id))
    BY <2>1, <2>3 DEF Asks, Clearing, Types, BenchTypes, Operations
  <2>5. toPage[d] = <<>> /\ No(toWorker'[d], Of(Commands))
    BY <2>1, <2>2 DEF AtGallery, Answered
  <2> DEFINE x == Export(op'.id)
  <2>6. x \notin Of({"eject"})
    BY ExportFields DEF Of
  <2> HIDE DEF x
  <2>7. Removing(d, m)'
    BY <2>4, <2>5, <2>6, RemovalBegins DEF x
  <2> QED
    BY <2>3, <2>4, <2>7 DEF Removed, Removing
<1>5. ASSUME NEW d \in Devices, Cleared(d) \/ Inserted(d) \/ Read(d)
      PROVE  Removed'
  BY <1>5, ClearedCarries, OverCarries, NoOpFields DEF Removed
<1>6. ASSUME NEW d \in Devices, Device(d) \/ Firmware(d)
      PROVE  Removed'
  <2>1. Elsewhere(d) /\ op' = op
    BY <1>0, <1>6, DeviceStepTypes, WritesDoes DEF bench, Firmware
  <2>2. ASSUME op.at = "clearing", d = op.from
        PROVE  Removed'
    <3>1. PICK m \in Media : m = Head(op.out)
      BY <2>2, Detached
    <3>2. Kinds(d)
      BY <1>0, <1>6, DeviceKinds DEF Lives
    <3>3. Up(d) /\ Removing(d, m)
      BY <2>2, <3>1 DEF Lives, busy, Steady, Removed, Removing
    <3>4. Detaching(d, m)
      BY <2>2, <3>1 DEF OneCarrier, busy, Carrying, Fitting, Fits, Detaching
    <3>5. Removing(d, m)'
      BY <1>0, <3>2, <3>3, <3>4, RemovalGoesOn
    <3> QED
      BY <2>1, <2>2, <3>1, <3>5 DEF Removed, Removing
  <2>3. ASSUME op.at = "clearing" => d # op.from
        PROVE  Removed'
    BY <2>1, <2>3, Detached, RemovedSame DEF Elsewhere, Same
  <2> QED
    BY <2>2, <2>3
<1>7. ASSUME NEW d \in Devices, Interruption(d)
      PROVE  Removed'
  BY <1>7, InterruptionLives DEF Lives, AtRest, busy, Removed
<1>8. CASE UNCHANGED vars
  BY <1>8, RemovedSame DEF vars, pageVars, channels, bench
<1> QED
  BY <1>1, <1>2, <1>3, <1>4, <1>5, <1>6, <1>7, <1>8 DEF Step

\* When the detaching is over, the medium is out.
LEMMA ClearedClean ==
  ASSUME Types, OneCarrier, Removed, NEW d \in Devices, NEW m, m = Head(op.out), Answered(d, "clearing")
  PROVE  m \notin worker[d].reader /\ worker[d].files[m] = 0
BY AnsweredIdle, Emptied, Removals DEF Answered, AtGallery, No, Removed, Removing

-----------------------------------------------------------------------------
(* The page learns what the worker has: it agrees with it, or a message     *)
(* that makes it agree is under way, behind every message that would not.   *)
Tells(m, rd) == {c \in Reports : c.type = Rep(m) /\ (m \in c.reader <=> m \in rd)}
Lies(m, rd)  == {c \in Reports : c.type = Rep(m) /\ ~(m \in c.reader <=> m \in rd)}
ReaderTold(d, m) ==
  /\ Behind(fromWorker[d], Lies(m, worker[d].reader), Tells(m, worker[d].reader))
  /\ (m \in page[d].reader <=> m \in worker[d].reader) \/ ~No(fromWorker[d], Tells(m, worker[d].reader))

\* A card-state makes the page ask, and the answer to that is remembered.
Refreshes(d)  == {a.id : a \in {b \in page[d].asked : b.for = "refresh"}}
Asking(d)     == {c \in Messages : c.type = "snapshot" /\ c.id \in Refreshes(d)}
Old(m)        == {c \in Messages : c.type = "snapshot" /\ c.files[m] # 0}
Renewal(d, m) == {c \in Messages : c.type = "card-state" \/ (c \in Asking(d) /\ c.files[m] = 0)}
FilesTold(d, m) ==
  worker[d].files[m] = 0 =>
    \/ ~No(toWorker[d], Asking(d))
    \/ /\ Behind(fromWorker[d], Old(m), Renewal(d, m))
       /\ page[d].files[m] = 0 \/ ~No(fromWorker[d], Renewal(d, m))

Agreed(d) == worker[d].phase # "none" => \A m \in Media : ReaderTold(d, m) /\ FilesTold(d, m)
Agreement == \A d \in Devices : Agreed(d)

\* What is said of a reader depends on nothing but whether the medium is in it.
LEMMA SaidAlike ==
  ASSUME NEW m, NEW r, NEW s, m \in r <=> m \in s
  PROVE  Tells(m, r) = Tells(m, s) /\ Lies(m, r) = Lies(m, s)
BY DEF Tells, Lies

LEMMA ReaderKept ==
  ASSUME ChannelTypes, NEW d \in Devices, NEW m \in Media, ReaderTold(d, m),
         m \in worker'[d].reader <=> m \in worker[d].reader,
         m \in page'[d].reader <=> m \in page[d].reader,
         \/ fromWorker'[d] = fromWorker[d]
         \/ \E x \in Reports : x.type # Rep(m) /\ fromWorker'[d] = Append(fromWorker[d], x)
         \/ fromWorker[d] # <<>> /\ fromWorker'[d] = Tail(fromWorker[d]) /\ fromWorker[d][1].type # Rep(m)
  PROVE  ReaderTold(d, m)'
<1> DEFINE T == Tells(m, worker[d].reader)
           L == Lies(m, worker[d].reader)
<1>1. Tells(m, worker'[d].reader) = T /\ Lies(m, worker'[d].reader) = L
  BY SaidAlike
<1>2. \A c : c.type # Rep(m) => c \notin T /\ c \notin L
  BY DEF Tells, Lies
<1>3. Behind(fromWorker[d], L, T) /\ ((m \in page[d].reader <=> m \in worker[d].reader) \/ ~No(fromWorker[d], T))
  BY DEF ReaderTold
<1> HIDE DEF T, L
<1>4. Behind(fromWorker'[d], L, T) /\ (~No(fromWorker[d], T) => ~No(fromWorker'[d], T))
  <2>1. CASE fromWorker'[d] = fromWorker[d]
    BY <1>3, <2>1
  <2>2. ASSUME NEW x \in Reports, x.type # Rep(m), fromWorker'[d] = Append(fromWorker[d], x)
        PROVE  Behind(fromWorker'[d], L, T) /\ (~No(fromWorker[d], T) => ~No(fromWorker'[d], T))
    BY <1>2, <1>3, <2>2, ReportPushed DEF Pushes
  <2>3. CASE fromWorker[d] # <<>> /\ fromWorker'[d] = Tail(fromWorker[d]) /\ fromWorker[d][1].type # Rep(m)
    BY <1>2, <1>3, <2>3, ReportPopped DEF Pops
  <2> QED
    BY <2>1, <2>2, <2>3
<1> QED
  BY <1>1, <1>3, <1>4 DEF ReaderTold

LEMMA ReaderHeard ==
  ASSUME ChannelTypes, NEW d \in Devices, NEW m \in Media, ReaderTold(d, m),
         worker'[d].reader = worker[d].reader,
         fromWorker[d] # <<>>, fromWorker'[d] = Tail(fromWorker[d]), fromWorker[d][1].type = Rep(m),
         m \in page'[d].reader <=> m \in fromWorker[d][1].reader
  PROVE  ReaderTold(d, m)'
<1> DEFINE T == Tells(m, worker[d].reader)
           L == Lies(m, worker[d].reader)
<1>1. Pops(Reports, fromWorker[d], fromWorker'[d])
  BY ReportPopped
<1>2. fromWorker[d][1] \in Reports
  BY <1>1 DEF Pops
<1>3. fromWorker[d][1] \in T \/ fromWorker[d][1] \in L
  BY <1>2 DEF Tells, Lies
<1>4. fromWorker[d][1] \in T => (m \in page'[d].reader <=> m \in worker[d].reader)
  BY DEF Tells
<1>5. Behind(fromWorker[d], L, T)
  BY DEF ReaderTold
<1> HIDE DEF T, L
<1>6. Behind(fromWorker'[d], L, T) /\ (fromWorker[d][1] \in L => ~No(fromWorker'[d], T))
  BY <1>1, <1>5 DEF Pops
<1> QED
  BY <1>3, <1>4, <1>6 DEF ReaderTold, T, L

LEMMA ReaderSaid ==
  ASSUME ChannelTypes, NEW d \in Devices, NEW m \in Media, worker'[d].reader \in SUBSET Media,
         Says(d, Rep(m))
  PROVE  ReaderTold(d, m)'
<1> DEFINE x == Report(Rep(m), worker'[d].reader)
           T == Tells(m, worker'[d].reader)
           L == Lies(m, worker'[d].reader)
<1>1. x \in Reports /\ fromWorker'[d] = Append(fromWorker[d], x)
  BY ReportTypes DEF Says, Rep
<1>2. x \in T /\ x \notin L
  BY <1>1, ReportFields DEF Tells, Lies
<1> HIDE DEF x, T, L
<1>3. Pushes(Reports, fromWorker[d], fromWorker'[d], x)
  BY <1>1, ReportPushed
<1>4. Behind(fromWorker'[d], L, T) /\ ~No(fromWorker'[d], T)
  BY <1>2, <1>3 DEF Pushes
<1> QED
  BY <1>4 DEF ReaderTold, T, L

LEMMA FreshAgreed ==
  ASSUME NEW d \in Devices, fromWorker'[d] = <<>>,
         worker'[d].files = page'[d].files, worker'[d].reader = page'[d].reader
  PROVE  Agreed(d)'
<1>1. ASSUME NEW m \in Media
      PROVE  ReaderTold(d, m)' /\ FilesTold(d, m)'
  BY Emptied DEF ReaderTold, FilesTold
<1> QED
  BY <1>1 DEF Agreed

LEMMA FilesKept ==
  ASSUME ChannelTypes, NEW d \in Devices, NEW m \in Media, FilesTold(d, m),
         worker'[d].files[m] = 0 => worker[d].files[m] = 0,
         page'[d].files[m] = page[d].files[m], Refreshes(d)' = Refreshes(d),
         \/ toWorker'[d] = toWorker[d]
         \/ \E x \in WorkerMessages : toWorker'[d] = Append(toWorker[d], x)
         \/ toWorker[d] # <<>> /\ toWorker'[d] = Tail(toWorker[d]) /\ toWorker[d][1] \notin Asking(d),
         \/ fromWorker'[d] = fromWorker[d]
         \/ \E x \in Reports : x \notin Old(m) /\ fromWorker'[d] = Append(fromWorker[d], x)
         \/ fromWorker[d] # <<>> /\ fromWorker'[d] = Tail(fromWorker[d]) /\ fromWorker[d][1] \notin Renewal(d, m)
  PROVE  FilesTold(d, m)'
<1> DEFINE A == Asking(d)
           O == Old(m)
           R == Renewal(d, m)
<1>1. Asking(d)' = A /\ Renewal(d, m)' = R
  BY DEF Asking, Renewal
<1>2. worker[d].files[m] = 0 =>
        \/ ~No(toWorker[d], A)
        \/ Behind(fromWorker[d], O, R) /\ (page[d].files[m] = 0 \/ ~No(fromWorker[d], R))
  BY DEF FilesTold
<1> HIDE DEF A, O, R
<1>3. ~No(toWorker[d], A) => ~No(toWorker'[d], A)
  <2>1. CASE toWorker'[d] = toWorker[d]
    BY <2>1
  <2>2. ASSUME NEW x \in WorkerMessages, toWorker'[d] = Append(toWorker[d], x)
        PROVE  ~No(toWorker[d], A) => ~No(toWorker'[d], A)
    BY <2>2, WorkerPushed DEF Pushes
  <2>3. CASE toWorker[d] # <<>> /\ toWorker'[d] = Tail(toWorker[d]) /\ toWorker[d][1] \notin Asking(d)
    BY <2>3, WorkerPopped DEF Pops, A
  <2> QED
    BY <2>1, <2>2, <2>3
<1>4. /\ Behind(fromWorker[d], O, R) => Behind(fromWorker'[d], O, R)
      /\ ~No(fromWorker[d], R) => ~No(fromWorker'[d], R)
  <2>1. CASE fromWorker'[d] = fromWorker[d]
    BY <2>1
  <2>2. ASSUME NEW x \in Reports, x \notin Old(m), fromWorker'[d] = Append(fromWorker[d], x)
        PROVE  /\ Behind(fromWorker[d], O, R) => Behind(fromWorker'[d], O, R)
               /\ ~No(fromWorker[d], R) => ~No(fromWorker'[d], R)
    BY <2>2, ReportPushed DEF Pushes, O
  <2>3. CASE fromWorker[d] # <<>> /\ fromWorker'[d] = Tail(fromWorker[d]) /\ fromWorker[d][1] \notin Renewal(d, m)
    BY <2>3, ReportPopped DEF Pops, R
  <2> QED
    BY <2>1, <2>2, <2>3
<1>5. worker'[d].files[m] = 0 =>
        \/ ~No(toWorker'[d], A)
        \/ Behind(fromWorker'[d], O, R) /\ (page'[d].files[m] = 0 \/ ~No(fromWorker'[d], R))
  BY <1>2, <1>3, <1>4
<1> QED
  BY <1>1, <1>5 DEF FilesTold, O

LEMMA FilesSaid ==
  ASSUME ChannelTypes, NEW d \in Devices, NEW m \in Media, NEW x \in Reports,
         fromWorker'[d] = Append(fromWorker[d], x), x \in Renewal(d, m)', x \notin Old(m)
  PROVE  FilesTold(d, m)'
BY ReportPushed DEF Pushes, FilesTold

Agrees(d) == Agreed(d) => Agreed(d)'

LEMMA RepOf ==
  ASSUME NEW m \in Media
  PROVE  /\ Rep(m) \in {"sd-state", "card-state"}
         /\ \A n \in Media : Rep(n) # Rep(m) => n # m /\ n \notin Beside(m)
         /\ m \in Beside(m) /\ (m \in Cards => Rep(m) = "card-state") /\ (m = SD => Rep(m) = "sd-state")
BY MediaAssumption DEF Rep, Beside, Media

LEMMA OtherRequest ==
  ASSUME NEW d \in Devices, NEW id, NEW for, NEW request, for # "refresh",
         page'[d].asked = page[d].asked \cup {Asked(id, for, request)}
  PROVE  Refreshes(d)' = Refreshes(d)
BY DEF Asked, Refreshes

\* A step that is of no interest to it.
OtherReport(d) ==
  \/ fromWorker'[d] = fromWorker[d]
  \/ \E type \in {"running", "reboot"} : fromWorker'[d] = Append(fromWorker[d], Plain(type))
  \/ fromWorker[d] # <<>> /\ fromWorker'[d] = Tail(fromWorker[d]) /\ fromWorker[d][1].type \in {"running", "reboot"}

LEMMA PlainAgrees ==
  ASSUME ChannelTypes, NEW d \in Devices, worker'[d].phase # "none" => worker[d].phase # "none",
         Untouched(d), page'[d].reader = page[d].reader, page'[d].files = page[d].files,
         Refreshes(d)' = Refreshes(d), OtherReport(d),
         \/ toWorker'[d] = toWorker[d]
         \/ \E x \in WorkerMessages : toWorker'[d] = Append(toWorker[d], x)
  PROVE  Agrees(d)
<1> SUFFICES ASSUME Agreed(d), worker'[d].phase # "none", NEW m \in Media
             PROVE  ReaderTold(d, m)' /\ FilesTold(d, m)'
  BY DEF Agrees, Agreed
<1>1. ReaderTold(d, m) /\ FilesTold(d, m)
  BY DEF Agreed
<1>2. \A type \in {"running", "reboot"} :
        Plain(type) \in Reports /\ Plain(type).type # Rep(m) /\ Plain(type) \notin Old(m)
  BY PlainTypes, PlainFields, RepOf DEF Old
<1>3. \A c : c.type \in {"running", "reboot"} => c.type # Rep(m) /\ c \notin Renewal(d, m)
  BY RepOf DEF Renewal, Asking
<1>4. ReaderTold(d, m)'
  BY <1>1, <1>2, <1>3, ReaderKept DEF OtherReport, Untouched
<1>5. FilesTold(d, m)'
  BY <1>1, <1>2, <1>3, FilesKept DEF OtherReport, Untouched
<1> QED
  BY <1>4, <1>5

LEMMA RestartedAgrees ==
  ASSUME ChannelTypes, NEW d \in Devices, Restarted(d, toWorker), OtherReport(d)
  PROVE  Agrees(d)
<1>1. worker' = worker /\ Untouched(d)
  BY DEF Restarted, Untouched
<1>2. CASE page[d].restarting
  BY <1>1, <1>2, PlainAgrees DEF Restarted, Refreshes
<1>3. CASE ~page[d].restarting
  BY <1>1, <1>3, OtherRequest, SnapshotTypes, NoFilesType, PlainAgrees DEF Restarted
<1> QED
  BY <1>2, <1>3

LEMMA SeesAgrees ==
  ASSUME DeviceTypes, ChannelTypes, NEW d \in Devices, PageSeesSd(d) \/ PageSeesCard(d), Life(d)
  PROVE  Agrees(d)
<1> DEFINE c == fromWorker[d][1]
<1> SUFFICES ASSUME Agreed(d), worker'[d].phase # "none", NEW m \in Media
             PROVE  ReaderTold(d, m)' /\ FilesTold(d, m)'
  BY DEF Agrees, Agreed
<1>1. fromWorker[d] # <<>> /\ fromWorker'[d] = Tail(fromWorker[d]) /\ worker' = worker
  BY SeesSdDoes, SeesCardDoes
<1>2. ReaderTold(d, m) /\ FilesTold(d, m)
  BY <1>1 DEF Agreed
<1>3. CASE PageSeesSd(d)
  <2>1. /\ c.type = "sd-state" /\ page'[d].files = page[d].files /\ page'[d].asked = page[d].asked
        /\ page'[d].reader = (page[d].reader \ {SD}) \cup (c.reader \cap {SD})
        /\ toWorker' = toWorker
    BY <1>3, SeesSdDoes
  <2>2. ReaderTold(d, m)'
    <3>1. CASE m = SD
      BY <1>1, <1>2, <2>1, <3>1, RepOf, ReaderHeard
    <3>2. CASE m # SD
      BY <1>1, <1>2, <2>1, <3>2, RepOf, ReaderKept DEF Media
    <3> QED
      BY <3>1, <3>2
  <2>3. FilesTold(d, m)'
    BY <1>1, <1>2, <2>1, FilesKept DEF Refreshes, Renewal, Asking
  <2> QED
    BY <2>2, <2>3
<1>4. CASE PageSeesCard(d)
  <2>1. /\ c.type = "card-state" /\ NextId(d) \in Ids
        /\ page'[d].reader = (page[d].reader \ Cards) \cup (c.reader \cap Cards)
        /\ page'[d].asked = page[d].asked \cup {Asked(NextId(d), "refresh", 0)}
        /\ toWorker'[d] = Append(toWorker[d], Snapshot(NextId(d), NoFiles))
    BY <1>4, SeesCardDoes
  <2>2. ReaderTold(d, m)'
    <3>1. CASE m \in Cards
      BY <1>1, <1>2, <2>1, <3>1, RepOf, ReaderHeard
    <3>2. CASE m \notin Cards
      BY <1>1, <1>2, <2>1, <3>2, RepOf, ReaderKept DEF Media
    <3> QED
      BY <3>1, <3>2
  <2>3. FilesTold(d, m)'
    <3> DEFINE x == Snapshot(NextId(d), NoFiles)
    <3>1. x \in WorkerMessages /\ x.type = "snapshot" /\ x.id = NextId(d)
      BY <2>1, SnapshotTypes, SnapshotFields, NoFilesType
    <3>2. NextId(d) \in Refreshes(d)'
      <4>1. /\ Asked(NextId(d), "refresh", 0) \in page'[d].asked
            /\ Asked(NextId(d), "refresh", 0).for = "refresh" /\ Asked(NextId(d), "refresh", 0).id = NextId(d)
        BY <2>1 DEF Asked
      <4> QED
        BY <4>1 DEF Refreshes
    <3>3. toWorker'[d] = Append(toWorker[d], x)
      BY <2>1
    <3> HIDE DEF x
    <3>4. x \in Asking(d)'
      BY <3>1, <3>2, AllMessages DEF Asking
    <3>5. Pushes(WorkerMessages, toWorker[d], toWorker'[d], x)
      BY <3>1, <3>3, WorkerPushed
    <3>6. ~No(toWorker'[d], Asking(d)')
      BY <3>4, <3>5 DEF Pushes
    <3> QED
      BY <3>6 DEF FilesTold
  <2> QED
    BY <2>2, <2>3
<1> QED
  BY <1>3, <1>4
LEMMA BehindWithin ==
  ASSUME NEW s, NEW A, NEW B, NEW C, \A x \in In(s) : x \in B => x \in C
  PROVE  (Behind(s, A, B) => Behind(s, A, C)) /\ (~No(s, B) => ~No(s, C))
BY DEF Behind, No, In

\* The answer to a refresh is remembered.
LEMMA FilesRefreshed ==
  ASSUME DeviceTypes, ChannelTypes, NEW d \in Devices, NEW m \in Media, FilesTold(d, m),
         Unanswered(d), Carriers(d), worker' = worker, toWorker' = toWorker,
         NEW c, c = fromWorker[d][1], fromWorker[d] # <<>>, c.type = "snapshot", fromWorker'[d] = Tail(fromWorker[d]),
         NEW a \in page[d].asked, a.id = c.id, a.for = "refresh",
         page'[d].asked = page[d].asked \ {a}, page'[d].files = c.files
  PROVE  FilesTold(d, m)'
<1> DEFINE S == Snap(a.id)
           A == Asking(d)
           B == Asking(d)'
           O == Old(m)
           R == Renewal(d, m)
           Q == Renewal(d, m)'
<1>1. Pops(Reports, fromWorker[d], fromWorker'[d])
  BY ReportPopped
<1>2. c \in Reports /\ c \in Messages /\ c \in In(fromWorker[d])
  BY <1>1, AllMessages DEF Pops
<1>3. c \in S /\ a.id \in Ids
  BY <1>2, Fields DEF Snap, Requests
<1>4. No(toWorker[d], S) /\ No(fromWorker'[d], S)
  BY <1>1, <1>2, <1>3 DEF No, Carriers, Pops
<1>5. \A x : x \in A /\ x \notin S => x \in B
  BY DEF Refreshes, Asking, Snap
<1>6. \A x : x \in R /\ x \notin S => x \in Q
  BY <1>5 DEF Renewal
<1>7. worker[d].files[m] = 0 =>
        \/ ~No(toWorker[d], A)
        \/ Behind(fromWorker[d], O, R) /\ (page[d].files[m] = 0 \/ ~No(fromWorker[d], R))
  BY DEF FilesTold
<1>8. c.files[m] # 0 => c \in O
  BY <1>2 DEF Old
<1> HIDE DEF S, A, B, O, R, Q
<1>9. ~No(toWorker[d], A) => ~No(toWorker'[d], B)
  BY <1>4, <1>5 DEF No
<1>10. ASSUME Behind(fromWorker[d], O, R)
       PROVE  Behind(fromWorker'[d], O, Q) /\ (c \in O => ~No(fromWorker'[d], Q))
  BY <1>1, <1>4, <1>6, <1>10, BehindWithin DEF Pops, No
<1>11. worker'[d].files[m] = 0 =>
         \/ ~No(toWorker'[d], B)
         \/ Behind(fromWorker'[d], O, Q) /\ (page'[d].files[m] = 0 \/ ~No(fromWorker'[d], Q))
  BY <1>7, <1>8, <1>9, <1>10
<1> QED
  BY <1>11 DEF FilesTold, B, O, Q

LEMMA SnapshotAgrees ==
  ASSUME DeviceTypes, ChannelTypes, NEW d \in Devices, PageSnapshot(d), Life(d)
  PROVE  Agrees(d)
<1> DEFINE c == fromWorker[d][1]
<1>1. fromWorker[d] # <<>> /\ c.type = "snapshot" /\ UNCHANGED toPage
  BY SnapshotDoes
<1>2. (\A a \in page[d].asked : a.id # c.id) =>
        fromWorker'[d] = Tail(fromWorker[d]) /\ UNCHANGED <<page, worker, toParent, toWorker>>
  BY SnapshotDoes
<1>3. (\E a \in page[d].asked : a.id = c.id) =>
        \E a \in page[d].asked :
          /\ a.id = c.id
          /\ Resolved(d, a, c.files)
          /\ a.for # "restart" => fromWorker'[d] = Tail(fromWorker[d])
  BY SnapshotDoes
<1>4. c \in Reports /\ (Up(d) \/ Saving(d))
  BY <1>1, ReportHead
<1>5. \A m \in Media : c.type # Rep(m)
  BY <1>1, RepOf
<1>6. ASSUME \A a \in page[d].asked : a.id # c.id
      PROVE  Agrees(d)
  <2> SUFFICES ASSUME Agreed(d), worker'[d].phase # "none", NEW m \in Media
               PROVE  ReaderTold(d, m)' /\ FilesTold(d, m)'
    BY DEF Agrees, Agreed
  <2>1. fromWorker'[d] = Tail(fromWorker[d]) /\ UNCHANGED <<page, worker, toWorker>>
    BY <1>2, <1>6
  <2>2. ReaderTold(d, m) /\ FilesTold(d, m)
    BY <2>1 DEF Agreed
  <2>3. ReaderTold(d, m)'
    BY <1>1, <1>5, <2>1, <2>2, ReaderKept
  <2>4. c \notin Renewal(d, m)
    BY <1>1, <1>6 DEF Renewal, Asking, Refreshes
  <2>5. Refreshes(d)' = Refreshes(d)
    BY <2>1 DEF Refreshes
  <2>6. FilesTold(d, m)'
    BY <1>1, <2>1, <2>2, <2>4, <2>5, FilesKept
  <2> QED
    BY <2>3, <2>6
<1>7. ASSUME NEW a \in page[d].asked, a.id = c.id, Resolved(d, a, c.files), a.for \in {"parent", "refresh"},
             a.for # "restart" => fromWorker'[d] = Tail(fromWorker[d])
      PROVE  Agrees(d)
  <2> SUFFICES ASSUME Agreed(d), worker'[d].phase # "none", NEW m \in Media
               PROVE  ReaderTold(d, m)' /\ FilesTold(d, m)'
    BY DEF Agrees, Agreed
  <2>1. /\ fromWorker'[d] = Tail(fromWorker[d]) /\ worker' = worker /\ toWorker' = toWorker
        /\ page'[d].asked = page[d].asked \ {a} /\ page'[d].reader = page[d].reader
    BY <1>7 DEF Resolved, Settles
  <2>2. ReaderTold(d, m) /\ FilesTold(d, m)
    BY <2>1 DEF Agreed
  <2>3. Unanswered(d) /\ Carriers(d)
    BY <1>4, <1>7 DEF Saving, Up
  <2>4. ReaderTold(d, m)'
    BY <1>1, <1>5, <2>1, <2>2, ReaderKept
  <2>5. CASE a.for = "parent"
    <3>1. page'[d].files = page[d].files
      BY <1>7, <2>5 DEF Resolved
    <3>2. c \notin Renewal(d, m)
      BY <1>1, <1>7, <2>3, <2>5 DEF Unanswered, Refreshes, Renewal, Asking
    <3>3. Refreshes(d)' = Refreshes(d)
      BY <2>1, <2>5 DEF Refreshes
    <3>4. FilesTold(d, m)'
      BY <1>1, <2>1, <2>2, <3>1, <3>2, <3>3, FilesKept
    <3> QED
      BY <2>4, <3>4
  <2>6. CASE a.for = "refresh"
    BY <1>1, <1>7, <2>1, <2>2, <2>3, <2>4, <2>6, FilesRefreshed DEF Resolved, c
  <2> QED
    BY <1>7, <2>5, <2>6
<1>8. ASSUME NEW a \in page[d].asked, Resolved(d, a, c.files), a.for = "restart"
      PROVE  Agrees(d)
  <2>1. PICK due \in Dues : Launch(d, c.files, page[d].asked \ {a}, due)
    BY <1>8 DEF Resolved
  <2>2. c.files \in [Media -> Versions] /\ page[d].asked \ {a} \in SUBSET Requests
    BY <1>4, Fields DEF Reports, Message
  <2>3. /\ fromWorker'[d] = <<>> /\ page'[d].files = c.files /\ page'[d].reader = page[d].reader
        /\ worker'[d].files = c.files /\ worker'[d].reader = page[d].reader
    BY <2>1, <2>2, LaunchDoes
  <2> QED
    BY <2>3, FreshAgreed DEF Agrees
<1>9. \A a \in page[d].asked : a.for \in {"parent", "refresh", "restart"}
  BY <1>4 DEF Up, Saving
<1>10. CASE \E a \in page[d].asked : a.id = c.id
  BY <1>3, <1>7, <1>8, <1>9, <1>10
<1> QED
  BY <1>6, <1>10

LEMMA SaysReader ==
  ASSUME DeviceTypes, ChannelTypes, NEW d \in Devices, NEW m \in Media, NEW type \in {"sd-state", "card-state"},
         Says(d, type), worker'[d].reader \in SUBSET Media, ReaderTold(d, m), page' = page,
         Rep(m) # type => (m \in worker'[d].reader <=> m \in worker[d].reader)
  PROVE  ReaderTold(d, m)'
<1>1. CASE Rep(m) = type
  BY <1>1, ReaderSaid
<1>2. CASE Rep(m) # type
  BY <1>2, ReportTypes, ReportFields, ReaderKept DEF Says
<1> QED
  BY <1>1, <1>2

LEMMA SaysFiles ==
  ASSUME DeviceTypes, ChannelTypes, NEW d \in Devices, NEW m \in Media, NEW type \in {"sd-state", "card-state"},
         Says(d, type), worker'[d].reader \in SUBSET Media, FilesTold(d, m), page' = page,
         toWorker[d] # <<>>, toWorker'[d] = Tail(toWorker[d]), toWorker[d][1].type # "snapshot",
         type = "sd-state" => (worker'[d].files[m] = 0 => worker[d].files[m] = 0)
  PROVE  FilesTold(d, m)'
<1> DEFINE x == Report(type, worker'[d].reader)
<1>1. x \in Reports /\ x.type = type /\ fromWorker'[d] = Append(fromWorker[d], x)
  BY ReportTypes, ReportFields DEF Says
<1>2. Refreshes(d)' = Refreshes(d) /\ toWorker[d][1] \notin Asking(d)
  BY DEF Refreshes, Asking
<1> HIDE DEF x
<1>3. x \notin Old(m) /\ x \in Messages
  BY <1>1, AllMessages DEF Old
<1>4. CASE type = "card-state"
  BY <1>1, <1>3, <1>4, FilesSaid DEF Renewal
<1>5. CASE type = "sd-state"
  BY <1>1, <1>2, <1>3, <1>5, FilesKept
<1> QED
  BY <1>4, <1>5

\* What a command says, and what the others keep.
LEMMA CommandSays ==
  ASSUME DeviceTypes, NEW d \in Devices, NEW c \in WorkerMessages, c.type \in Commands \ {"edit"}, HandledAs(d, c)
  PROVE  \E type \in {"sd-state", "card-state"} :
           /\ Says(d, type)
           /\ \A m \in Media : Rep(m) # type => (m \in worker'[d].reader <=> m \in worker[d].reader)
           /\ type = "sd-state" => \A m \in Media : worker'[d].files[m] = worker[d].files[m]
<1>1. c.m \in Media
  BY DEF WorkerMessages, Addressed, Commands
<1>2. CASE c.type = "insert"
  <2>1. /\ Says(d, Rep(c.m)) /\ Only(d, c.m)
        /\ worker'[d].reader = (worker[d].reader \ Beside(c.m)) \cup {c.m}
        /\ ~(c.m \in Cards /\ worker[d].files[c.m] = 0) => worker'[d].files[c.m] = worker[d].files[c.m]
    BY <1>2 DEF HandledAs
  <2>2. \A m \in Media : Rep(m) # Rep(c.m) => m # c.m /\ m \notin Beside(c.m)
    BY <1>1, RepOf
  <2>3. Rep(c.m) = "sd-state" => \A m \in Media : worker'[d].files[m] = worker[d].files[m]
    BY <1>1, <2>1, RepOf DEF Only
  <2> QED
    BY <1>1, <2>1, <2>2, <2>3, RepOf
<1>3. CASE c.type = "eject"
  BY <1>1, <1>3, RepOf DEF HandledAs
<1>4. CASE c.type \in {"import", "remove"}
  BY <1>4 DEF HandledAs
<1> QED
  BY <1>2, <1>3, <1>4 DEF Commands

LEMMA HandlesAgrees ==
  ASSUME DeviceTypes, ChannelTypes, NEW d \in Devices, WorkerHandles(d)
  PROVE  Agrees(d)
<1> DEFINE c == toWorker[d][1]
<1>1. /\ worker'[d].phase = worker[d].phase /\ worker'[d].reader \in SUBSET Media
      /\ toWorker[d] # <<>> /\ toWorker'[d] = Tail(toWorker[d]) /\ c \in WorkerMessages
      /\ HandledAs(d, c) /\ page' = page
  BY HandlesDoes, Fields DEF DeviceTypes, WorkerStates
<1>2. c.type \in {"snapshot", "card-list"} \cup Commands
  BY <1>1 DEF WorkerMessages, Addressed, Message
<1>3. Refreshes(d)' = Refreshes(d)
  BY <1>1 DEF Refreshes
<1> SUFFICES ASSUME Agreed(d), worker'[d].phase # "none", NEW m \in Media
             PROVE  ReaderTold(d, m)' /\ FilesTold(d, m)'
  BY DEF Agrees, Agreed
<1>4. ReaderTold(d, m) /\ FilesTold(d, m)
  BY <1>1 DEF Agreed
<1> HIDE DEF c
<1>5. CASE c.type = "snapshot"
  <2> DEFINE x == Snapshot(c.id, worker[d].files)
  <2>1. worker'[d] = worker[d] /\ fromWorker'[d] = Append(fromWorker[d], x)
    BY <1>1, <1>5 DEF HandledAs
  <2>2. x \in Reports /\ x.type = "snapshot" /\ x.id = c.id /\ x.files = worker[d].files
    BY <1>1, Fields, SnapshotTypes, SnapshotFields DEF WorkerMessages, Addressed, Message
  <2> HIDE DEF x
  <2>3. x.type # Rep(m)
    BY <2>2, RepOf
  <2>4. ReaderTold(d, m)'
    BY <1>1, <1>4, <2>1, <2>2, <2>3, ReaderKept
  <2>5. CASE worker[d].files[m] # 0
    BY <2>1, <2>4, <2>5 DEF FilesTold
  <2>6. CASE worker[d].files[m] = 0 /\ c.id \in Refreshes(d)
    BY <1>3, <2>1, <2>2, <2>4, <2>6, AllMessages, FilesSaid DEF Renewal, Asking, Old
  <2>7. CASE worker[d].files[m] = 0 /\ c.id \notin Refreshes(d)
    <3>1. x \notin Old(m) /\ c \notin Asking(d)
      BY <2>2, <2>7 DEF Asking, Old
    <3>2. FilesTold(d, m)'
      BY <1>1, <1>3, <1>4, <2>1, <2>2, <3>1, FilesKept DEF c
    <3> QED
      BY <2>4, <3>2
  <2> QED
    BY <2>5, <2>6, <2>7
<1>6. ASSUME NEW type \in {"sd-state", "card-state"}, Says(d, type), c.type # "snapshot",
             \A n \in Media : Rep(n) # type => (n \in worker'[d].reader <=> n \in worker[d].reader),
             type = "sd-state" => \A n \in Media : worker'[d].files[n] = worker[d].files[n]
      PROVE  ReaderTold(d, m)' /\ FilesTold(d, m)'
  BY <1>1, <1>4, <1>6, SaysReader, SaysFiles DEF c
<1>7. CASE c.type = "card-list"
  BY <1>1, <1>6, <1>7 DEF HandledAs
<1>8. CASE c.type \in Commands \ {"edit"}
  BY <1>1, <1>6, <1>8, CommandSays DEF Commands
<1>9. CASE c.type = "edit"
  <2>1. /\ fromWorker'[d] = fromWorker[d] /\ Only(d, c.m) /\ worker'[d].reader = worker[d].reader
        /\ worker'[d].files[c.m] = latest[c.m] + 1
    BY <1>1, <1>9 DEF HandledAs
  <2>2. c.m \in Media
    BY <1>1, <1>9 DEF WorkerMessages, Addressed, Commands
  <2>3. latest[c.m] \in Nat
    BY <2>2 DEF DeviceTypes, Versions
  <2>4. worker'[d].files[m] = 0 => worker[d].files[m] = 0
    BY <2>1, <2>3 DEF Only
  <2>5. c \notin Asking(d)
    BY <1>9 DEF Asking
  <2>6. ReaderTold(d, m)'
    BY <1>1, <1>4, <2>1, ReaderKept
  <2>7. FilesTold(d, m)'
    BY <1>1, <1>3, <1>4, <2>1, <2>4, <2>5, FilesKept DEF c
  <2> QED
    BY <2>6, <2>7
<1> QED
  BY <1>2, <1>5, <1>7, <1>8, <1>9

LEMMA WritesAgrees ==
  ASSUME DeviceTypes, ChannelTypes, NEW d \in Devices, NEW x \in Media, FirmwareWrites(d, x)
  PROVE  Agrees(d)
<1>1. /\ worker'[d].phase = worker[d].phase /\ worker'[d].reader = worker[d].reader
      /\ worker'[d].files[x] = latest[x] + 1 /\ Only(d, x)
      /\ UNCHANGED <<page, toWorker, fromWorker>>
  BY WritesDoes
<1> SUFFICES ASSUME Agreed(d), worker'[d].phase # "none", NEW m \in Media
             PROVE  ReaderTold(d, m)' /\ FilesTold(d, m)'
  BY DEF Agrees, Agreed
<1>2. ReaderTold(d, m) /\ FilesTold(d, m)
  BY <1>1 DEF Agreed
<1>3. latest[x] \in Nat
  BY DEF DeviceTypes, Versions
<1>4. worker'[d].files[m] = 0 => worker[d].files[m] = 0
  BY <1>1, <1>3 DEF Only
<1>5. Refreshes(d)' = Refreshes(d)
  BY <1>1 DEF Refreshes
<1>6. ReaderTold(d, m)'
  BY <1>1, <1>2, ReaderKept
<1>7. FilesTold(d, m)'
  BY <1>1, <1>2, <1>4, <1>5, FilesKept
<1> QED
  BY <1>6, <1>7

LEMMA SameAgrees ==
  ASSUME NEW e \in Devices, page'[e] = page[e], worker'[e] = worker[e],
         toWorker'[e] = toWorker[e], fromWorker'[e] = fromWorker[e]
  PROVE  Agrees(e)
<1>1. Refreshes(e)' = Refreshes(e)
  BY DEF Refreshes
<1>2. \A m \in Media : Asking(e)' = Asking(e) /\ Renewal(e, m)' = Renewal(e, m)
  BY <1>1 DEF Asking, Renewal
<1>3. ASSUME NEW m \in Media
      PROVE  (ReaderTold(e, m) => ReaderTold(e, m)') /\ (FilesTold(e, m) => FilesTold(e, m)')
  BY <1>2 DEF ReaderTold, FilesTold
<1> QED
  BY <1>3 DEF Agrees, Agreed

LEMMA DeviceAgrees ==
  ASSUME DeviceTypes, ChannelTypes, ~Stalls, NEW d \in Devices, Life(d), Device(d) \/ Firmware(d)
  PROVE  Agrees(d)
<1>1. CASE Firmware(d)
  BY <1>1, WritesAgrees DEF Firmware
<1>2. CASE PageSeesSd(d) \/ PageSeesCard(d)
  BY <1>2, SeesAgrees
<1>3. CASE PageSnapshot(d)
  BY <1>3, SnapshotAgrees
<1>4. CASE WorkerHandles(d)
  BY <1>4, HandlesAgrees
<1>5. CASE PageProvided(d)
  <2>1. /\ UNCHANGED <<worker, toWorker, fromWorker>> /\ (page[d].due # "media" => page' = page)
    BY <1>5, ProvidedDoes
  <2>2. CASE page[d].due = "media"
    BY <2>1, <2>2, LifeOf DEF Agrees, Agreed
  <2>3. CASE page[d].due # "media"
    BY <2>1, <2>3, SameAgrees
  <2> QED
    BY <2>2, <2>3
<1>6. CASE PageExports(d)
  <2>1. /\ worker' = worker /\ fromWorker' = fromWorker
        /\ worker[d].phase = "none" => UNCHANGED <<page, toWorker>>
        /\ worker[d].phase # "none" =>
             /\ NextId(d) \in Ids
             /\ page'[d].asked = page[d].asked \cup {Asked(NextId(d), "parent", toPage[d][1].id)}
             /\ page'[d].files = page[d].files /\ page'[d].reader = page[d].reader
             /\ toWorker'[d] = Append(toWorker[d], Snapshot(NextId(d), NoFiles))
    BY <1>6, ExportsDoes
  <2>2. CASE worker[d].phase = "none"
    BY <2>1, <2>2, SameAgrees
  <2>3. CASE worker[d].phase # "none"
    BY <2>1, <2>3, OtherRequest, SnapshotTypes, NoFilesType, PlainAgrees DEF OtherReport, Untouched
  <2> QED
    BY <2>2, <2>3
<1>7. CASE PageForwards(d)
  BY <1>7, ForwardsDoes, PlainAgrees DEF Refreshes, OtherReport, Untouched
<1>8. CASE PageRestarts(d)
  BY <1>8, RestartsLives, RestartsDoes, RestartedAgrees DEF Told, Running, OtherReport
<1>9. CASE PageReboots(d)
  BY <1>9, RebootsDoes, RestartedAgrees DEF OtherReport
<1>10. CASE PageSeesRunning(d)
  BY <1>10, SeesRunningDoes, PlainTypes, PlainAgrees DEF Refreshes, OtherReport, Untouched
<1>11. CASE PageStarts(d)
  BY <1>11, StartsDoes, Fields, LaunchDoes, FreshAgreed DEF Dues, Agrees
<1>12. CASE WorkerReady(d) \/ WorkerRuns(d)
  BY <1>12, ReadyDoes, RunsDoes, PlainAgrees DEF OtherReport, Untouched, Refreshes
<1>13. ASSUME NEW a \in page[d].asked, PageTimeout(d, a)
       PROVE  FALSE
  BY <1>13, TimeoutLives
<1> QED
  BY <1>1, <1>2, <1>3, <1>4, <1>5, <1>6, <1>7, <1>8, <1>9, <1>10, <1>11, <1>12, <1>13
     DEF Device, PageSteps, WorkerSteps

LEMMA InterruptionAgrees ==
  ASSUME Types, NEW d \in Devices, Interruption(d)
  PROVE  Agrees(d)
<1>0. DeviceTypes /\ ChannelTypes
  BY DEF Types
<1>1. CASE RestartButton(d)
  BY <1>1, ButtonDoes, SameAgrees
<1>2. CASE Reboot(d)
  BY <1>0, <1>2, FirmwareRebootsDoes, PlainAgrees DEF Reboot, Refreshes, OtherReport, Untouched
<1>3. CASE Reload(d)
  BY <1>0, <1>3, ReloadDoes DEF NoWorker, Agrees, Agreed
<1>4. ASSUME NEW retries \in BOOLEAN, Crash(d, retries)
      PROVE  Agrees(d)
  BY <1>0, <1>4, CrashesDoes DEF Crash, NoWorker, Agrees, Agreed
<1> QED
  BY <1>1, <1>2, <1>3, <1>4 DEF Interruption

LEMMA DeviceAside ==
  ASSUME Types, NEW d \in Devices, Device(d) \/ Firmware(d)
  PROVE  Elsewhere(d) /\ UNCHANGED <<bench, upsets>>
<1>1. CASE Device(d)
  BY <1>1, DeviceStepTypes
<1>2. CASE Firmware(d)
  BY <1>2, WritesDoes DEF Types, Firmware
<1> QED
  BY <1>1, <1>2

LEMMA AgreementInit == Init => Agreement
<1> SUFFICES ASSUME Init, NEW d \in Devices
             PROVE  Agreed(d)
  BY DEF Agreement
<1>1. worker[d].phase = "none"
  BY DEF Init, PageInit, NoWorker
<1> QED
  BY <1>1 DEF Agreed

LEMMA AgreementKept ==
  ASSUME ~Overlap, ~Stalls, Types, Lives, Agreement, Step
  PROVE  Agreement'
<1>0. DeviceTypes /\ ChannelTypes /\ BenchTypes
  BY DEF Types
<1> SUFFICES \A e \in Devices : Agrees(e)
  BY DEF Agreement, Agrees
<1>1. ASSUME UNCHANGED <<page, worker, toWorker, fromWorker>>
      PROVE  \A e \in Devices : Agrees(e)
  BY <1>1, SameAgrees
<1>2. CASE User
  BY <1>1, <1>2, UserTypes DEF UserDoes
<1>3. ASSUME NEW d \in Devices, HearsAwaiting(d)
      PROVE  \A e \in Devices : Agrees(e)
  BY <1>0, <1>1, <1>3, AwaitingDoes
<1>4. ASSUME NEW d \in Devices, HearsState(d)
      PROVE  \A e \in Devices : Agrees(e)
  BY <1>1, <1>4, StateDoes DEF StateDo
<1>5. ASSUME NEW d \in Devices, Saved(d) \/ Cleared(d) \/ Inserted(d) \/ Read(d)
      PROVE  \A e \in Devices : Agrees(e)
  BY <1>1, <1>5, AnsweredSends DEF Answered
<1>6. ASSUME NEW d \in Devices, Device(d) \/ Firmware(d)
      PROVE  \A e \in Devices : Agrees(e)
  BY <1>0, <1>6, DeviceAgrees, DeviceAside, SameAgrees DEF Lives, Elsewhere, Same
<1>7. ASSUME NEW d \in Devices, Interruption(d)
      PROVE  \A e \in Devices : Agrees(e)
  BY <1>7, InterruptionAgrees, InterruptionLives, SameAgrees DEF Lives, Elsewhere, Same
<1>8. CASE UNCHANGED vars
  BY <1>1, <1>8 DEF vars, pageVars, channels
<1> QED
  BY <1>2, <1>3, <1>4, <1>5, <1>6, <1>7, <1>8 DEF Step

-----------------------------------------------------------------------------
(* A medium is in no device but the one the gallery has it in, or is        *)
(* inserting it into; while a device is restarted nothing on its page or    *)
(* under way remembers it either.                                           *)
Clean(d, m)  == m \notin worker[d].reader /\ worker[d].files[m] = 0
Free(c, m)   == c.m # m /\ c.files[m] = 0 /\ m \notin c.reader
FreeOf(s, m) == \A c \in In(s) : Free(c, m)
Gone(d, m)   == /\ Clean(d, m) /\ m \notin page[d].reader /\ page[d].files[m] = 0
                /\ FreeOf(toPage[d], m) /\ FreeOf(toWorker[d], m) /\ FreeOf(fromWorker[d], m)
Inserting(m, d) == op.at = "inserting" /\ op.m = m /\ op.target = d
Held(d, m) == owner[m] # d /\ ~Inserting(m, d) => Clean(d, m) /\ (Steady(d) \/ Gone(d, m))
Placed == \A d \in Devices, m \in Media : Held(d, m)

LEMMA FreeTail ==
  ASSUME NEW S, NEW s \in Seq(S), s # <<>>, NEW m, FreeOf(s, m)
  PROVE  FreeOf(Tail(s), m) /\ Free(s[1], m)
<1> DEFINE t == Tail(s)
<1>1. Pops(S, s, t)
  BY Popped
<1> HIDE DEF t
<1>2. FreeOf(t, m) /\ Free(s[1], m)
  BY <1>1 DEF Pops, FreeOf
<1> QED
  BY <1>2 DEF t

LEMMA FreePushed ==
  ASSUME NEW S, NEW s \in Seq(S), NEW x \in S, NEW m, FreeOf(s, m), Free(x, m)
  PROVE  FreeOf(Append(s, x), m)
<1> DEFINE t == Append(s, x)
<1>1. Pushes(S, s, t, x)
  BY Pushed
<1> HIDE DEF t
<1>2. FreeOf(t, m)
  BY <1>1 DEF Pushes, FreeOf
<1> QED
  BY <1>2 DEF t

LEMMA BlankFree ==
  ASSUME NEW m \in Media, NEW c, Blank(c)
  PROVE  Free(c, m)
BY NoFilesType, DevicesAssumption DEF Blank, Free

LEMMA PassiveGone ==
  ASSUME DeviceTypes, ChannelTypes, NEW d \in Devices, NEW m \in Media, Passive(d), Gone(d, m)
  PROVE  Gone(d, m)'
<1>1. /\ toPage[d] \in Seq(PageMessages) /\ toWorker[d] \in Seq(WorkerMessages)
      /\ fromWorker[d] \in Seq(Reports)
  BY ChannelsOf
<1>2. /\ Clean(d, m) /\ m \notin page[d].reader /\ page[d].files[m] = 0
      /\ FreeOf(toPage[d], m) /\ FreeOf(toWorker[d], m) /\ FreeOf(fromWorker[d], m)
  BY DEF Gone
<1>3. Clean(d, m)'
  BY <1>2 DEF Passive, Untouched, Clean
<1>4. \A c \in In(toPage[d]) \cup In(fromWorker[d]) : c.files[m] = 0 /\ m \notin c.reader
  BY <1>2 DEF FreeOf, Free
<1>5. m \notin page'[d].reader /\ page'[d].files[m] = 0
  BY <1>2, <1>4 DEF Passive, PageLearns
<1>6. FreeOf(toPage'[d], m)
  BY <1>1, <1>2, FreeTail DEF Passive, LessAtPage
<1>7. FreeOf(toWorker'[d], m)
  <2>1. MoreWork(d)
    BY DEF Passive
  <2>2. \A x \in WorkerMessages : Blank(x) => FreeOf(Append(toWorker[d], x), m)
    BY <1>1, <1>2, FreePushed, BlankFree
  <2> QED
    BY <1>2, <2>1, <2>2 DEF MoreWork
<1>8. FreeOf(fromWorker'[d], m)
  <2>1. OtherReports(d)
    BY DEF Passive
  <2>2. \A x \in Reports : Blank(x) => FreeOf(Append(fromWorker[d], x), m)
    BY <1>1, <1>2, FreePushed, BlankFree
  <2>3. fromWorker[d] # <<>> => FreeOf(Tail(fromWorker[d]), m)
    BY <1>1, <1>2, FreeTail
  <2> QED
    BY <1>2, <2>1, <2>2, <2>3 DEF OtherReports
<1> QED
  BY <1>3, <1>5, <1>6, <1>7, <1>8 DEF Gone

LEMMA LaunchedGone ==
  ASSUME ChannelTypes, NEW d \in Devices, NEW m \in Media, Launched(d), Gone(d, m)
  PROVE  Gone(d, m)'
BY Emptied DEF Gone, FreeOf, Free, Launched, PageLearns, Clean

LEMMA ForwardsGone ==
  ASSUME DeviceTypes, ChannelTypes, NEW d \in Devices, NEW m \in Media, PageForwards(d), Gone(d, m)
  PROVE  Gone(d, m)'
<1>1. /\ toPage[d] # <<>> /\ toPage'[d] = Tail(toPage[d]) /\ toPage[d][1] \in WorkerMessages
      /\ UNCHANGED <<page, worker, fromWorker>>
      /\ worker[d].phase = "none" => UNCHANGED toWorker
      /\ worker[d].phase # "none" => toWorker'[d] = Append(toWorker[d], toPage[d][1])
  BY ForwardsDoes
<1>2. toPage[d] \in Seq(PageMessages) /\ toWorker[d] \in Seq(WorkerMessages)
  BY ChannelsOf
<1>3. FreeOf(toPage[d], m) /\ FreeOf(toWorker[d], m)
  BY DEF Gone
<1>4. FreeOf(toPage'[d], m) /\ Free(toPage[d][1], m)
  BY <1>1, <1>2, <1>3, FreeTail
<1>5. FreeOf(toWorker'[d], m)
  BY <1>1, <1>2, <1>3, <1>4, FreePushed
<1> QED
  BY <1>1, <1>4, <1>5 DEF Gone, Clean

\* A command that is not about m leaves it as it is, and so do those that take
\* it away.
LEMMA HandledClean ==
  ASSUME DeviceTypes, NEW d \in Devices, NEW m \in Media, NEW c \in WorkerMessages, HandledAs(d, c), Clean(d, m),
         c.type \in {"insert", "import", "edit"} => c.m # m
  PROVE  Clean(d, m)'
<1>1. c.type \in {"snapshot", "card-list", "insert", "eject", "import", "remove", "edit"}
  BY DEF WorkerMessages, Addressed, Message, Commands
<1>2. CASE c.type \in {"snapshot", "card-list"}
  BY <1>2 DEF HandledAs, Clean
<1>3. CASE c.type = "insert"
  BY <1>3 DEF HandledAs, Clean, Only
<1>4. CASE c.type = "eject"
  BY <1>4 DEF HandledAs, Clean
<1>5. CASE c.type \in {"import", "edit"}
  BY <1>5 DEF HandledAs, Clean, Only
<1>6. CASE c.type = "remove"
  <2>1. worker'[d].files[m] = 0
    BY <1>6 DEF HandledAs, Clean, Only
  <2> QED
    BY <1>6, <2>1 DEF HandledAs, Clean
<1> QED
  BY <1>1, <1>2, <1>3, <1>4, <1>5, <1>6

LEMMA HandlesGone ==
  ASSUME DeviceTypes, ChannelTypes, NEW d \in Devices, NEW m \in Media, WorkerHandles(d), Gone(d, m)
  PROVE  Gone(d, m)'
<1> DEFINE c == toWorker[d][1]
<1>1. /\ toWorker[d] # <<>> /\ toWorker'[d] = Tail(toWorker[d]) /\ c \in WorkerMessages
      /\ HandledAs(d, c) /\ UNCHANGED <<page, toPage>> /\ worker'[d].reader \in SUBSET Media
  BY HandlesDoes, Fields DEF DeviceTypes, WorkerStates
<1>2. toWorker[d] \in Seq(WorkerMessages) /\ fromWorker[d] \in Seq(Reports)
  BY ChannelsOf
<1>3. /\ Clean(d, m) /\ FreeOf(toPage[d], m) /\ FreeOf(toWorker[d], m) /\ FreeOf(fromWorker[d], m)
      /\ m \notin page[d].reader /\ page[d].files[m] = 0
  BY DEF Gone
<1>4. FreeOf(toWorker'[d], m) /\ Free(c, m)
  BY <1>1, <1>2, <1>3, FreeTail
<1> HIDE DEF c
<1>5. Clean(d, m)'
  BY <1>1, <1>3, <1>4, HandledClean DEF Free
<1>6. FreeOf(fromWorker'[d], m)
  <2>1. CASE c.type = "snapshot"
    <3> DEFINE x == Snapshot(c.id, worker[d].files)
    <3>1. fromWorker'[d] = Append(fromWorker[d], x)
      BY <1>1, <2>1 DEF HandledAs
    <3>2. c.id \in Ids \cup {0} /\ worker[d].files \in [Media -> Versions]
      BY <1>1, Fields DEF WorkerMessages, Addressed, Message
    <3>3. x \in Reports /\ x.m = None /\ x.files = worker[d].files /\ x.reader = {}
      BY <3>2, SnapshotTypes, SnapshotFields
    <3> HIDE DEF x
    <3>4. Free(x, m)
      BY <1>3, <3>3, DevicesAssumption DEF Free, Clean
    <3> QED
      BY <1>2, <1>3, <3>1, <3>3, <3>4, FreePushed
  <2>2. ASSUME NEW type \in {"sd-state", "card-state"}, Says(d, type)
        PROVE  FreeOf(fromWorker'[d], m)
    <3> DEFINE x == Report(type, worker'[d].reader)
    <3>1. fromWorker'[d] = Append(fromWorker[d], x)
      BY <2>2 DEF Says
    <3>2. x \in Reports /\ x.m = None /\ x.files = NoFiles /\ x.reader = worker'[d].reader
      BY <1>1, ReportTypes, ReportFields
    <3> HIDE DEF x
    <3>3. Free(x, m)
      BY <1>5, <3>2, NoFilesType, DevicesAssumption DEF Free, Clean
    <3> QED
      BY <1>2, <1>3, <3>1, <3>2, <3>3, FreePushed
  <2>3. CASE c.type = "edit"
    BY <1>1, <1>3, <2>3 DEF HandledAs
  <2>4. CASE c.type = "card-list"
    BY <1>1, <2>2, <2>4 DEF HandledAs
  <2>5. CASE c.type \in Commands \ {"edit"}
    BY <1>1, <2>2, <2>5, CommandSays
  <2>6. c.type \in {"snapshot", "card-list"} \cup Commands
    BY <1>1 DEF WorkerMessages, Addressed, Message
  <2> QED
    BY <2>1, <2>3, <2>4, <2>5, <2>6
<1> QED
  BY <1>1, <1>3, <1>4, <1>5, <1>6 DEF Gone

LEMMA WritesClean ==
  ASSUME DeviceTypes, ChannelTypes, NEW d \in Devices, NEW m \in Media, NEW x \in Media,
         FirmwareWrites(d, x), Clean(d, m)
  PROVE  Clean(d, m)' /\ (Gone(d, m) => Gone(d, m)')
BY WritesDoes DEF Clean, Only, Gone

LEMMA DeviceGone ==
  ASSUME DeviceTypes, ChannelTypes, NEW d \in Devices, NEW m \in Media, Kinds(d), Gone(d, m)
  PROVE  Gone(d, m)'
BY PassiveGone, LaunchedGone, ForwardsGone, HandlesGone, WritesClean DEF Gone, Kinds

\* The commands under way to a device are about the medium the operation is
\* about, which the device has or is to get.
LEMMA CommandsFit ==
  ASSUME Types, OneCarrier, NEW d \in Devices, NEW m \in Media, owner[m] # d, ~Inserting(m, d),
         NEW c \in In(toWorker[d]), c \in WorkerMessages, c.type \in {"insert", "import", "edit"}
  PROVE  c.m # m
<1>1. c \in Of(Commands) /\ c.type \in Commands
  BY AllMessages DEF Of, Commands
<1>2. ~Bare(d)
  BY <1>1 DEF Bare, No
<1>3. busy /\ d = op.from /\ Fits(c)
  BY <1>1, <1>2 DEF OneCarrier, Carrying, Fitting
<1>4. op.at \in {"inserting", "reading"}
  BY <1>3, OperationFields DEF Types, BenchTypes, Fits, busy
<1>5. CASE op.at = "inserting"
  BY <1>3, <1>5 DEF Fits, Types, Planned, Inserting
<1>6. CASE op.at = "reading"
  BY <1>3, <1>6 DEF Fits, Types, Planned
<1> QED
  BY <1>4, <1>5, <1>6

LEMMA SteadyClean ==
  ASSUME Types, OneCarrier, NEW d \in Devices, NEW m \in Media, Kinds(d), Up(d),
         owner[m] # d, ~Inserting(m, d), Clean(d, m)
  PROVE  Clean(d, m)'
<1>0. DeviceTypes /\ ChannelTypes
  BY DEF Types
<1>1. CASE Passive(d)
  BY <1>1 DEF Passive, Untouched, Clean
<1>2. CASE Launched(d)
  BY <1>2 DEF Launched
<1>3. CASE PageForwards(d)
  BY <1>0, <1>3, ForwardsDoes DEF Clean
<1>4. CASE WorkerHandles(d)
  BY <1>0, <1>4, HandlesDoes, WorkerPopped, CommandsFit, HandledClean DEF Pops
<1>5. CASE \E x \in Media : FirmwareWrites(d, x)
  BY <1>0, <1>5, WritesClean
<1> QED
  BY <1>1, <1>2, <1>3, <1>4, <1>5 DEF Kinds

LEMMA DeviceHeld ==
  ASSUME ~Stalls, Types, Lives, OneCarrier, NEW d \in Devices, NEW m \in Media, Held(d, m),
         Device(d) \/ Firmware(d)
  PROVE  Held(d, m)'
<1>0. DeviceTypes /\ ChannelTypes /\ Life(d)
  BY DEF Types, Lives
<1>1. owner' = owner /\ op' = op /\ ready' = ready
  BY DeviceAside DEF bench
<1>2. Kinds(d)
  BY <1>0, DeviceKinds
<1>3. Keeps(d)
  BY <1>0, DeviceLives, WritesLives DEF Firmware
<1> SUFFICES ASSUME owner[m] # d, ~Inserting(m, d)
             PROVE  Clean(d, m)' /\ (Steady(d)' \/ Gone(d, m)')
  BY <1>1 DEF Held, Inserting
<1>4. Clean(d, m) /\ (Steady(d) \/ Gone(d, m))
  BY DEF Held
<1>5. CASE Gone(d, m)
  BY <1>0, <1>2, <1>5, DeviceGone DEF Gone
<1>6. CASE Steady(d)
  BY <1>1, <1>2, <1>3, <1>4, <1>6, SteadyClean DEF Steady, Keeps
<1> QED
  BY <1>4, <1>5, <1>6

LEMMA SameHeld ==
  ASSUME NEW e \in Devices, NEW m \in Media, Same(e), Held(e, m), owner' = owner, op' = op,
         e \in ready => e \in ready'
  PROVE  Held(e, m)'
BY SameSteady DEF Same, Gone, Clean, Steady, Inserting, Held

\* A device at rest has nothing of a medium it does not have.
LEMMA RestGone ==
  ASSUME Types, Lives, Agreement, AtRest, NEW d \in Devices, NEW m \in Media, Held(d, m), owner[m] # d
  PROVE  Gone(d, m)
<1>1. /\ toPage[d] = <<>> /\ toWorker[d] = <<>> /\ fromWorker[d] = <<>> /\ Running(d)
  BY RestingLife DEF Lives
<1>2. ~Inserting(m, d)
  BY DEF Inserting, AtRest, busy
<1>3. Clean(d, m)
  BY <1>2 DEF Held
<1>4. ReaderTold(d, m) /\ FilesTold(d, m)
  BY <1>1 DEF Agreement, Agreed, Running
<1>5. m \notin page[d].reader
  BY <1>1, <1>3, <1>4, Emptied DEF ReaderTold, Clean
<1>6. page[d].files[m] = 0
  BY <1>1, <1>3, <1>4, Emptied DEF FilesTold, Clean
<1>7. FreeOf(<<>>, m)
  BY Emptied DEF FreeOf
<1> QED
  BY <1>1, <1>3, <1>5, <1>6, <1>7 DEF Gone

LEMMA InterruptionHeld ==
  ASSUME ~Overlap, Types, Lives, Agreement, NEW d \in Devices, NEW m \in Media, Held(d, m), Interruption(d)
  PROVE  Held(d, m)'
<1>0. DeviceTypes /\ ChannelTypes /\ Life(d)
  BY DEF Types, Lives
<1>1. AtRest /\ op' = op
  BY <1>0, InterruptionLives
<1>2. owner' = owner
  BY DEF Interruption, RestartButton, Reboot, Reload, Crash
<1> SUFFICES ASSUME owner[m] # d
             PROVE  Gone(d, m)'
  BY <1>2 DEF Gone, Held
<1>3. Gone(d, m)
  BY <1>1, RestGone
<1>4. /\ toPage[d] = <<>> /\ toWorker[d] = <<>> /\ fromWorker[d] = <<>>
  BY <1>1, RestingLife, <1>0
<1>5. FreeOf(<<>>, m) /\ \A type : FreeOf(<<Plain(type)>>, m)
  BY PlainFields, BlankFree, Single, Emptied DEF Blank, FreeOf
<1>6. CASE RestartButton(d)
  BY <1>3, <1>4, <1>5, <1>6, ButtonDoes, FirstPushed DEF Gone, Clean
<1>7. CASE Reboot(d)
  BY <1>0, <1>3, <1>4, <1>5, <1>7, FirmwareRebootsDoes, FirstPushed DEF Reboot, Gone, Clean
<1>8. CASE Reload(d)
  BY <1>0, <1>5, <1>8, ReloadDoes, NoFilesType DEF Gone, Clean, LoadedPage, NoWorker
<1>9. ASSUME NEW retries \in BOOLEAN, Crash(d, retries)
      PROVE  Gone(d, m)'
  BY <1>0, <1>3, <1>5, <1>9, CrashesDoes, NoFilesType DEF Crash, Gone, Clean, NoWorker
<1> QED
  BY <1>6, <1>7, <1>8, <1>9 DEF Interruption

\* Files are given to a page that starts; they are of the media it has.
LEMMA AwaitingHeld ==
  ASSUME Types, Lives, NEW d \in Devices, NEW m \in Media, Held(d, m), HearsAwaiting(d)
  PROVE  Held(d, m)'
<1>0. DeviceTypes /\ ChannelTypes /\ BenchTypes /\ Life(d)
  BY DEF Types, Lives
<1>1. UNCHANGED <<page, worker, toWorker, fromWorker, owner, op>>
  BY <1>0, AwaitingDoes DEF bench
<1>2. PICK files \in [Media -> Versions] :
        /\ \A n \in Media : files[n] = IF owner[n] = d THEN kept[n] ELSE 0
        /\ toPage'[d] = Append(toPage[d], [Plain("provide") EXCEPT !.files = files])
  BY <1>0, AwaitingDoes
<1>3. ~Steady(d)
  BY <1>0, AwaitingLives, NotUp
<1> SUFFICES ASSUME owner[m] # d, ~Inserting(m, d)
             PROVE  Clean(d, m)' /\ Gone(d, m)'
  BY <1>1 DEF Held, Inserting
<1>4. Gone(d, m)
  BY <1>3 DEF Held
<1> DEFINE x == [Plain("provide") EXCEPT !.files = files]
<1>5. x \in PageMessages
  BY CommandTypes DEF Commands
<1>6. x.m = None /\ x.files = files /\ x.reader = {}
  BY DEF Plain
<1>7. Free(x, m)
  BY <1>2, <1>6, DevicesAssumption DEF Free
<1>8. toPage'[d] = Append(toPage[d], x)
  BY <1>2
<1> HIDE DEF x
<1>9. FreeOf(toPage'[d], m)
  BY <1>0, <1>4, <1>5, <1>7, <1>8, ChannelsOf, FreePushed DEF Gone
<1> QED
  BY <1>1, <1>4, <1>9 DEF Gone, Clean

LEMMA StateHeld ==
  ASSUME Types, Lives, NEW d \in Devices, NEW m \in Media, Held(d, m), HearsState(d)
  PROVE  Held(d, m)'
<1>0. DeviceTypes /\ ChannelTypes /\ BenchTypes /\ Life(d) /\ Heard(d)
  BY DEF Types, Lives, Life
<1>1. StateDo(d)
  BY StateDoes
<1>2. /\ UNCHANGED <<page, worker, toPage, toWorker, fromWorker, owner, op>>
      /\ toParent[d] # <<>> /\ toParent'[d] = Tail(toParent[d])
  BY <1>1 DEF StateDo
<1>3. toParent[d][1] \in In(toParent[d]) /\ toParent[d][1] \in Messages
  BY <1>0, <1>2, ParentFirst
<1>4. (Gone(d, m) => Gone(d, m)') /\ (Clean(d, m) => Clean(d, m)')
  BY <1>2 DEF Gone, Clean
<1>5. ASSUME Steady(d)
      PROVE  Steady(d)'
  <2>1. toParent[d][1].type # "restarting"
    BY <1>3, <1>5 DEF Steady, No, Of
  <2>2. toParent[d][1].type # "error"
    BY <1>0, <1>3, <1>5 DEF Steady, Up, Running, Heard
  <2>3. d \in ready'
    BY <1>1, <2>1, <2>2 DEF StateDo
  <2>4. (Up(d) => Up(d)') /\ \A A : No(toParent[d], A) => No(toParent'[d], A)
    BY <1>0, <1>2, TakenLives
  <2> QED
    BY <1>5, <2>3, <2>4 DEF Steady
<1>6. Inserting(m, d)' = Inserting(m, d)
  BY <1>2 DEF Inserting
<1>7. owner'[m] # d /\ ~Inserting(m, d)' => Clean(d, m)' /\ (Steady(d)' \/ Gone(d, m)')
  BY <1>2, <1>4, <1>5, <1>6 DEF Held
<1> QED
  BY <1>7 DEF Held

\* A transfer starts and goes on while all devices work.
LEMMA BenchSteady ==
  ASSUME Types, Lives,
         \/ User /\ ~Overlap
         \/ \E d \in Devices : Saved(d) \/ Cleared(d) \/ Inserted(d) \/ Read(d)
  PROVE  worker' = worker /\ \A e \in Devices : Steady(e)'
<1>1. CASE User /\ ~Overlap
  BY <1>1, UserTypes, UndisturbedSteady, UserSends, BenchLives DEF User, Types, BenchTypes,
     UserDoes
<1>2. ASSUME NEW d \in Devices, Saved(d) \/ Cleared(d) \/ Inserted(d) \/ Read(d)
      PROVE  worker' = worker /\ \A e \in Devices : Steady(e)'
  BY <1>2, AnsweredSends, BenchLives DEF Answered, Lives
<1> QED
  BY <1>1, <1>2

LEMMA SteadyHeld ==
  ASSUME NEW e \in Devices, NEW m \in Media, worker' = worker, Steady(e)', owner'[m] # e => Clean(e, m)
  PROVE  Held(e, m)'
BY DEF Clean, Held

LEMMA NotInserting ==
  ASSUME Placed, op.at # "inserting", NEW e \in Devices, NEW m \in Media, owner[m] # e
  PROVE  Clean(e, m)
BY DEF Placed, Held, Inserting

LEMMA UserHeld ==
  ASSUME ~Overlap, Types, Lives, Placed, User, NEW e \in Devices, NEW m \in Media
  PROVE  Held(e, m)'
BY BenchSteady, UserTypes, NotInserting, SteadyHeld DEF UserDoes, Goes, Reads, busy

\* What is detached is out of the device before the gallery says so; what is
\* inserted was in none.
LEMMA TransferHeld ==
  ASSUME Types, Lives, OneCarrier, Removed, Placed, NEW d \in Devices,
         Saved(d) \/ Cleared(d) \/ Inserted(d) \/ Read(d), NEW e \in Devices, NEW m \in Media
  PROVE  Held(e, m)'
<1>1. worker' = worker /\ Steady(e)'
  BY BenchSteady
<1>2. CASE Saved(d) \/ Read(d)
  BY <1>1, <1>2, SavedDoes, ReadDoes, NotInserting, SteadyHeld DEF SavedDo, ReadDo, Answered
<1>3. CASE Cleared(d)
  <2>1. ClearedDo(d)
    BY <1>3, ClearedDoes
  <2>2. PICK h \in Media : h = Head(op.out)
    BY <2>1 DEF ClearedDo
  <2>3. Answered(d, "clearing") /\ d = owner[h] /\ owner' = Abroad(h)
    BY <2>1, <2>2 DEF ClearedDo, Goes
  <2>4. Clean(d, h)
    BY <2>2, <2>3, ClearedClean DEF Clean
  <2>5. owner'[m] = IF m = h THEN None ELSE owner[m]
    BY <2>3 DEF Abroad, Types, BenchTypes
  <2>6. op.at # "inserting"
    BY <2>3 DEF Answered
  <2>7. owner'[m] # e => Clean(e, m)
    BY <2>3, <2>4, <2>5, <2>6, NotInserting
  <2> QED
    BY <1>1, <2>7, SteadyHeld
<1>4. CASE Inserted(d)
  <2>1. Answered(d, "inserting") /\ op.m \in Media /\ owner' = [owner EXCEPT ![op.m] = d]
    BY <1>4, InsertedDoes DEF InsertedDo
  <2>2. op.target \in Devices /\ op.target = d /\ op.out = <<>>
    BY <2>1 DEF Answered, Types, Planned
  <2>3. owner[op.m] = None
    BY <2>2, DevicesAssumption DEF Types, Planned
  <2>4. owner'[m] = IF m = op.m THEN d ELSE owner[m]
    BY <2>1 DEF Types, BenchTypes
  <2>5. ASSUME owner'[m] # e
        PROVE  Clean(e, m)
    BY <2>2, <2>3, <2>4, <2>5, DevicesAssumption DEF Inserting, Placed, Held
  <2> QED
    BY <1>1, <2>5, SteadyHeld
<1> QED
  BY <1>2, <1>3, <1>4

LEMMA PlacedInit == Init => Placed
<1> SUFFICES ASSUME Init, NEW d \in Devices, NEW m \in Media
             PROVE  Gone(d, m)
  BY DEF Placed, Held, Gone
<1>1. /\ page[d] = LoadedPage /\ worker[d] = NoWorker
      /\ toPage[d] = <<>> /\ toWorker[d] = <<>> /\ fromWorker[d] = <<>>
  BY DEF Init, PageInit
<1>2. FreeOf(<<>>, m)
  BY Emptied DEF FreeOf
<1> QED
  BY <1>1, <1>2, NoFilesType DEF Gone, Clean, LoadedPage, NoWorker

LEMMA PlacedKept ==
  ASSUME ~Overlap, ~Stalls, Types, Lives, OneCarrier, Removed, Agreement, Placed, Step
  PROVE  Placed'
<1>0. DeviceTypes /\ ChannelTypes /\ BenchTypes
  BY DEF Types
<1> SUFFICES ASSUME NEW e \in Devices, NEW m \in Media
             PROVE  Held(e, m)'
  BY DEF Placed
<1>1. Held(e, m)
  BY DEF Placed
<1>2. CASE User
  BY <1>2, UserHeld
<1>3. ASSUME NEW d \in Devices, HearsAwaiting(d)
      PROVE  Held(e, m)'
  BY <1>0, <1>1, <1>3, AwaitingDoes, AwaitingHeld, SameHeld DEF bench, Elsewhere
<1>4. ASSUME NEW d \in Devices, HearsState(d)
      PROVE  Held(e, m)'
  <2>1. StateDo(d)
    BY <1>4, StateDoes
  <2>2. CASE e = d
    BY <1>1, <1>4, <2>2, StateHeld
  <2>3. CASE e # d
    BY <1>1, <2>1, <2>3, SameHeld DEF StateDo, Same
  <2> QED
    BY <2>2, <2>3
<1>5. ASSUME NEW d \in Devices, Saved(d) \/ Cleared(d) \/ Inserted(d) \/ Read(d)
      PROVE  Held(e, m)'
  BY <1>5, TransferHeld
<1>6. ASSUME NEW d \in Devices, Device(d) \/ Firmware(d)
      PROVE  Held(e, m)'
  BY <1>1, <1>6, DeviceAside, DeviceHeld, SameHeld DEF bench, Elsewhere
<1>7. ASSUME NEW d \in Devices, Interruption(d)
      PROVE  Held(e, m)'
  <2>1. Elsewhere(d) /\ op' = op
    BY <1>7, InterruptionLives DEF Lives
  <2>2. owner' = owner /\ (e \in ready /\ e # d => e \in ready')
    BY <1>7 DEF Interruption, RestartButton, Reboot, Reload, Crash
  <2>3. CASE e = d
    BY <1>1, <1>7, <2>3, InterruptionHeld
  <2>4. CASE e # d
    BY <1>1, <2>1, <2>2, <2>4, SameHeld DEF Elsewhere
  <2> QED
    BY <2>3, <2>4
<1>8. CASE UNCHANGED vars
  BY <1>1, <1>8, SameHeld DEF vars, pageVars, channels, bench, Same
<1> QED
  BY <1>2, <1>3, <1>4, <1>5, <1>6, <1>7, <1>8 DEF Step

-----------------------------------------------------------------------------
(* What all of that is for.                                                 *)
IInv == Types /\ Lives /\ OneCarrier /\ Removed /\ Agreement /\ Placed

LEMMA IInvInit == Init => IInv
BY TypesInit, LivesInit, OneCarrierInit, AgreementInit, PlacedInit DEF Init, NoOp, Removed, IInv

LEMMA PlacedApart ==
  ASSUME Types, Placed
  PROVE  OneDeviceHasIt
<1> SUFFICES ASSUME NEW m \in Media, NEW d \in Devices, NEW e \in Devices, IsIn(m, d), IsIn(m, e), d # e
             PROVE  FALSE
  BY DEF OneDeviceHasIt
<1>1. (owner[m] = d \/ Inserting(m, d)) /\ (owner[m] = e \/ Inserting(m, e))
  BY DEF IsIn, Placed, Held, Clean
<1>2. ASSUME NEW x \in Devices, NEW y \in Devices, Inserting(m, x), owner[m] = y
      PROVE  FALSE
  BY <1>2, DevicesAssumption DEF Inserting, Types, Planned
<1>3. ~(Inserting(m, d) /\ Inserting(m, e))
  BY DEF Inserting
<1> QED
  BY <1>1, <1>2, <1>3

LEMMA IInvKept ==
  ASSUME ~Overlap, ~Stalls, ~GalleryExpires, IInv, [Next]_vars
  PROVE  IInv'
BY Possible, TypesKept, LivesKept, OneCarrierKept, RemovedKept, AgreementKept, PlacedKept DEF IInv

\* The SD card and every MemoryCard are in at most one device at a time, for any
\* number of devices, cards, transfers and interruptions, every kind of them:
\* the gallery inserts a medium only after the device that had it has answered a
\* question asked behind the command to give it up.  The three conditions are the
\* ones under which the code keeps it: no device is being restarted while a
\* transfer starts or goes on, and neither the page's nor the gallery's timer
\* ends the wait for an answer that is still on its way.
THEOREM OneDevice ==
  ASSUME ~Overlap, ~Stalls, ~GalleryExpires
  PROVE  Spec => []OneDeviceHasIt
<1>1. Init => IInv
  BY IInvInit
<1>2. IInv /\ [Next]_vars => IInv'
  BY IInvKept
<1>3. IInv => OneDeviceHasIt
  BY PlacedApart DEF IInv
<1> QED
  BY <1>1, <1>2, <1>3, PTL DEF Spec
-----------------------------------------------------------------------------
(* What a device that has its media does with them, as long as its page is  *)
(* not loaded again: it keeps them, it starts with them, its worker handles *)
(* a command, or its firmware writes to one.                                *)
NewAnswers(d) ==
  \A c \in In(fromWorker'[d]), a \in page'[d].asked :
    c.type = "snapshot" /\ a.id = c.id /\ a.for # "refresh" => c \in In(fromWorker[d]) /\ a \in page[d].asked
Keeping(d) ==
  /\ Untouched(d) /\ NewAnswers(d) /\ latest' = latest
  /\ page'[d].due # "media" /\ (worker'[d].phase = "none" <=> worker[d].phase = "none")
  /\ worker[d].phase = "none" => page'[d].reader = page[d].reader /\ page'[d].files = page[d].files
SavingFor(d) ==
  /\ Saving(d) /\ fromWorker[d] # <<>> /\ fromWorker[d][1].type = "snapshot"
  /\ \E a \in page[d].asked : a.for = "restart" /\ a.id = fromWorker[d][1].id
Beginning(d) ==
  /\ page'[d].due # "media" /\ worker'[d].phase = "booting" /\ fromWorker'[d] = <<>> /\ latest' = latest
  /\ worker'[d].reader = page[d].reader
  /\ \/ worker[d].phase = "none" /\ worker'[d].files = page[d].files
     \/ SavingFor(d) /\ worker'[d].files = fromWorker[d][1].files

LEMMA RestartedKeeps ==
  ASSUME ChannelTypes, NEW d \in Devices, Restarted(d, toWorker), page[d].due = "no", latest' = latest,
         worker[d].phase # "none",
         \/ fromWorker'[d] = fromWorker[d]
         \/ fromWorker[d] # <<>> /\ fromWorker'[d] = Tail(fromWorker[d])
  PROVE  Keeping(d)
<1>1. In(fromWorker'[d]) \subseteq In(fromWorker[d]) /\ In(fromWorker[d]) \subseteq Messages
  <2>1. In(fromWorker[d]) \subseteq Messages
    BY ChannelsOf, AllMessages DEF In
  <2>2. ASSUME fromWorker[d] # <<>>, fromWorker'[d] = Tail(fromWorker[d])
        PROVE  In(fromWorker'[d]) \subseteq In(fromWorker[d])
    BY <2>2, ReportPopped DEF Pops
  <2> QED
    BY <2>1, <2>2
<1>2. Untouched(d) /\ worker' = worker
  BY DEF Restarted, Untouched
<1>3. CASE page[d].restarting
  BY <1>1, <1>2, <1>3 DEF Restarted, Keeping, NewAnswers
<1>4. CASE ~page[d].restarting
  BY <1>1, <1>2, <1>4, FreeIdNew DEF Restarted, Asked, NewAnswers, No, Snap, Keeping
<1> QED
  BY <1>3, <1>4

LEMMA SnapshotStays ==
  ASSUME DeviceTypes, ChannelTypes, NEW d \in Devices, PageSnapshot(d), Life(d)
  PROVE  Keeping(d) \/ Beginning(d)
<1>1. /\ fromWorker[d] # <<>> /\ fromWorker[d][1].type = "snapshot"
      /\ (\A a \in page[d].asked : a.id # fromWorker[d][1].id) =>
           fromWorker'[d] = Tail(fromWorker[d]) /\ UNCHANGED <<page, worker, toParent, toWorker>>
      /\ (\E a \in page[d].asked : a.id = fromWorker[d][1].id) =>
           \E a \in page[d].asked :
             /\ a.id = fromWorker[d][1].id
             /\ Resolved(d, a, fromWorker[d][1].files)
             /\ a.for # "restart" => fromWorker'[d] = Tail(fromWorker[d])
  BY SnapshotDoes
<1>2. latest' = latest
  BY DEF PageSnapshot
<1>3. Up(d) \/ Saving(d)
  BY SnapshotLives
<1>4. page[d].due = "no" /\ worker[d].phase = "running"
  BY <1>3 DEF Up, Saving, Running
<1>5. ASSUME fromWorker'[d] = Tail(fromWorker[d])
      PROVE  In(fromWorker'[d]) \subseteq In(fromWorker[d])
  BY <1>1, <1>5, ReportPopped DEF Pops
<1>6. CASE \A a \in page[d].asked : a.id # fromWorker[d][1].id
  BY <1>1, <1>2, <1>4, <1>5, <1>6 DEF Keeping, Untouched, NewAnswers
<1>7. ASSUME NEW a \in page[d].asked, a.id = fromWorker[d][1].id, Resolved(d, a, fromWorker[d][1].files),
             a.for # "restart" => fromWorker'[d] = Tail(fromWorker[d])
      PROVE  Keeping(d) \/ Beginning(d)
  <2>1. a.for \in {"parent", "refresh", "restart", "abandoned"}
    BY Fields DEF Requests
  <2>2. CASE a.for # "restart"
    <3>1. Settles(d, a)
      BY <1>7, <2>1, <2>2 DEF Resolved
    <3>2. In(fromWorker'[d]) \subseteq In(fromWorker[d])
      BY <1>5, <1>7, <2>2
    <3> QED
      BY <1>2, <1>4, <3>1, <3>2 DEF Keeping, Untouched, NewAnswers, Settles
  <2>3. CASE a.for = "restart"
    <3>1. PICK due \in Dues : /\ Launch(d, fromWorker[d][1].files, page[d].asked \ {a}, due)
                              /\ page[d].due # "retry" => due = page[d].due
      BY <1>7, <2>3 DEF Resolved
    <3>2. fromWorker[d][1].files \in [Media -> Versions]
      BY <1>1, <1>3, ReportHead DEF Reports, Message
    <3>3. page[d].asked \ {a} \in SUBSET Requests
      BY Fields
    <3>4. /\ page'[d].due = due /\ worker'[d].phase = "booting" /\ fromWorker'[d] = <<>>
          /\ worker'[d].files = fromWorker[d][1].files /\ worker'[d].reader = page[d].reader
      BY <3>1, <3>2, <3>3, LaunchDoes, ZenonT(40)
    <3>5. Saving(d)
      BY <1>3, <2>3 DEF Up
    <3> QED
      BY <1>1, <1>2, <1>4, <1>7, <2>3, <3>1, <3>4, <3>5 DEF Beginning, SavingFor
  <2> QED
    BY <2>2, <2>3
<1> QED
  BY <1>1, <1>6, <1>7

LEMMA DeviceStays ==
  ASSUME DeviceTypes, ChannelTypes, ~Stalls, NEW d \in Devices, Life(d), Device(d) \/ Firmware(d),
         page[d].due # "media"
  PROVE  \/ Keeping(d) \/ Beginning(d) \/ WorkerHandles(d)
         \/ \E m \in Media : FirmwareWrites(d, m)
<1>1. CASE PageProvided(d)
  BY <1>1, ProvidedDoes DEF Keeping, Untouched, NewAnswers, PageProvided
<1>2. CASE PageExports(d)
  <2>1. CASE worker[d].phase = "none"
    BY <1>2, <2>1, ExportsDoes DEF Keeping, Untouched, NewAnswers, PageExports
  <2>2. CASE worker[d].phase # "none"
    <3>1. /\ UNCHANGED <<worker, fromWorker, latest>> /\ page'[d].due = page[d].due
      BY <1>2, <2>2, ExportsDoes DEF PageExports
    <3>2. PICK id \in FreeIds(d), k \in Ids \cup {0} : page'[d].asked = page[d].asked \cup {Asked(id, "parent", k)}
      BY <1>2, <2>2, ExportsDoes
    <3>3. No(fromWorker[d], Snap(id)) /\ Asked(id, "parent", k).id = id
      BY <3>2, FreeIdNew DEF Asked
    <3>4. In(fromWorker[d]) \subseteq Messages
      BY ChannelsOf, AllMessages DEF In
    <3>5. NewAnswers(d)
      BY <3>1, <3>2, <3>3, <3>4 DEF NewAnswers, No, Snap
    <3> QED
      BY <2>2, <3>1, <3>5 DEF Keeping, Untouched
  <2> QED
    BY <2>1, <2>2
<1>3. CASE PageForwards(d)
  BY <1>3, ForwardsDoes DEF Keeping, Untouched, NewAnswers, PageForwards
<1>4. CASE PageRestarts(d)
  BY <1>4, RestartsLives, RestartsDoes, RestartedKeeps DEF Told, Running, PageRestarts
<1>5. CASE PageReboots(d)
  BY <1>5, RebootsLives, RebootsDoes, RestartedKeeps DEF Rebooting, Running, PageReboots
<1>6. ASSUME fromWorker[d] # <<>>, fromWorker'[d] = Tail(fromWorker[d])
      PROVE  In(fromWorker'[d]) \subseteq In(fromWorker[d])
  BY <1>6, ReportPopped DEF Pops
<1>7. CASE PageSeesRunning(d)
  BY <1>6, <1>7, SeesRunningDoes DEF Keeping, Untouched, NewAnswers, PageSeesRunning
<1>8. CASE PageSeesSd(d)
  BY <1>6, <1>8, SeesSdLives, SeesSdDoes DEF Up, Running, Keeping, Untouched, NewAnswers,
     PageSeesSd
<1>9. CASE PageSeesCard(d)
  <2>1. worker[d].phase # "none"
    BY <1>9, SeesCardLives DEF Up, Running
  <2>2. /\ page'[d].due = page[d].due /\ worker' = worker /\ latest' = latest
        /\ In(fromWorker'[d]) \subseteq In(fromWorker[d])
    BY <1>6, <1>9, SeesCardDoes DEF PageSeesCard
  <2>3. PICK id : page'[d].asked = page[d].asked \cup {Asked(id, "refresh", 0)}
    BY <1>9, SeesCardDoes
  <2>4. Asked(id, "refresh", 0).for = "refresh"
    BY DEF Asked
  <2> QED
    BY <2>1, <2>2, <2>3, <2>4 DEF Keeping, Untouched, NewAnswers
<1>10. CASE PageSnapshot(d)
  BY <1>10, SnapshotStays
<1>11. CASE PageStarts(d)
  BY <1>11, StartsDoes, LifeOf, Fields, LaunchDoes DEF Dues, PageStarts, Beginning
<1>12. ASSUME NEW a \in page[d].asked, PageTimeout(d, a)
       PROVE  FALSE
  BY <1>12, TimeoutLives
<1>13. CASE WorkerReady(d)
  BY <1>13, ReadyDoes DEF Keeping, Untouched, NewAnswers, WorkerReady
<1>14. CASE WorkerRuns(d)
  <2>1. /\ worker[d].phase = "ready" /\ worker'[d].phase = "running" /\ Untouched(d)
        /\ fromWorker'[d] = Append(fromWorker[d], Plain("running")) /\ page' = page /\ latest' = latest
    BY <1>14, RunsDoes DEF WorkerRuns, Untouched
  <2>2. In(fromWorker'[d]) = In(fromWorker[d]) \cup {Plain("running")}
    BY <2>1, PlainTypes, ReportPushed DEF Pushes
  <2>3. Plain("running").type # "snapshot"
    BY PlainFields
  <2> QED
    BY <2>1, <2>2, <2>3 DEF Keeping, NewAnswers
<1> QED
  BY <1>1, <1>2, <1>3, <1>4, <1>5, <1>7, <1>8, <1>9, <1>10, <1>11, <1>12, <1>13, <1>14
     DEF Device, Firmware, PageSteps, WorkerSteps
-----------------------------------------------------------------------------
(* What the gallery has in a device is inserted there: the worker sees it,  *)
(* and so does the next one.  A reader has room for one MemoryCard, so two  *)
(* are never in the same device, nor is a transfer about to put one to      *)
(* another.                                                                 *)
Leaving(m)  == op.at = "clearing" /\ m = Head(op.out)
Sees(d, m)  == IF worker[d].phase = "none" THEN m \in page[d].reader ELSE m \in worker[d].reader
There(d, m) == owner[m] = d /\ ~Leaving(m) => page[d].due # "media" /\ Sees(d, m)
Present     == \A d \in Devices, m \in Media : There(d, m)

OneCard    == \A x, y \in Cards : owner[x] # None /\ owner[x] = owner[y] => x = y
ReaderFree ==
  op.target # None /\ op.m \in Cards =>
    \A x \in Cards : owner[x] = op.target => \E i \in DOMAIN op.out : op.out[i] = x
OneEach    == OneCard /\ ReaderFree

LEMMA ProceedKeeps ==
  ASSUME NEW o \in Operations, NEW own, Proceed(o, own)
  PROVE  owner' = own /\ (op'.target = None \/ (op'.out = o.out /\ op'.m = o.m /\ op'.target = o.target))
BY NoOpFields DEF Proceed, Operations, Insert, AskAfter

\* The other card of the target is the first that a transfer detaches.
LEMMA MoveFrees ==
  ASSUME Types, OneCard, NEW m \in Media, NEW d \in Devices, Move(m, d)
  PROVE  owner' = owner /\ ReaderFree'
<1>1. PICK first \in IF Occupant(m, d) = {} THEN {<<>>} ELSE {<<c>> : c \in Occupant(m, d)} :
        Proceed([NoOp EXCEPT !.out = first \o ToDetach(m), !.m = m, !.target = d], owner)
  BY DEF Move
<1> DEFINE out == first \o ToDetach(m)
           o == [NoOp EXCEPT !.out = out, !.m = m, !.target = d]
<1>2. first \in Seq(Media) /\ ToDetach(m) \in Seq(Media)
  <2>1. first = <<>> \/ \E c \in Media : first = <<c>>
    BY <1>1 DEF Occupant, Media
  <2>2. ToDetach(m) = <<>> \/ ToDetach(m) = <<m>>
    BY DEF ToDetach
  <2>3. <<>> \in Seq(Media) /\ \A c \in Media : <<c>> \in Seq(Media)
    OBVIOUS
  <2> QED
    BY <2>1, <2>2, <2>3
<1>3. out \in Seq(Media)
  BY <1>2
<1> HIDE DEF out
<1>4. o \in Operations /\ o.out = out /\ o.m = m /\ o.target = d
  BY <1>3, NoOpFields DEF Operations
<1> HIDE DEF o
<1>5. Proceed(o, owner)
  BY <1>1 DEF o, out
<1>6. owner' = owner /\ (op'.target = None \/ (op'.out = out /\ op'.m = m /\ op'.target = d))
  BY <1>4, <1>5, ProceedKeeps
<1>7. ASSUME NEW x \in Cards, owner[x] = d, m \in Cards
      PROVE  \E i \in DOMAIN out : out[i] = x
  <2>1. x \in Occupant(m, d)
    BY <1>7, MediaAssumption DEF Move, Occupant
  <2>2. PICK c \in Occupant(m, d) : first = <<c>>
    BY <1>1, <2>1
  <2>3. c \in Cards /\ owner[c] = d
    BY <2>2, <1>7, MediaAssumption DEF Occupant
  <2>4. c = x
    BY <1>7, <2>3, DevicesAssumption DEF OneCard
  <2>5. 1 \in DOMAIN out /\ out[1] = c
    BY <1>2, <2>2, <2>3 DEF Media, out
  <2> QED
    BY <2>4, <2>5
<1> QED
  BY <1>6, <1>7 DEF ReaderFree

\* What has no target needs no room.
LEMMA NoTarget ==
  ASSUME op'.target = None \/ op' = op, owner' = owner, OneEach
  PROVE  OneEach'
BY DEF OneEach, OneCard, ReaderFree

LEMMA ReadTarget ==
  ASSUME NEW d, NEW commands, AskAfter(d, commands, Reading)
  PROVE  op'.target = None
BY NoOpFields DEF Reading, Operations, AskAfter

LEMMA UserFrees ==
  ASSUME Types, OneEach, User
  PROVE  OneEach'
<1>1. ASSUME NEW m \in Media, Eject(m)
      PROVE  OneEach'
  <2> DEFINE o == [NoOp EXCEPT !.out = <<m>>, !.m = m]
  <2>1. <<m>> \in Seq(Media)
    OBVIOUS
  <2>2. o \in Operations /\ o.target = None
    BY <2>1, NoOpFields DEF Operations
  <2>3. Proceed(o, owner)
    BY <1>1 DEF Eject
  <2> HIDE DEF o
  <2> QED
    BY <2>2, <2>3, ProceedKeeps, NoTarget
<1>2. ASSUME NEW c \in Cards, Reset(c)
      PROVE  OneEach'
  <2> DEFINE o == [NoOp EXCEPT !.out = <<c>>, !.m = c, !.wipe = TRUE]
  <2>1. c \in Media /\ <<c>> \in Seq(Media)
    BY DEF Media
  <2>2. o \in Operations /\ o.target = None
    BY <2>1, NoOpFields DEF Operations
  <2>3. CASE owner[c] # None
    BY <1>2, <2>2, <2>3, ProceedKeeps, NoTarget DEF Reset
  <2>4. CASE owner[c] = None
    BY <1>2, <2>4, NoTarget DEF Reset
  <2> QED
    BY <2>3, <2>4
<1>3. CASE Edit
  BY <1>3, ReadTarget, NoTarget DEF Edit, Reading
<1>4. CASE Refresh
  BY <1>4, ReadTarget, NoTarget DEF Refresh, Reading
<1>5. ASSUME NEW m \in Media, NEW d \in Devices, Move(m, d)
      PROVE  OneEach'
  BY <1>5, MoveFrees DEF OneEach, OneCard
<1> QED
  BY <1>1, <1>2, <1>3, <1>4, <1>5 DEF User

LEMMA OneEachKept ==
  ASSUME ~Overlap, Types, Lives, OneCarrier, OneEach, Step
  PROVE  OneEach'
<1>1. CASE User
  BY <1>1, UserFrees
<1>2. ASSUME NEW d \in Devices, Saved(d)
      PROVE  OneEach'
  <2>1. owner' = owner /\ Asks(d, Removal(Head(op.out)), Clearing)
    BY <1>2, SavedCarries DEF SavedDo
  <2>2. op'.target = op.target /\ op'.out = op.out /\ op'.m = op.m
    BY <2>1 DEF Asks, Clearing, Types, BenchTypes, Operations
  <2> QED
    BY <2>1, <2>2 DEF OneEach, OneCard, ReaderFree
<1>3. ASSUME NEW d \in Devices, Cleared(d)
      PROVE  OneEach'
  <2>1. PICK h \in Media : h = Head(op.out)
    BY <1>3, ClearedCarries DEF ClearedDo
  <2>2. owner' = [owner EXCEPT ![h] = None] /\ op.out # <<>>
    BY <1>3, <2>1, ClearedCarries DEF ClearedDo, Goes, Abroad
  <2>3. \/ op'.target = None
        \/ op'.target = op.target /\ op'.out = Tail(op.out) /\ op'.m = op.m
    <3>1. /\ Rest.out = Tail(op.out) /\ Rest.target = op.target /\ Rest.m = op.m
      BY DEF Rest, Types, BenchTypes, Operations
    <3>2. \/ Detaches(Rest, Abroad(Head(op.out))) \/ Inserts(Rest) \/ op' = NoOp
      BY <1>3, ClearedCarries
    <3> DEFINE o == Rest
    <3>3. o \in Operations
      BY <1>3, ClearedCarries DEF ClearedDo, Goes, Plannable
    <3> HIDE DEF o
    <3>4. [o EXCEPT !.at = "saving"].out = o.out /\ [o EXCEPT !.at = "saving"].m = o.m
          /\ [o EXCEPT !.at = "saving"].target = o.target
          /\ [o EXCEPT !.at = "inserting"].out = o.out /\ [o EXCEPT !.at = "inserting"].m = o.m
          /\ [o EXCEPT !.at = "inserting"].target = o.target
      BY <3>3 DEF Operations
    <3> QED
      BY <3>1, <3>2, <3>4, NoOpFields DEF Detaches, Inserts, Asks, o
  <2>4. \A x \in Media : owner'[x] = IF x = h THEN None ELSE owner[x]
    BY <2>2 DEF Types, BenchTypes
  <2>5. OneCard'
    BY <2>4 DEF OneEach, OneCard, Media
  <2>6. ASSUME NEW x \in Cards, op'.target # None, op'.m \in Cards, owner'[x] = op'.target
        PROVE  \E i \in DOMAIN op'.out : op'.out[i] = x
    <3>1. x \in Media /\ x # h /\ owner[x] = op.target /\ op'.out = Tail(op.out) /\ op.target # None /\ op.m \in Cards
      BY <2>3, <2>4, <2>6 DEF Media
    <3>2. PICK i \in DOMAIN op.out : op.out[i] = x
      BY <3>1 DEF OneEach, ReaderFree
    <3>3. op.out \in Seq(Media)
      BY DEF Types, BenchTypes, Operations
    <3>4. /\ Head(op.out) = op.out[1] /\ Len(op.out) \in Nat \ {0} /\ Len(Tail(op.out)) = Len(op.out) - 1
          /\ \A k \in 1..(Len(op.out) - 1) : Tail(op.out)[k] = op.out[k + 1]
          /\ DOMAIN Tail(op.out) = 1..Len(Tail(op.out)) /\ DOMAIN op.out = 1..Len(op.out)
      BY <2>2, <3>3, TailFacts
    <3>5. i \in 2..Len(op.out)
      BY <2>1, <3>1, <3>2, <3>4
    <3>6. i - 1 \in DOMAIN Tail(op.out) /\ Tail(op.out)[i - 1] = x
      BY <3>2, <3>4, <3>5
    <3> QED
      BY <3>1, <3>6
  <2> QED
    BY <2>5, <2>6 DEF OneEach, ReaderFree
<1>4. ASSUME NEW d \in Devices, Inserted(d)
      PROVE  OneEach'
  <2>1. Answered(d, "inserting") /\ op.m \in Media /\ owner' = [owner EXCEPT ![op.m] = d] /\ op' = NoOp
    BY <1>4, InsertedDoes DEF InsertedDo
  <2>2. op.target = d /\ op.out = <<>> /\ op.target # None
    BY <2>1, DevicesAssumption DEF Answered, Types, Planned
  <2>3. \A x \in Media : owner'[x] = IF x = op.m THEN d ELSE owner[x]
    BY <2>1 DEF Types, BenchTypes
  <2>4. DOMAIN op.out = {}
    BY <2>2
  <2>5. ASSUME op.m \in Cards, NEW x \in Cards, owner[x] = d
        PROVE  FALSE
    BY <2>2, <2>4, <2>5 DEF OneEach, ReaderFree
  <2>6. OneCard'
    BY <2>3, <2>5 DEF OneEach, OneCard, Media
  <2> QED
    BY <2>1, <2>6, NoOpFields DEF OneEach, ReaderFree
<1>5. ASSUME NEW d \in Devices, Read(d)
      PROVE  OneEach'
  BY <1>5, ReadDoes, NoOpFields, NoTarget DEF ReadDo
<1>6. ASSUME NEW d \in Devices,
             HearsAwaiting(d) \/ HearsState(d) \/ Device(d) \/ Firmware(d) \/ Interruption(d)
      PROVE  OneEach'
  <2>1. owner' = owner /\ op' = op
    BY <1>6 DEF HearsAwaiting, HearsState, Device, Firmware, Interruption, RestartButton, Reboot, Reload, Crash, bench
  <2> QED
    BY <2>1, NoTarget
<1>7. CASE UNCHANGED vars
  BY <1>7, NoTarget DEF vars, bench
<1> QED
  BY <1>1, <1>2, <1>3, <1>4, <1>5, <1>6, <1>7 DEF Step
-----------------------------------------------------------------------------
(* What is inserted into a device is in its reader when the answer comes.   *)
InsertComing(d, m) ==
  ~No(toPage[d], Of({"insert"})) \/ ~No(toWorker[d], Of({"insert"})) \/ m \in worker[d].reader
Insertable(d, m)   == Inserting(m, d) => InsertComing(d, m)
InsertedThen       == \A d \in Devices, m \in Media : Insertable(d, m)

LEMMA InsertCommand == Of({"insert"}) \subseteq Of(Commands)
BY DEF Of, Commands

LEMMA ForwardInserts ==
  ASSUME DeviceTypes, ChannelTypes, NEW d \in Devices, NEW m \in Media, PageForwards(d), Up(d), InsertComing(d, m)
  PROVE  InsertComing(d, m)'
<1> DEFINE c == toPage[d][1]
           A == Of({"insert"})
<1>1. worker[d].phase # "none"
  BY DEF Up, Running
<1>2. /\ toPage[d] # <<>> /\ toPage'[d] = Tail(toPage[d]) /\ c \in WorkerMessages
      /\ worker' = worker /\ toWorker'[d] = Append(toWorker[d], c)
  BY <1>1, ForwardsDoes
<1>3. Pops(PageMessages, toPage[d], toPage'[d]) /\ Pushes(WorkerMessages, toWorker[d], toWorker'[d], c)
  BY <1>2, PagePopped, WorkerPushed
<1> HIDE DEF A
<1>4. No(toPage'[d], A) /\ No(toWorker'[d], A) => No(toPage[d], A) /\ No(toWorker[d], A)
  BY <1>3 DEF Pops, Pushes
<1> QED
  BY <1>2, <1>4 DEF InsertComing, A

LEMMA HandleInserts ==
  ASSUME DeviceTypes, ChannelTypes, NEW d \in Devices, NEW m \in Media, WorkerHandles(d),
         \A c \in In(toWorker[d]) : c.type \in Commands => c.type \in {"import", "insert"} /\ c.m = m,
         InsertComing(d, m)
  PROVE  InsertComing(d, m)'
<1> DEFINE c == toWorker[d][1]
<1>1. /\ toWorker[d] # <<>> /\ toWorker'[d] = Tail(toWorker[d]) /\ c \in WorkerMessages
      /\ HandledAs(d, c) /\ toPage' = toPage
  BY HandlesDoes
<1>2. Pops(WorkerMessages, toWorker[d], toWorker'[d])
  BY <1>1, WorkerPopped
<1>3. c \in In(toWorker[d])
  BY <1>2 DEF Pops
<1>4. c.type # "insert" /\ No(toWorker'[d], Of({"insert"})) => No(toWorker[d], Of({"insert"}))
  BY <1>2 DEF Pops, Of
<1>5. c.type \in {"snapshot", "card-list"} \/ (c.type \in {"import", "insert"} /\ c.m = m)
  BY <1>1, <1>3 DEF WorkerMessages, Addressed, Message
<1> HIDE DEF c
<1>6. CASE c.type \in {"snapshot", "card-list", "import"}
  BY <1>1, <1>4, <1>6 DEF HandledAs, InsertComing
<1>7. CASE c.type = "insert" /\ c.m = m
  BY <1>1, <1>7 DEF HandledAs, InsertComing
<1> QED
  BY <1>5, <1>6, <1>7

LEMMA InsertionGoesOn ==
  ASSUME DeviceTypes, ChannelTypes, NEW d \in Devices, NEW m \in Media, Kinds(d), Up(d),
         \A c \in In(toWorker[d]) : c.type \in Commands => c.type \in {"import", "insert"} /\ c.m = m,
         InsertComing(d, m)
  PROVE  InsertComing(d, m)'
<1>1. ASSUME Passive(d)
      PROVE  InsertComing(d, m)'
  BY <1>1, PageShapes, InsertCommand, WorkShapes DEF Passive, InsertComing, Untouched
<1>2. ASSUME NEW x \in Media, FirmwareWrites(d, x)
      PROVE  InsertComing(d, m)'
  BY <1>2, WritesDoes DEF InsertComing
<1> QED
  BY <1>1, <1>2, ForwardInserts, HandleInserts DEF Kinds, Launched

\* The insertion is sent.
LEMMA InsertionBegins ==
  ASSUME ChannelTypes, NEW d \in Devices, NEW o \in Operations, NEW x \in PageMessages, o.m \in Media,
         kept' \in [Media -> Versions], toPage'[d] = toPage[d] \o Append(Insertion(o), x)
  PROVE  ~No(toPage'[d], Of({"insert"}))
<1> DEFINE c == [Command("import", o.m) EXCEPT !.files = CopyOf(o.m, kept')]
           i == Command("insert", o.m)
           t == Insertion(o)
           s == toPage[d]
<1>1. t = <<c, i>> /\ t \in Seq(PageMessages) /\ s \in Seq(PageMessages)
  BY InsertionTypes, ChannelsOf DEF Insertion
<1>2. i \in Messages /\ i.type = "insert"
  BY CommandTypes, CommandFields, AllMessages DEF Commands
<1> HIDE DEF c, i, s
<1>3. i \in In(t)
  BY <1>1, TwoIn
<1> HIDE DEF t
<1>4. Append(t, x) \in Seq(PageMessages) /\ In(Append(t, x)) = In(t) \cup {x}
  <2>1. Pushes(PageMessages, t, Append(t, x), x)
    BY <1>1, Pushed
  <2>2. Append(t, x) \in Seq(PageMessages)
    BY <1>1, AppendFacts
  <2> QED
    BY <2>1, <2>2 DEF Pushes
<1>5. Joins(PageMessages, s, Append(t, x), toPage'[d])
  BY <1>1, <1>4, Joined DEF s, t
<1>6. i \in In(toPage'[d])
  BY <1>3, <1>4, <1>5 DEF Joins
<1> QED
  BY <1>2, <1>6 DEF No, Of

LEMMA GoesInserts ==
  ASSUME ChannelTypes, NEW o \in Operations, NEW own, Goes(o, own), kept' \in [Media -> Versions],
         op'.at = "inserting", NEW d \in Devices, d = op'.target
  PROVE  ~No(toPage'[d], Of({"insert"}))
<1>1. o.m \in Media
  BY DEF Goes, Plannable
<1>2. [o EXCEPT !.at = "saving"].at = "saving" /\ [o EXCEPT !.at = "inserting"].target = o.target
  BY DEF Operations
<1>3. Inserts(o)
  BY <1>2, NoOpFields DEF Goes, Detaches, Ends, Asks
<1>4. /\ toPage'[o.target] = toPage[o.target] \o Append(Insertion(o), Export(op'.id))
      /\ op'.target = o.target /\ op'.id \in Ids
  BY <1>2, <1>3 DEF Inserts, Asks
<1>5. Export(op'.id) \in PageMessages
  BY <1>4, NoFilesType, SnapshotTypes
<1> QED
  BY <1>1, <1>4, <1>5, InsertionBegins

LEMMA InsertedThenKept ==
  ASSUME ~Overlap, ~Stalls, Types, Lives, OneCarrier, InsertedThen, Step
  PROVE  InsertedThen'
<1>0. DeviceTypes /\ ChannelTypes /\ BenchTypes
  BY DEF Types
<1> SUFFICES ASSUME NEW e \in Devices, NEW m \in Media, Inserting(m, e)'
             PROVE  InsertComing(e, m)'
  BY DEF InsertedThen, Insertable
<1>1. op'.at = "inserting" /\ op'.target = e
  BY DEF Inserting
<1>2. Inserting(m, e) => InsertComing(e, m)
  BY DEF InsertedThen, Insertable
<1>3. CASE User
  <2>1. Types' /\ UserDoes
    BY <1>3, UserTypes
  <2>2. kept' \in [Media -> Versions]
    BY <2>1 DEF Types, BenchTypes
  <2>3. op.at = "idle" /\ Reading.at = "reading"
    BY <2>1, NoOpFields DEF UserDoes, busy, Reading, Operations
  <2>4. \E o \in Operations : Goes(o, owner)
    BY <1>1, <2>1, <2>3, NoOpFields DEF UserDoes, Reads, Asks, Rejects
  <2> QED
    BY <1>0, <1>1, <2>2, <2>4, GoesInserts DEF InsertComing
<1>4. ASSUME NEW d \in Devices, Cleared(d)
      PROVE  InsertComing(e, m)'
  <2>1. Types' /\ Goes(Rest, Abroad(Head(op.out)))
    BY <1>4, ClearedDoes DEF ClearedDo
  <2>2. kept' \in [Media -> Versions] /\ Rest \in Operations
    BY <2>1 DEF Types, BenchTypes, Goes, Plannable
  <2> QED
    BY <1>0, <1>1, <2>1, <2>2, GoesInserts DEF InsertComing
<1>5. ASSUME NEW d \in Devices, Saved(d) \/ Inserted(d) \/ Read(d)
      PROVE  FALSE
  <2>1. CASE Saved(d)
    BY <1>1, <2>1, SavedCarries DEF Asks, Clearing, Types, BenchTypes, Operations
  <2> QED
    BY <1>1, <1>5, <2>1, OverCarries, NoOpFields
<1>6. ASSUME Inserting(m, e), worker'[e] = worker[e], toWorker'[e] = toWorker[e], toPage'[e] = toPage[e]
      PROVE  InsertComing(e, m)'
  BY <1>2, <1>6 DEF InsertComing
<1>7. ASSUME op' = op
      PROVE  Inserting(m, e) /\ Steady(e) /\ InsertComing(e, m)
  BY <1>1, <1>2, <1>7 DEF Inserting, Lives, busy
<1>8. ASSUME NEW d \in Devices, HearsAwaiting(d)
      PROVE  FALSE
  BY <1>0, <1>1, <1>8, AwaitingLives, AwaitingDoes, NotUp DEF Lives, bench, busy
<1>9. ASSUME NEW d \in Devices, HearsState(d)
      PROVE  InsertComing(e, m)'
  BY <1>6, <1>7, <1>9, StateDoes DEF StateDo
<1>10. ASSUME NEW d \in Devices, Device(d) \/ Firmware(d)
       PROVE  InsertComing(e, m)'
  <2>1. Elsewhere(d) /\ op' = op
    BY <1>10, DeviceAside DEF bench
  <2>2. CASE e # d
    BY <1>6, <1>7, <2>1, <2>2 DEF Elsewhere, Same
  <2>3. CASE e = d
    <3>1. Kinds(e)
      BY <1>0, <1>10, <2>3, DeviceKinds DEF Lives
    <3>2. Up(e) /\ Inserting(m, e) /\ InsertComing(e, m)
      BY <1>7, <2>1 DEF Steady
    <3>3. op.from = e /\ busy
      BY <3>2 DEF Inserting, busy, Types, Planned
    <3>4. \A c \in In(toWorker[e]) : c.type \in Commands => c.type \in {"import", "insert"} /\ c.m = m
      BY <3>2, <3>3 DEF OneCarrier, Carrying, Fitting, Fits, Inserting
    <3> QED
      BY <1>0, <3>1, <3>2, <3>4, InsertionGoesOn
  <2> QED
    BY <2>2, <2>3
<1>11. ASSUME NEW d \in Devices, Interruption(d)
       PROVE  FALSE
  BY <1>1, <1>11, InterruptionLives DEF Lives, AtRest, busy
<1>12. CASE UNCHANGED vars
  BY <1>6, <1>7, <1>12 DEF vars, pageVars, channels, bench
<1> QED
  BY <1>3, <1>4, <1>5, <1>8, <1>9, <1>10, <1>11, <1>12 DEF Step
\* A command that takes another medium out of a reader is not sent to a device
\* that has this one.
LEMMA CommandsSpare ==
  ASSUME Types, OneCarrier, NEW d \in Devices, NEW m \in Media, owner[m] = d, ~Leaving(m),
         NEW c \in In(toWorker[d]), c \in WorkerMessages
  PROVE  /\ c.type \in {"snapshot", "card-list"} \cup Commands
         /\ c.type \in Commands => busy /\ op.from = d /\ Fits(c)
         /\ c.type \in {"eject", "remove"} =>
              c.m = Head(op.out) /\ c.m # m /\ c.m \in Media /\ owner[c.m] = d
         /\ c.type \in {"insert", "import"} =>
              c.m = op.m /\ op.m \in Media /\ op.target = d /\ op.out = <<>> /\ owner[op.m] = None
<1>1. c.type \in {"snapshot", "card-list"} \cup Commands
  BY DEF WorkerMessages, Addressed, Message
<1>2. ASSUME c.type \in Commands
      PROVE  busy /\ op.from = d /\ Fits(c)
  BY <1>2, AllMessages DEF No, Of, OneCarrier, Bare, Carrying, Fitting
<1>3. ASSUME c.type \in {"eject", "remove"}
      PROVE  c.m = Head(op.out) /\ c.m # m /\ c.m \in Media /\ owner[c.m] = d
  BY <1>2, <1>3, Detached DEF Commands, Fits, busy, Types, BenchTypes, Operations, Leaving
<1>4. ASSUME c.type \in {"insert", "import"}
      PROVE  c.m = op.m /\ op.m \in Media /\ op.target = d /\ op.out = <<>> /\ owner[op.m] = None
  BY <1>2, <1>4, DevicesAssumption DEF Commands, Fits, busy, Types, BenchTypes, Operations, Planned
<1> QED
  BY <1>1, <1>2, <1>3, <1>4

LEMMA HandlesThere ==
  ASSUME Types, OneCarrier, OneEach, NEW d \in Devices, NEW m \in Media, WorkerHandles(d),
         owner[m] = d, ~Leaving(m), m \in worker[d].reader
  PROVE  m \in worker'[d].reader
<1> DEFINE c == toWorker[d][1]
<1>0. DeviceTypes /\ ChannelTypes
  BY DEF Types
<1>1. toWorker[d] # <<>> /\ toWorker'[d] = Tail(toWorker[d]) /\ c \in WorkerMessages /\ HandledAs(d, c)
  BY <1>0, HandlesDoes
<1>2. c \in In(toWorker[d])
  BY <1>0, <1>1, WorkerPopped DEF Pops
<1> HIDE DEF c
<1>3. /\ c.type \in {"snapshot", "card-list"} \cup Commands
      /\ c.type \in {"eject", "remove"} => c.m = Head(op.out) /\ c.m # m /\ c.m \in Media /\ owner[c.m] = d
      /\ c.type \in {"insert", "import"} =>
           c.m = op.m /\ op.m \in Media /\ op.target = d /\ op.out = <<>> /\ owner[op.m] = None
  BY <1>1, <1>2, CommandsSpare
<1>4. CASE c.type \in {"snapshot", "card-list", "import", "remove", "edit"}
  BY <1>1, <1>4 DEF HandledAs
<1>5. CASE c.type = "eject"
  BY <1>1, <1>3, <1>5, DevicesAssumption DEF HandledAs, Beside, OneEach, OneCard, Media
<1>6. CASE c.type = "insert"
  <2>1. worker'[d].reader = (worker[d].reader \ Beside(c.m)) \cup {c.m}
    BY <1>1, <1>6 DEF HandledAs
  <2>2. c.m = op.m /\ op.target = d /\ op.out = <<>> /\ c.m \in Media
    BY <1>3, <1>6
  <2>3. DOMAIN op.out = {} /\ op.target # None
    BY <2>2, DevicesAssumption
  <2>4. ASSUME m \in Beside(c.m), m # c.m
        PROVE  FALSE
    BY <2>2, <2>3, <2>4 DEF Beside, Media, OneEach, ReaderFree
  <2> QED
    BY <2>1, <2>4
<1> QED
  BY <1>3, <1>4, <1>5, <1>6 DEF Commands

LEMMA DeviceThere ==
  ASSUME ~Stalls, Types, Lives, OneCarrier, Agreement, OneEach, NEW d \in Devices, NEW m \in Media,
         owner[m] = d, ~Leaving(m), There(d, m), Device(d) \/ Firmware(d)
  PROVE  page'[d].due # "media" /\ Sees(d, m)'
<1>0. DeviceTypes /\ ChannelTypes /\ Life(d)
  BY DEF Types, Lives
<1>1. page[d].due # "media" /\ Sees(d, m)
  BY DEF There
<1>2. CASE Keeping(d)
  BY <1>1, <1>2 DEF Keeping, Untouched, Sees
<1>3. CASE Beginning(d)
  <2>1. /\ page'[d].due # "media" /\ worker'[d].phase = "booting" /\ worker'[d].reader = page[d].reader
    BY <1>3 DEF Beginning
  <2>2. CASE worker[d].phase = "none"
    BY <1>1, <2>1, <2>2 DEF Sees
  <2>3. CASE worker[d].phase # "none"
    <3>1. SavingFor(d)
      BY <1>3, <2>3 DEF Beginning
    <3>2. ReaderTold(d, m)
      BY <2>3 DEF Agreement, Agreed
    <3>3. No(fromWorker[d], Tells(m, worker[d].reader))
      BY <3>1 DEF SavingFor, Saving, No, Tells, In, Rep, Snap
    <3>4. m \in page[d].reader <=> m \in worker[d].reader
      BY <3>2, <3>3 DEF ReaderTold
    <3> QED
      BY <1>1, <2>1, <2>3, <3>4 DEF Sees
  <2> QED
    BY <2>2, <2>3
<1>4. CASE WorkerHandles(d)
  BY <1>0, <1>1, <1>4, HandlesDoes, HandlesThere DEF Sees
<1>5. ASSUME NEW x \in Media, FirmwareWrites(d, x)
      PROVE  page'[d].due # "media" /\ Sees(d, m)'
  BY <1>0, <1>1, <1>5, WritesDoes DEF Sees
<1> QED
  BY <1>0, <1>1, <1>2, <1>3, <1>4, <1>5, DeviceStays

\* At rest the page knows what is in the reader.
LEMMA RestReader ==
  ASSUME Types, Lives, Agreement, AtRest, NEW d \in Devices, NEW m \in Media
  PROVE  m \in page[d].reader <=> m \in worker[d].reader
BY RestingLife, Emptied DEF Lives, Agreement, Agreed, Running, ReaderTold

LEMMA InterruptionThere ==
  ASSUME ~Overlap, "reload" \notin Upsets, Types, Lives, Agreement, NEW d \in Devices, NEW m \in Media,
         page[d].due # "media", Sees(d, m), Interruption(d)
  PROVE  page'[d].due # "media" /\ Sees(d, m)'
<1>0. DeviceTypes /\ ChannelTypes /\ BenchTypes /\ Life(d) /\ AtRest
  BY InterruptionLives DEF Types, Lives
<1>1. CASE RestartButton(d) \/ Reboot(d)
  BY <1>1 DEF RestartButton, Reboot, FirmwareReboots, Sees
<1>2. ASSUME NEW retries \in BOOLEAN, Crash(d, retries)
      PROVE  page'[d].due # "media" /\ Sees(d, m)'
  BY <1>0, <1>2, CrashesDoes, RestReader DEF Crash, Sees, NoWorker
<1>3. ~Reload(d)
  BY DEF Reload, Upset
<1> QED
  BY <1>1, <1>2, <1>3 DEF Interruption
LEMMA PresentKept ==
  ASSUME ~Overlap, ~Stalls, "reload" \notin Upsets, Types, Lives, OneCarrier, Agreement,
         OneEach, InsertedThen, Present, Step
  PROVE  Present'
<1>0. DeviceTypes /\ ChannelTypes /\ BenchTypes
  BY DEF Types
<1> SUFFICES ASSUME NEW e \in Devices, NEW m \in Media, owner'[m] = e, ~Leaving(m)'
             PROVE  page'[e].due # "media" /\ Sees(e, m)'
  BY DEF Present, There
<1>1. There(e, m)
  BY DEF Present
<1>2. ASSUME page'[e] = page[e], worker'[e] = worker[e], owner[m] = e, ~Leaving(m)
      PROVE  page'[e].due # "media" /\ Sees(e, m)'
  BY <1>1, <1>2 DEF There, Sees
<1>3. CASE User
  BY <1>2, <1>3, UserTypes DEF UserDoes, Goes, Reads, busy, Leaving
<1>4. ASSUME NEW d \in Devices, Saved(d) \/ Read(d)
      PROVE  page'[e].due # "media" /\ Sees(e, m)'
  BY <1>2, <1>4, SavedDoes, ReadDoes DEF SavedDo, ReadDo, Answered, Leaving
<1>5. ASSUME NEW d \in Devices, Cleared(d)
      PROVE  page'[e].due # "media" /\ Sees(e, m)'
  <2>1. PICK h \in Media : h = Head(op.out)
    BY <1>5, ClearedDoes DEF ClearedDo
  <2>2. Answered(d, "clearing") /\ owner' = Abroad(h)
    BY <1>5, <2>1, ClearedDoes DEF ClearedDo, Goes
  <2>3. owner'[m] = IF m = h THEN None ELSE owner[m]
    BY <2>2 DEF Abroad, Types, BenchTypes
  <2>4. m # h /\ owner[m] = e
    BY <2>3, DevicesAssumption
  <2> QED
    BY <1>2, <2>1, <2>2, <2>4 DEF Answered, Leaving
<1>6. ASSUME NEW d \in Devices, Inserted(d)
      PROVE  page'[e].due # "media" /\ Sees(e, m)'
  <2>1. Answered(d, "inserting") /\ op.m \in Media /\ owner' = [owner EXCEPT ![op.m] = d]
    BY <1>6, InsertedDoes DEF InsertedDo
  <2>2. owner'[m] = IF m = op.m THEN d ELSE owner[m]
    BY <2>1 DEF Types, BenchTypes
  <2>3. UNCHANGED <<page, worker>> /\ op.at = "inserting"
    BY <2>1 DEF Answered
  <2>4. CASE m # op.m
    BY <1>2, <2>2, <2>3, <2>4 DEF Leaving
  <2>5. CASE m = op.m
    <3>1. e = d /\ Inserting(m, d)
      BY <2>1, <2>2, <2>5 DEF Inserting, Answered, Types, Planned
    <3>2. AllIdle /\ AtGallery(d) /\ Steady(d)
      BY <1>6, OverCarries
    <3>3. No(toPage[d], Of({"insert"})) /\ No(toWorker[d], Of({"insert"}))
      BY <3>2, Emptied, InsertCommand DEF AtGallery, No
    <3>4. m \in worker[d].reader
      BY <3>1, <3>3 DEF InsertedThen, Insertable, InsertComing
    <3>5. worker[d].phase = "running" /\ page[d].due = "no"
      BY <3>2 DEF Steady, Up, Running
    <3> QED
      BY <2>3, <3>1, <3>4, <3>5 DEF Sees
  <2> QED
    BY <2>4, <2>5
<1>7. ASSUME NEW d \in Devices, HearsAwaiting(d) \/ HearsState(d)
      PROVE  page'[e].due # "media" /\ Sees(e, m)'
  BY <1>2, <1>7 DEF HearsAwaiting, HearsState, bench, Leaving
<1>8. ASSUME NEW d \in Devices, Device(d) \/ Firmware(d)
      PROVE  page'[e].due # "media" /\ Sees(e, m)'
  BY <1>1, <1>2, <1>8, DeviceAside, DeviceThere DEF bench, Leaving, Elsewhere, Same
<1>9. ASSUME NEW d \in Devices, Interruption(d)
      PROVE  page'[e].due # "media" /\ Sees(e, m)'
  <2>1. Elsewhere(d) /\ op' = op
    BY <1>9, InterruptionLives DEF Lives
  <2>2. owner' = owner
    BY <1>9 DEF Interruption, RestartButton, Reboot, Reload, Crash
  <2>3. CASE e = d
    BY <1>1, <1>9, <2>1, <2>2, <2>3, InterruptionThere DEF There, Leaving
  <2>4. CASE e # d
    BY <1>2, <2>1, <2>2, <2>4 DEF Elsewhere, Same, Leaving
  <2> QED
    BY <2>3, <2>4
<1>10. CASE UNCHANGED vars
  BY <1>2, <1>10 DEF vars, pageVars, bench, Leaving
<1> QED
  BY <1>3, <1>4, <1>5, <1>6, <1>7, <1>8, <1>9, <1>10 DEF Step

LInv == IInv /\ OneEach /\ InsertedThen /\ Present

LEMMA LInvInit == Init => LInv
<1> SUFFICES ASSUME Init
             PROVE  LInv
  OBVIOUS
<1>1. IInv
  BY IInvInit
<1>2. op = NoOp /\ \A m \in Media : owner[m] = None
  BY DEF Init
<1>3. OneEach
  BY <1>2, NoOpFields DEF OneEach, OneCard, ReaderFree, Media
<1>4. InsertedThen
  BY <1>2, NoOpFields DEF InsertedThen, Insertable, Inserting
<1>5. Present
  BY <1>2, DevicesAssumption DEF Present, There
<1> QED
  BY <1>1, <1>3, <1>4, <1>5 DEF LInv

LEMMA LInvKept ==
  ASSUME ~Overlap, ~Stalls, ~GalleryExpires, "reload" \notin Upsets, LInv, [Next]_vars
  PROVE  LInv'
BY Possible, IInvKept, OneEachKept, InsertedThenKept, PresentKept DEF LInv, IInv

LEMMA LabelsTold ==
  ASSUME LInv
  PROVE  LabelsAreTrue
<1>0. Types /\ Lives /\ Agreement /\ Placed /\ Present
  BY DEF LInv, IInv
<1> SUFFICES ASSUME AtRest, NEW m \in Media, NEW d \in Devices
             PROVE  /\ m \in worker[d].reader <=> owner[m] = d
                    /\ page[d].reader = worker[d].reader
                    /\ owner[m] # d => worker[d].files[m] = 0
  BY DEF LabelsAreTrue
<1>1. op.at = "idle" /\ worker[d].phase = "running"
  BY DEF AtRest, busy
<1>2. owner[m] = d => m \in worker[d].reader
  BY <1>0, <1>1 DEF Present, There, Sees, Leaving
<1>3. owner[m] # d => m \notin worker[d].reader /\ worker[d].files[m] = 0
  BY <1>0, <1>1 DEF Placed, Held, Inserting, Clean
<1>4. page[d].reader = worker[d].reader
  BY <1>0, Fields, RestReader DEF Types
<1> QED
  BY <1>2, <1>3, <1>4

\* Whenever everything came to rest, the firmware of the device that the gallery
\* names sees the medium, no other device does or has its files, and what the page
\* remembers for its next worker is what this one has: for any number of devices,
\* cards, transfers, restarts, reboots and crashes.  A page that is loaded again
\* is left out: it is given the files and not told that they are inserted, and
\* then the label is not true.
THEOREM TrueLabels ==
  ASSUME ~Overlap, ~Stalls, ~GalleryExpires, "reload" \notin Upsets
  PROVE  Spec => []LabelsAreTrue
<1>1. Init => LInv
  BY LInvInit
<1>2. LInv /\ [Next]_vars => LInv'
  BY LInvKept
<1>3. LInv => LabelsAreTrue
  BY LabelsTold
<1> QED
  BY <1>1, <1>2, <1>3, PTL DEF Spec

-----------------------------------------------------------------------------
(* No copy of a medium's bytes is newer than the newest: of a device, of    *)
(* the gallery, on the way, or at the time base remembers.                  *)
AtMost(f, g) == \A m \in Media : f[m] <= g[m]
Within(d, g) ==
  /\ AtMost(page[d].files, g) /\ AtMost(worker[d].files, g)
  /\ \A c \in In(toPage[d]) : AtMost(c.files, g)
  /\ \A c \in In(toWorker[d]) : AtMost(c.files, g)
  /\ \A c \in In(fromWorker[d]) : AtMost(c.files, g)
  /\ \A c \in In(toParent[d]) : c.type = "snapshot" => AtMost(c.files, g)
KnownAt(d) == Within(d, latest)
NoneNewer  == AtMost(kept, latest) /\ AtMost(base, latest) /\ \A d \in Devices : KnownAt(d)

LEMMA AtMostAtMost ==
  ASSUME NEW f \in [Media -> Versions], NEW g \in [Media -> Versions], NEW h \in [Media -> Versions],
         AtMost(f, g), AtMost(g, h)
  PROVE  AtMost(f, h)
BY DEF AtMost, Versions

LEMMA NoFilesAtMost ==
  ASSUME NEW g \in [Media -> Versions]
  PROVE  AtMost(NoFiles, g)
BY DEF AtMost, Versions, NoFiles

\* One more version.
LEMMA MoreAtMost ==
  ASSUME NEW g \in [Media -> Versions], NEW m \in Media
  PROVE  /\ AtMost(g, [g EXCEPT ![m] = g[m] + 1]) /\ AtMost(g, g)
         /\ [g EXCEPT ![m] = g[m] + 1][m] = g[m] + 1
BY DEF AtMost, Versions

LEMMA OneAtMost ==
  ASSUME NEW f \in [Media -> Versions], NEW g \in [Media -> Versions], NEW h, AtMost(f, g), NEW m \in Media,
         \A n \in Media \ {m} : h[n] = f[n], h[m] <= g[m]
  PROVE  AtMost(h, g)
BY DEF AtMost, Versions

LEMMA MessageFiles ==
  ASSUME ChannelTypes, NEW d \in Devices
  PROVE  /\ \A c \in In(toPage[d]) : c.files \in [Media -> Versions]
         /\ \A c \in In(toWorker[d]) : c.files \in [Media -> Versions]
         /\ \A c \in In(fromWorker[d]) : c.files \in [Media -> Versions]
         /\ \A c \in In(toParent[d]) : c.files \in [Media -> Versions]
<1>1. /\ In(toPage[d]) \subseteq PageMessages /\ In(toWorker[d]) \subseteq WorkerMessages
      /\ In(fromWorker[d]) \subseteq Reports /\ In(toParent[d]) \subseteq ParentMessages
  BY ChannelsOf DEF In
<1> QED
  BY <1>1 DEF PageMessages, WorkerMessages, Reports, ParentMessages, Addressed, Message

LEMMA WithinMore ==
  ASSUME DeviceTypes, ChannelTypes, NEW d \in Devices, NEW h \in [Media -> Versions],
         AtMost(latest, h), KnownAt(d)
  PROVE  Within(d, h)
BY AtMostAtMost, Fields, MessageFiles DEF DeviceTypes, Within, KnownAt

LEMMA HandledGrows ==
  ASSUME DeviceTypes, ChannelTypes, NEW d \in Devices, WorkerHandles(d)
  PROVE  AtMost(latest, latest')
<1> DEFINE c == toWorker[d][1]
<1>1. c \in WorkerMessages /\ HandledAs(d, c)
  BY HandlesDoes
<1>2. c.type \in {"snapshot", "card-list"} \cup Commands /\ (c.type \in Commands => c.m \in Media)
  BY <1>1 DEF WorkerMessages, Addressed, Message
<1> HIDE DEF c
<1>3. latest' = latest \/ \E m \in Media : latest' = [latest EXCEPT ![m] = latest[m] + 1]
  BY <1>1, <1>2 DEF HandledAs, Commands
<1>4. AtMost(latest, latest)
  BY DEF AtMost, DeviceTypes, Versions
<1> QED
  BY <1>3, <1>4, MoreAtMost DEF DeviceTypes

LEMMA LatestGrows ==
  ASSUME Types, Step
  PROVE  AtMost(latest, latest')
<1>0. DeviceTypes /\ ChannelTypes /\ latest \in [Media -> Versions] /\ SD \in Media
  BY DEF Types, DeviceTypes, Media
<1>1. AtMost(latest, latest)
  BY <1>0 DEF AtMost, Versions
<1>2. CASE User
  <2>1. latest' = latest \/ latest' = [latest EXCEPT ![SD] = latest[SD] + 1]
    BY <1>2 DEF User, Eject, Move, Reset, Edit, Refresh, NewVersion
  <2> QED
    BY <1>0, <1>1, <2>1, MoreAtMost
<1>3. ASSUME NEW d \in Devices, Device(d) \/ Firmware(d)
      PROVE  AtMost(latest, latest')
  <2>1. CASE WorkerHandles(d)
    BY <1>0, <2>1, HandledGrows
  <2>2. ASSUME NEW m \in Media, FirmwareWrites(d, m)
        PROVE  AtMost(latest, latest')
    BY <1>0, <2>2, WritesDoes, MoreAtMost
  <2>3. CASE PageSteps(d) \/ WorkerReady(d) \/ WorkerRuns(d)
    <3>1. latest' = latest
      BY <2>3 DEF PageSteps, PageProvided, PageExports, PageForwards, PageRestarts, PageReboots, PageSeesRunning,
                  PageSeesSd, PageSeesCard, PageSnapshot, PageStarts, PageTimeout, WorkerReady, WorkerRuns
    <3> QED
      BY <1>1, <3>1
  <2> QED
    BY <1>3, <2>1, <2>2, <2>3 DEF Device, Firmware, WorkerSteps
<1>4. ASSUME NEW d \in Devices, Saved(d) \/ Cleared(d) \/ Inserted(d) \/ Read(d)
      PROVE  latest' = latest
  BY <1>4 DEF Saved, Cleared, Inserted, Read, Continues
<1>5. ASSUME NEW d \in Devices, HearsAwaiting(d) \/ HearsState(d)
      PROVE  latest' = latest
  BY <1>5 DEF HearsAwaiting, HearsState
<1>6. ASSUME NEW d \in Devices, Interruption(d)
      PROVE  latest' = latest
  BY <1>6 DEF Interruption, RestartButton, Reboot, FirmwareReboots, Crash, WorkerCrashes, Reload
<1>7. CASE UNCHANGED vars
  BY <1>1, <1>7 DEF vars, pageVars
<1> QED
  BY <1>1, <1>2, <1>3, <1>4, <1>5, <1>6, <1>7 DEF Step

\* What is sent to the gallery is what the worker answered.
LEMMA DeviceParent ==
  ASSUME DeviceTypes, ChannelTypes, ~Stalls, NEW d \in Devices, Life(d), Device(d) \/ Firmware(d),
         NEW c \in In(toParent'[d]), c.type = "snapshot"
  PROVE  \/ c \in In(toParent[d])
         \/ /\ fromWorker[d] # <<>> /\ fromWorker[d][1].type = "snapshot" /\ c.files = fromWorker[d][1].files
            /\ \E a \in page[d].asked : a.for = "parent" /\ a.id = fromWorker[d][1].id
<1>1. CASE Quiet(d)
  BY <1>1, QuietParentKeeps DEF Quiet
<1>2. CASE Passes(d)
  <2>1. PICK a \in page[d].asked :
          /\ a.for = "parent" /\ fromWorker[d] # <<>>
          /\ fromWorker[d][1].type = "snapshot" /\ a.id = fromWorker[d][1].id
          /\ toParent'[d] = Append(toParent[d], Snapshot(a.request, fromWorker[d][1].files))
    BY <1>2 DEF Passes
  <2>2. fromWorker[d][1] \in Reports /\ a.request \in Ids \cup {0}
    BY <2>1, Fields, ChannelsOf DEF Requests
  <2> DEFINE x == Snapshot(a.request, fromWorker[d][1].files)
  <2>3. x \in ParentMessages /\ x.files = fromWorker[d][1].files
    BY <2>2, SnapshotTypes, SnapshotFields DEF Reports, Message
  <2> HIDE DEF x
  <2>4. toParent'[d] = Append(toParent[d], x)
    BY <2>1 DEF x
  <2>5. Pushes(ParentMessages, toParent[d], toParent'[d], x)
    BY <2>3, <2>4, ParentPushed
  <2>6. In(toParent'[d]) = In(toParent[d]) \cup {x}
    BY <2>5 DEF Pushes
  <2> QED
    BY <2>1, <2>3, <2>6
<1>3. CASE toParent'[d] = toParent[d]
  BY <1>3
<1>4. Quiet(d) \/ Passes(d) \/ toParent'[d] = toParent[d]
  <2>1. ASSUME NEW a \in page[d].asked, PageTimeout(d, a)
        PROVE  FALSE
    BY <2>1, TimeoutLives
  <2>2. CASE PageExports(d)
    BY <2>2, ExportsLives, ExportsDoes DEF Up, Running
  <2>3. CASE PageForwards(d) \/ WorkerHandles(d)
    BY <2>3, ForwardsDoes, HandlesDoes
  <2>4. CASE PageSnapshot(d)
    BY <2>4, SnapshotQuiet
  <2> QED
    BY <2>1, <2>2, <2>3, <2>4, PageStepsQuiet, WorkerStepsQuiet DEF Device, Firmware, PageSteps, WorkerSteps
<1> QED
  BY <1>1, <1>2, <1>3, <1>4

\* A worker reports its files or none.
LEMMA HandleReports ==
  ASSUME DeviceTypes, ChannelTypes, NEW d \in Devices, WorkerHandles(d), NEW x \in In(fromWorker'[d])
  PROVE  \/ x \in In(fromWorker[d])
         \/ x.type = "snapshot" /\ x.files = worker[d].files
         \/ x.type # "snapshot" /\ x.files = NoFiles
<1> DEFINE c == toWorker[d][1]
<1>1. c \in WorkerMessages /\ HandledAs(d, c) /\ DeviceTypes'
  BY HandlesDoes
<1>2. c.type \in {"snapshot", "card-list"} \cup Commands /\ c.id \in Ids \cup {0}
  BY <1>1 DEF WorkerMessages, Addressed, Message
<1> HIDE DEF c
<1>3. ASSUME NEW type \in {"sd-state", "card-state"}, Says(d, type)
      PROVE  x \in In(fromWorker[d]) \/ (x.type # "snapshot" /\ x.files = NoFiles)
  <2>1. PICK y : y = Report(type, worker'[d].reader)
    OBVIOUS
  <2>2. worker'[d].reader \in SUBSET Media
    BY <1>1 DEF DeviceTypes, WorkerStates
  <2>3. y \in Reports /\ y.type = type /\ y.files = NoFiles
    BY <2>1, <2>2, ReportTypes, ReportFields
  <2>4. In(fromWorker'[d]) = In(fromWorker[d]) \cup {y}
    BY <1>3, <2>1, <2>3, ReportPushed DEF Pushes, Says
  <2> QED
    BY <2>3, <2>4
<1>4. CASE c.type = "snapshot"
  <2>1. PICK y : y = Snapshot(c.id, worker[d].files)
    OBVIOUS
  <2>2. y \in Reports /\ y.type = "snapshot" /\ y.files = worker[d].files
    <3>1. worker[d].files \in [Media -> Versions]
      BY Fields
    <3>2. y \in Reports
      BY <1>2, <2>1, <3>1, SnapshotTypes
    <3>3. y.type = "snapshot" /\ y.files = worker[d].files
      BY <2>1, SnapshotFields
    <3> QED
      BY <3>2, <3>3
  <2>3. fromWorker'[d] = Append(fromWorker[d], y)
    BY <1>1, <1>4, <2>1 DEF HandledAs
  <2>4. In(fromWorker'[d]) = In(fromWorker[d]) \cup {y}
    BY <2>2, <2>3, ReportPushed DEF Pushes
  <2> QED
    BY <2>2, <2>4
<1>5. CASE c.type = "edit"
  BY <1>1, <1>5 DEF HandledAs
<1>6. CASE c.type \notin {"snapshot", "edit"}
  BY <1>1, <1>2, <1>3, <1>6 DEF HandledAs, Commands, Rep
<1> QED
  BY <1>4, <1>5, <1>6

\* What a worker has after a command is what it had, what it was sent, nothing,
\* or a version of its own.
LEMMA HandleFiles ==
  ASSUME DeviceTypes, ChannelTypes, NEW d \in Devices, WorkerHandles(d)
  PROVE  \/ worker'[d].files = worker[d].files
         \/ /\ toWorker[d] # <<>> /\ toWorker[d][1] \in In(toWorker[d])
            /\ toWorker[d][1].m \in Media /\ Only(d, toWorker[d][1].m)
            /\ \/ worker'[d].files[toWorker[d][1].m] = 0
               \/ worker'[d].files[toWorker[d][1].m] = worker[d].files[toWorker[d][1].m]
               \/ worker'[d].files[toWorker[d][1].m] = toWorker[d][1].files[toWorker[d][1].m]
               \/ worker'[d].files[toWorker[d][1].m] = latest'[toWorker[d][1].m]
<1> DEFINE c == toWorker[d][1]
<1>1. toWorker[d] # <<>> /\ c \in WorkerMessages /\ HandledAs(d, c) /\ toWorker'[d] = Tail(toWorker[d])
  BY HandlesDoes
<1>2. c \in In(toWorker[d])
  BY <1>1, WorkerPopped DEF Pops
<1>3. c.type \in {"snapshot", "card-list"} \cup Commands /\ (c.type \in Commands => c.m \in Media)
  BY <1>1 DEF WorkerMessages, Addressed, Message
<1>4. latest \in [Media -> Versions]
  BY DEF DeviceTypes
<1> HIDE DEF c
<1> SUFFICES \/ worker'[d].files = worker[d].files
             \/ /\ c.m \in Media /\ Only(d, c.m)
                /\ \/ worker'[d].files[c.m] = 0 \/ worker'[d].files[c.m] = worker[d].files[c.m]
                   \/ worker'[d].files[c.m] = c.files[c.m] \/ worker'[d].files[c.m] = latest'[c.m]
  BY <1>1, <1>2 DEF c
<1>5. CASE c.type \in {"snapshot", "card-list", "eject"}
  BY <1>1, <1>5 DEF HandledAs
<1>6. CASE c.type = "import"
  BY <1>1, <1>3, <1>6 DEF HandledAs, Commands
<1>7. CASE c.type = "remove"
  BY <1>1, <1>3, <1>7 DEF HandledAs, Commands
<1>8. CASE c.type = "edit"
  BY <1>1, <1>3, <1>4, <1>8 DEF HandledAs, Commands
<1>9. CASE c.type = "insert"
  <2>1. c.m \in Media /\ Only(d, c.m)
    BY <1>1, <1>3, <1>9 DEF HandledAs, Commands
  <2>2. CASE c.m \in Cards /\ worker[d].files[c.m] = 0
    BY <1>1, <1>4, <1>9, <2>1, <2>2 DEF HandledAs
  <2>3. CASE ~(c.m \in Cards /\ worker[d].files[c.m] = 0)
    BY <1>1, <1>9, <2>1, <2>3 DEF HandledAs
  <2> QED
    BY <2>2, <2>3
<1> QED
  BY <1>3, <1>5, <1>6, <1>7, <1>8, <1>9 DEF Commands

\* A device learns of no newer version than there is.
LEMMA PageWithin ==
  ASSUME NEW d \in Devices, NEW h, Within(d, h), PageLearns(d)
  PROVE  AtMost(page'[d].files, h)
BY DEF Within, PageLearns

LEMMA WorkWithin ==
  ASSUME ChannelTypes, NEW d \in Devices, NEW h \in [Media -> Versions], Within(d, h), MoreWork(d)
  PROVE  \A c \in In(toWorker'[d]) : AtMost(c.files, h)
<1>1. ASSUME NEW x \in WorkerMessages, Blank(x), toWorker'[d] = Append(toWorker[d], x)
      PROVE  \A c \in In(toWorker'[d]) : AtMost(c.files, h)
  <2>1. In(toWorker'[d]) = In(toWorker[d]) \cup {x}
    BY <1>1, WorkerPushed DEF Pushes
  <2>2. AtMost(x.files, h)
    BY <1>1, NoFilesAtMost DEF Blank
  <2> QED
    BY <2>1, <2>2 DEF Within
<1> QED
  BY <1>1 DEF MoreWork, Within

LEMMA ReportsWithin ==
  ASSUME ChannelTypes, NEW d \in Devices, NEW h \in [Media -> Versions], Within(d, h), OtherReports(d)
  PROVE  \A c \in In(fromWorker'[d]) : AtMost(c.files, h)
<1>1. ASSUME NEW x \in Reports, Blank(x), fromWorker'[d] = Append(fromWorker[d], x)
      PROVE  \A c \in In(fromWorker'[d]) : AtMost(c.files, h)
  <2>1. In(fromWorker'[d]) = In(fromWorker[d]) \cup {x}
    BY <1>1, ReportPushed DEF Pushes
  <2>2. AtMost(x.files, h)
    BY <1>1, NoFilesAtMost DEF Blank
  <2> QED
    BY <2>1, <2>2 DEF Within
<1>2. ASSUME fromWorker[d] # <<>>, fromWorker'[d] = Tail(fromWorker[d])
      PROVE  In(fromWorker'[d]) \subseteq In(fromWorker[d])
  BY <1>2, ReportPopped DEF Pops
<1> QED
  BY <1>1, <1>2 DEF OtherReports, Within

LEMMA ToPageWithin ==
  ASSUME ChannelTypes, NEW d \in Devices, NEW h, Within(d, h),
         toPage'[d] = toPage[d] \/ (toPage[d] # <<>> /\ toPage'[d] = Tail(toPage[d]))
  PROVE  \A c \in In(toPage'[d]) : AtMost(c.files, h)
BY PagePopped DEF Pops, Within

LEMMA KindsWithin ==
  ASSUME DeviceTypes, ChannelTypes, NEW d \in Devices, latest' \in [Media -> Versions], Within(d, latest'),
         Kinds(d)
  PROVE  /\ AtMost(page'[d].files, latest') /\ AtMost(worker'[d].files, latest')
         /\ \A c \in In(toPage'[d]) : AtMost(c.files, latest')
         /\ \A c \in In(toWorker'[d]) : AtMost(c.files, latest')
         /\ \A c \in In(fromWorker'[d]) : AtMost(c.files, latest')
<1> DEFINE Q == /\ AtMost(page'[d].files, latest') /\ AtMost(worker'[d].files, latest')
                /\ \A c \in In(toPage'[d]) : AtMost(c.files, latest')
                /\ \A c \in In(toWorker'[d]) : AtMost(c.files, latest')
                /\ \A c \in In(fromWorker'[d]) : AtMost(c.files, latest')
<1>1. CASE Passive(d)
  BY <1>1, PageWithin, ToPageWithin, WorkWithin, ReportsWithin DEF Passive, Untouched, Within,
     LessAtPage
<1>2. CASE Launched(d)
  BY <1>2, PageWithin, Emptied DEF Launched, Within
<1>3. CASE PageForwards(d)
  <2>1. /\ UNCHANGED <<page, worker, fromWorker>> /\ toPage[d] # <<>> /\ toPage'[d] = Tail(toPage[d])
        /\ toPage[d][1] \in WorkerMessages
        /\ toWorker'[d] = toWorker[d] \/ toWorker'[d] = Append(toWorker[d], toPage[d][1])
    BY <1>3, ForwardsDoes
  <2>2. toPage[d][1] \in In(toPage[d])
    BY <2>1, PagePopped DEF Pops
  <2>3. In(toWorker'[d]) \subseteq In(toWorker[d]) \cup {toPage[d][1]}
    BY <2>1, WorkerPushed DEF Pushes
  <2>4. \A c \in In(toPage'[d]) : AtMost(c.files, latest')
    BY <2>1, ToPageWithin
  <2> QED
    BY <2>1, <2>2, <2>3, <2>4 DEF Within
<1>4. CASE WorkerHandles(d)
  <2>1. /\ UNCHANGED <<page, toPage>> /\ toWorker[d] # <<>> /\ toWorker'[d] = Tail(toWorker[d]) /\ DeviceTypes'
    BY <1>4, HandlesDoes
  <2>2. In(toWorker'[d]) \subseteq In(toWorker[d])
    BY <2>1, WorkerPopped DEF Pops
  <2>3. \A c \in In(fromWorker'[d]) : AtMost(c.files, latest')
    BY <1>4, HandleReports, NoFilesAtMost DEF Within
  <2>4. AtMost(worker'[d].files, latest')
    <3>1. CASE worker'[d].files = worker[d].files
      BY <3>1 DEF Within
    <3>2. ASSUME NEW c \in In(toWorker[d]), c.m \in Media, Only(d, c.m),
                 \/ worker'[d].files[c.m] = 0 \/ worker'[d].files[c.m] = worker[d].files[c.m]
                 \/ worker'[d].files[c.m] = c.files[c.m] \/ worker'[d].files[c.m] = latest'[c.m]
          PROVE  AtMost(worker'[d].files, latest')
      <4>1. worker[d].files \in [Media -> Versions] /\ worker'[d].files \in [Media -> Versions]
        BY <2>1, Fields DEF DeviceTypes, WorkerStates
      <4>2. PICK m \in Media : m = c.m
        BY <3>2
      <4>3. AtMost(c.files, latest') /\ AtMost(worker[d].files, latest')
        BY DEF Within
      <4>4. worker'[d].files[m] <= latest'[m]
        BY <3>2, <4>1, <4>2, <4>3 DEF AtMost, Versions
      <4> QED
        BY <3>2, <4>1, <4>2, <4>3, <4>4, OneAtMost DEF Only
    <3> QED
      BY <1>4, <3>1, <3>2, HandleFiles
  <2> QED
    BY <2>1, <2>2, <2>3, <2>4 DEF Within
<1>5. ASSUME NEW m \in Media, FirmwareWrites(d, m)
      PROVE  Q
  <2>1. /\ worker'[d].files[m] = latest[m] + 1 /\ Only(d, m) /\ latest' = [latest EXCEPT ![m] = latest[m] + 1]
        /\ UNCHANGED <<page, toPage, toWorker, fromWorker>>
    BY <1>5, WritesDoes
  <2>2. worker'[d].files[m] <= latest'[m]
    BY <2>1 DEF DeviceTypes, Versions
  <2>3. worker[d].files \in [Media -> Versions] /\ AtMost(worker[d].files, latest')
    BY Fields DEF Within
  <2>4. AtMost(worker'[d].files, latest')
    BY <2>1, <2>2, <2>3, OneAtMost DEF Only
  <2> QED
    BY <2>1, <2>4 DEF Within
<1> QED
  BY <1>1, <1>2, <1>3, <1>4, <1>5 DEF Kinds

LEMMA DeviceWithin ==
  ASSUME ~Stalls, Types, NEW d \in Devices, Life(d), latest' \in [Media -> Versions], Within(d, latest'),
         Device(d) \/ Firmware(d)
  PROVE  KnownAt(d)'
<1>0. DeviceTypes /\ ChannelTypes
  BY DEF Types
<1>1. \A c \in In(toParent'[d]) : c.type = "snapshot" => AtMost(c.files, latest')
  <2> SUFFICES ASSUME NEW c \in In(toParent'[d]), c.type = "snapshot"
               PROVE  AtMost(c.files, latest')
    OBVIOUS
  <2>1. ASSUME fromWorker[d] # <<>>
        PROVE  fromWorker[d][1] \in In(fromWorker[d])
    BY <1>0, <2>1, ReportHead
  <2> QED
    BY <1>0, <2>1, DeviceParent DEF Within
<1>2. Kinds(d)
  BY <1>0, DeviceKinds
<1> QED
  BY <1>0, <1>1, <1>2, KindsWithin DEF KnownAt, Within

\* What the gallery sends to a page is nothing newer.
LEMMA SentWithin ==
  ASSUME ChannelTypes, NEW d \in Devices, NEW h, Within(d, h), NEW msgs \in Seq(PageMessages),
         \A c \in In(msgs) : AtMost(c.files, h), toPage'[d] = toPage[d] \o msgs
  PROVE  \A c \in In(toPage'[d]) : AtMost(c.files, h)
<1>1. toPage[d] \in Seq(PageMessages)
  BY ChannelsOf
<1>2. Joins(PageMessages, toPage[d], msgs, toPage'[d])
  BY <1>1, Joined
<1> QED
  BY <1>2 DEF Joins, Within

LEMMA AskedWithin ==
  ASSUME ChannelTypes, NEW d \in Devices, NEW h \in [Media -> Versions], Within(d, h),
         NEW commands \in Seq(PageMessages), \A c \in In(commands) : AtMost(c.files, h),
         NEW next, Asks(d, commands, next) \/ Rejects(d, commands)
  PROVE  \A c \in In(toPage'[d]) : AtMost(c.files, h)
<1>1. ASSUME Asks(d, commands, next)
      PROVE  \A c \in In(toPage'[d]) : AtMost(c.files, h)
  <2>1. op'.id \in Ids /\ toPage'[d] = toPage[d] \o Append(commands, Export(op'.id))
    BY <1>1 DEF Asks
  <2> DEFINE x == Export(op'.id)
             t == Append(commands, x)
  <2>2. x \in PageMessages /\ x.files = NoFiles
    BY <2>1, NoFilesType, SnapshotTypes, ExportFields
  <2> HIDE DEF x
  <2>3. t \in Seq(PageMessages) /\ In(t) = In(commands) \cup {x}
    <3>1. Pushes(PageMessages, commands, t, x)
      BY <2>2, Pushed
    <3> QED
      BY <2>2, <3>1, AppendFacts DEF Pushes
  <2> HIDE DEF t
  <2>4. \A c \in In(t) : AtMost(c.files, h)
    BY <2>2, <2>3, NoFilesAtMost
  <2> QED
    BY <2>1, <2>3, <2>4, SentWithin DEF t, x
<1>2. ASSUME Rejects(d, commands)
      PROVE  \A c \in In(toPage'[d]) : AtMost(c.files, h)
  BY <1>2, SentWithin DEF Rejects
<1> QED
  BY <1>1, <1>2

LEMMA CommandsWithin ==
  ASSUME NEW h \in [Media -> Versions]
  PROVE  /\ \A c \in In(<<>>) : AtMost(c.files, h)
         /\ \A m \in Media : \A c \in In(Removal(m)) : AtMost(c.files, h)
         /\ \A c \in In(<<Command("edit", SD)>>) : AtMost(c.files, h)
BY CommandFields, NoFilesAtMost, Emptied, Single, TwoIn DEF Removal

LEMMA InsertionWithin ==
  ASSUME NEW h \in [Media -> Versions], NEW o, o.m \in Media, kept' \in [Media -> Versions], AtMost(kept', h)
  PROVE  \A c \in In(Insertion(o)) : AtMost(c.files, h)
<1> DEFINE c == [Command("import", o.m) EXCEPT !.files = CopyOf(o.m, kept')]
           i == Command("insert", o.m)
<1>1. c.files = CopyOf(o.m, kept') /\ i.files = NoFiles
  BY CommandFields DEF Command, Plain
<1>2. AtMost(CopyOf(o.m, kept'), h)
  BY DEF CopyOf, NoFiles, AtMost, Versions
<1>3. In(Insertion(o)) = {c, i}
  BY TwoIn DEF Insertion
<1> QED
  BY <1>1, <1>2, <1>3, NoFilesAtMost

LEMMA GoesWithin ==
  ASSUME ChannelTypes, NEW h \in [Media -> Versions], \A e \in Devices : Within(e, h),
         NEW o \in Operations, NEW own, Goes(o, own), kept' \in [Media -> Versions], AtMost(kept', h),
         NEW e \in Devices
  PROVE  \A c \in In(toPage'[e]) : AtMost(c.files, h)
<1>1. o.m \in Media /\ (e # Where(o, own) => toPage'[e] = toPage[e])
  BY DEF Goes, Plannable
<1>2. CASE toPage'[e] = toPage[e]
  BY <1>2 DEF Within
<1>3. CASE e = Where(o, own) /\ o.out # <<>>
  <2>1. /\ e = own[Head(o.out)]
        /\ Asks(e, <<>>, [o EXCEPT !.at = "saving"]) \/ Rejects(e, <<>>)
    BY <1>3 DEF Goes, Where, Detaches, Inserts, Ends
  <2>2. <<>> \in Seq(PageMessages)
    OBVIOUS
  <2> QED
    BY <2>1, <2>2, CommandsWithin, AskedWithin
<1>4. CASE e = Where(o, own) /\ o.out = <<>> /\ toPage'[e] # toPage[e]
  BY <1>1, <1>4, InsertionTypes, InsertionWithin, AskedWithin DEF Goes, Where, Detaches, Inserts,
     Ends
<1> QED
  BY <1>1, <1>2, <1>3, <1>4

LEMMA CurrentAtMost ==
  ASSUME DeviceTypes, BenchTypes, NoneNewer
  PROVE  AtMost(Current, latest)
<1> SUFFICES ASSUME NEW m \in Media
             PROVE  Bytes(m) <= latest[m]
  BY DEF AtMost, Current
<1>1. CASE owner[m] = None
  BY <1>1 DEF Bytes, NoneNewer, AtMost
<1>2. CASE owner[m] \in Devices
  BY <1>2, DevicesAssumption DEF NoneNewer, KnownAt, Within, AtMost, Bytes
<1> QED
  BY <1>1, <1>2 DEF BenchTypes

\* A device whose files and channels are as they were, its messages to the page
\* and to the gallery excepted.
LEMMA ChannelsWithin ==
  ASSUME ChannelTypes, NEW d \in Devices, Within(d, latest'), UNCHANGED <<page, worker, toWorker, fromWorker>>,
         \A c \in In(toPage'[d]) : AtMost(c.files, latest'),
         \/ toParent'[d] = toParent[d]
         \/ toParent[d] # <<>> /\ toParent'[d] = Tail(toParent[d])
  PROVE  KnownAt(d)'
<1>1. In(toParent'[d]) \subseteq In(toParent[d])
  BY ParentPopped DEF Pops
<1> QED
  BY <1>1 DEF KnownAt, Within

\* A device that is left alone.
LEMMA SameWithin ==
  ASSUME NEW e \in Devices, Same(e), Within(e, latest')
  PROVE  KnownAt(e)'
BY DEF Same, KnownAt, Within

\* The copy of one medium is replaced.
LEMMA OneWithin ==
  ASSUME NEW f \in [Media -> Versions], NEW h \in [Media -> Versions], AtMost(f, h), NEW m \in Media, NEW v, v <= h[m]
  PROVE  AtMost([f EXCEPT ![m] = v], h)
BY DEF AtMost, Versions

LEMMA UserCopies ==
  ASSUME Types, NoneNewer, User, Types', AtMost(latest, latest')
  PROVE  AtMost(kept', latest') /\ AtMost(base', latest')
<1>0. /\ kept \in [Media -> Versions] /\ latest \in [Media -> Versions] /\ latest' \in [Media -> Versions]
      /\ Current \in [Media -> Versions] /\ SD \in Media /\ Cards \subseteq Media
  BY CurrentType DEF Types, DeviceTypes, BenchTypes, Media
<1>1. AtMost(kept, latest')
  BY <1>0, AtMostAtMost DEF NoneNewer
<1>2. AtMost(Current, latest')
  BY <1>0, CurrentAtMost, AtMostAtMost DEF Types
<1>3. kept' = kept \/ (\E c \in Media : kept' = [kept EXCEPT ![c] = 0]) \/ kept' = [kept EXCEPT ![SD] = latest'[SD]]
  <2>1. CASE Edit
    BY <1>0, <2>1 DEF Edit
  <2>2. ASSUME NEW c \in Cards, Reset(c)
        PROVE  kept' = kept \/ kept' = [kept EXCEPT ![c] = 0]
    BY <2>2 DEF Reset
  <2>3. ASSUME NEW m \in Media, Eject(m) \/ Refresh \/ \E d \in Devices : Move(m, d)
        PROVE  kept' = kept
    BY <2>3 DEF Eject, Refresh, Move
  <2> QED
    BY <1>0, <2>1, <2>2, <2>3 DEF User
<1>4. base' = Current \/ \E c \in Media : base' = [Current EXCEPT ![c] = 0]
  BY <1>0 DEF User, Eject, Move, Reset, Edit, Refresh
<1>5. \A m \in Media : 0 <= latest'[m] /\ latest'[m] <= latest'[m]
  BY <1>0 DEF Versions
<1>6. AtMost(kept', latest')
  BY <1>0, <1>1, <1>3, <1>5, OneWithin
<1>7. AtMost(base', latest')
  BY <1>0, <1>2, <1>4, <1>5, OneWithin
<1> QED
  BY <1>6, <1>7

LEMMA UserWithin ==
  ASSUME Types, NoneNewer, User, AtMost(latest, latest')
  PROVE  NoneNewer'
<1>0. Types' /\ UserDoes
  BY UserTypes
<1>1. ChannelTypes /\ DeviceTypes /\ latest' \in [Media -> Versions] /\ kept' \in [Media -> Versions] /\ SD \in Media
  BY <1>0 DEF Types, DeviceTypes, BenchTypes, Media
<1>2. AtMost(kept', latest') /\ AtMost(base', latest')
  BY <1>0, UserCopies
<1>3. \A d \in Devices : Within(d, latest')
  BY <1>1, WithinMore DEF NoneNewer
<1>4. ASSUME NEW e \in Devices
      PROVE  KnownAt(e)'
  <2>1. \A c \in In(toPage'[e]) : AtMost(c.files, latest')
    <3>1. CASE toPage'[e] = toPage[e]
      BY <1>3, <3>1 DEF Within
    <3>2. ASSUME NEW o \in Operations, Goes(o, owner)
          PROVE  \A c \in In(toPage'[e]) : AtMost(c.files, latest')
      BY <1>1, <1>2, <1>3, <3>2, GoesWithin
    <3>3. ASSUME NEW commands \in Seq(PageMessages), Reads(commands), commands = <<>> \/ commands = <<Command("edit", SD)>>
          PROVE  \A c \in In(toPage'[e]) : AtMost(c.files, latest')
      BY <1>1, <1>3, <3>1, <3>3, CommandsWithin, AskedWithin DEF Reads
    <3> QED
      BY <1>0, <3>1, <3>2, <3>3 DEF UserDoes, Reads
  <2>2. UNCHANGED <<page, worker, toParent, toWorker, fromWorker>>
    BY <1>0 DEF UserDoes
  <2> QED
    BY <1>1, <1>3, <2>1, <2>2, ChannelsWithin
<1> QED
  BY <1>2, <1>4 DEF NoneNewer

\* An answer that the gallery saves is one of the device.
LEMMA AnswerWithin ==
  ASSUME Types, NoneNewer, NEW d \in Devices, NEW at, Continues(d, at)
  PROVE  /\ Answer(d) \in [Media -> Versions] /\ AtMost(Answer(d), latest) /\ latest' = latest
         /\ AtMost(base', latest) /\ Answer(d) = toParent[d][1].files
         /\ toParent[d][1] \in In(toParent[d]) /\ toParent[d][1].type = "snapshot"
<1>0. /\ DeviceTypes /\ ChannelTypes /\ latest \in [Media -> Versions] /\ base \in [Media -> Versions]
  BY DEF Types, DeviceTypes, BenchTypes
<1>1. Answered(d, at) /\ Answer(d) \in [Media -> Versions]
  BY ContinuesDoes
<1>2. toParent[d] # <<>> /\ toParent[d][1].type = "snapshot" /\ latest' = latest
  BY <1>1 DEF Answered
<1>3. Head(toParent[d]) = toParent[d][1] /\ toParent[d][1] \in In(toParent[d])
  BY <1>0, <1>2, ParentFirst
<1>4. AtMost(Answer(d), latest)
  BY <1>2, <1>3 DEF Answer, NoneNewer, KnownAt, Within
<1>5. base' = base \/ (op.m \in Media /\ base' = [base EXCEPT ![op.m] = 0])
  BY <1>1 DEF Continues, Answered, Types, Planned
<1>6. \A m \in Media : 0 <= latest[m]
  BY <1>0 DEF Versions
<1>7. AtMost(base', latest)
  BY <1>0, <1>5, <1>6, OneWithin DEF NoneNewer
<1> QED
  BY <1>1, <1>2, <1>3, <1>4, <1>7 DEF Answer

LEMMA BenchWithin ==
  ASSUME Types, NoneNewer, NEW d \in Devices, Saved(d) \/ Cleared(d) \/ Inserted(d) \/ Read(d)
  PROVE  NoneNewer'
<1>0. ChannelTypes /\ DeviceTypes /\ latest \in [Media -> Versions] /\ kept \in [Media -> Versions]
  BY DEF Types, DeviceTypes, BenchTypes
<1>1. PICK at \in {"saving", "clearing", "inserting", "reading"} : Continues(d, at)
  BY DEF Saved, Cleared, Inserted, Read
<1>2. /\ Answer(d) \in [Media -> Versions] /\ AtMost(Answer(d), latest) /\ latest' = latest /\ AtMost(base', latest)
      /\ Answered(d, at)
  BY <1>1, AnswerWithin, ContinuesDoes
<1>3. \A m \in Media : 0 <= latest[m] /\ Answer(d)[m] <= latest[m]
  BY <1>0, <1>2 DEF AtMost, Versions
<1>4. Types'
  BY SavedDoes, ClearedDoes, InsertedDoes, ReadDoes
<1>5. AtMost(kept', latest)
  <2>1. \/ kept' = kept
        \/ \E m \in Media : kept' = [kept EXCEPT ![m] = 0] \/ kept' = [kept EXCEPT ![m] = Answer(d)[m]]
    <3>1. CASE Saved(d)
      BY <3>1, SavedDoes DEF SavedDo, Saved
    <3>2. CASE Cleared(d)
      BY <3>2, ClearedDoes DEF ClearedDo, Answered, Types, Planned, Cleared
    <3>3. CASE Inserted(d)
      BY <3>3, InsertedDoes DEF InsertedDo, Inserted
    <3>4. CASE Read(d)
      BY <3>4, ReadDoes DEF ReadDo, Answered, Types, Planned, Media, Read
    <3> QED
      BY <3>1, <3>2, <3>3, <3>4
  <2>2. AtMost(kept, latest)
    BY DEF NoneNewer
  <2> QED
    BY <1>0, <1>3, <2>1, <2>2, OneWithin
<1>6. ASSUME NEW e \in Devices
      PROVE  KnownAt(e)'
  <2>1. /\ UNCHANGED <<page, worker, toWorker, fromWorker>> /\ Within(e, latest')
        /\ \/ toParent'[e] = toParent[e]
           \/ toParent[e] # <<>> /\ toParent'[e] = Tail(toParent[e])
    BY <1>2 DEF Answered, NoneNewer, KnownAt
  <2>2. \A c \in In(toPage'[e]) : AtMost(c.files, latest')
    <3>1. CASE toPage'[e] = toPage[e]
      BY <2>1, <3>1 DEF Within
    <3>2. CASE Saved(d)
      BY <1>0, <1>2, <2>1, <3>1, <3>2, SavedDoes, RemovalTypes, CommandsWithin, AskedWithin DEF
         SavedDo
    <3>3. CASE Cleared(d)
      <4>1. Goes(Rest, Abroad(Head(op.out))) /\ kept' \in [Media -> Versions]
        BY <1>4, <3>3, ClearedDoes DEF ClearedDo, Types, BenchTypes
      <4>2. Rest \in Operations
        BY <4>1 DEF Goes, Plannable
      <4>3. \A x \in Devices : Within(x, latest)
        BY DEF NoneNewer, KnownAt
      <4>4. \A c \in In(toPage'[e]) : AtMost(c.files, latest)
        BY <1>0, <1>5, <4>1, <4>2, <4>3, GoesWithin
      <4> QED
        BY <1>2, <4>4
    <3>4. CASE Inserted(d) \/ Read(d)
      BY <3>1, <3>4, InsertedDoes, ReadDoes DEF InsertedDo, ReadDo
    <3> QED
      BY <3>2, <3>3, <3>4
  <2> QED
    BY <1>0, <2>1, <2>2, ChannelsWithin
<1> QED
  BY <1>2, <1>5, <1>6 DEF NoneNewer

LEMMA AwaitingWithin ==
  ASSUME Types, NoneNewer, NEW d \in Devices, HearsAwaiting(d)
  PROVE  NoneNewer'
<1>0. ChannelTypes /\ DeviceTypes /\ BenchTypes /\ latest \in [Media -> Versions] /\ kept \in [Media -> Versions]
  BY DEF Types, DeviceTypes, BenchTypes
<1>1. /\ Elsewhere(d) /\ toParent[d] # <<>> /\ toParent'[d] = Tail(toParent[d])
      /\ UNCHANGED <<page, worker, toWorker, fromWorker, bench>>
  BY <1>0, AwaitingDoes
<1>2. latest' = latest
  BY DEF HearsAwaiting
<1>3. PICK files \in [Media -> Versions] :
        /\ \A m \in Media : files[m] = IF owner[m] = d THEN kept[m] ELSE 0
        /\ toPage'[d] = Append(toPage[d], [Plain("provide") EXCEPT !.files = files])
  BY <1>0, AwaitingDoes
<1>4. AtMost(files, latest)
  <2> SUFFICES ASSUME NEW m \in Media
               PROVE  files[m] <= latest[m]
    BY DEF AtMost
  <2>1. kept[m] <= latest[m] /\ 0 <= latest[m]
    BY <1>0 DEF AtMost, NoneNewer, Versions
  <2>2. files[m] = kept[m] \/ files[m] = 0
    BY <1>3
  <2> QED
    BY <2>1, <2>2
<1> DEFINE x == [Plain("provide") EXCEPT !.files = files]
<1>5. x \in PageMessages /\ x.files = files
  BY CommandTypes DEF Media, Commands, Plain
<1> HIDE DEF x
<1>6. In(toPage'[d]) = In(toPage[d]) \cup {x}
  BY <1>0, <1>3, <1>5, PagePushed DEF Pushes, x
<1>7. ASSUME NEW e \in Devices
      PROVE  KnownAt(e)'
  <2>1. Within(e, latest')
    BY <1>2 DEF NoneNewer, KnownAt
  <2>2. CASE e = d
    BY <1>0, <1>1, <1>2, <1>4, <1>5, <1>6, <2>1, <2>2, ChannelsWithin DEF Within
  <2>3. CASE e # d
    BY <1>1, <2>1, <2>3, SameWithin DEF Elsewhere
  <2> QED
    BY <2>2, <2>3
<1>8. kept' = kept /\ base' = base
  BY <1>1 DEF bench
<1> QED
  BY <1>2, <1>7, <1>8 DEF NoneNewer

LEMMA StateWithin ==
  ASSUME Types, NoneNewer, NEW d \in Devices, HearsState(d)
  PROVE  NoneNewer'
<1>0. ChannelTypes
  BY DEF Types
<1>1. UNCHANGED <<page, worker, toPage, toWorker, fromWorker, latest, kept, base>>
  BY DEF HearsState
<1>2. /\ toParent[d] # <<>> /\ toParent'[d] = Tail(toParent[d])
      /\ \A e \in Devices \ {d} : toParent'[e] = toParent[e]
  BY StateDoes DEF StateDo
<1>3. ASSUME NEW e \in Devices
      PROVE  KnownAt(e)'
  BY <1>0, <1>1, <1>2, ChannelsWithin DEF NoneNewer, KnownAt, Within
<1> QED
  BY <1>1, <1>3 DEF NoneNewer

\* A message without files.
LEMMA PlainWithin ==
  ASSUME NEW S, NEW s \in Seq(S), NEW x \in S, NEW h \in [Media -> Versions], x.files = NoFiles,
         \A c \in In(s) : AtMost(c.files, h)
  PROVE  \A c \in In(Append(s, x)) : AtMost(c.files, h)
<1>1. PICK t : t = Append(s, x)
  OBVIOUS
<1>2. Pushes(S, s, t, x)
  BY <1>1, Pushed
<1>3. In(t) = In(s) \cup {x}
  BY <1>2 DEF Pushes
<1> QED
  BY <1>1, <1>3, NoFilesAtMost

LEMMA InterruptionWithin ==
  ASSUME Types, NoneNewer, NEW d \in Devices, Interruption(d)
  PROVE  NoneNewer'
<1>0. /\ ChannelTypes /\ DeviceTypes /\ BenchTypes /\ latest \in [Media -> Versions]
      /\ toPage[d] \in Seq(PageMessages) /\ fromWorker[d] \in Seq(Reports) /\ Types'
  BY ChannelsOf, InterruptionTypes DEF Types, DeviceTypes
<1>1. latest' = latest /\ kept' = kept
  BY DEF Interruption, RestartButton, Reboot, FirmwareReboots, Crash, WorkerCrashes, Reload
<1>2. \A e \in Devices : Within(e, latest)
  BY DEF NoneNewer, KnownAt
<1>3. AtMost(base', latest)
  <2>1. CASE RestartButton(d) \/ Reboot(d)
    BY <1>0, <2>1, CurrentAtMost DEF RestartButton, Reboot
  <2>2. CASE Reload(d)
    BY <2>2 DEF Reload, NoneNewer
  <2>3. ASSUME NEW retries \in BOOLEAN, Crash(d, retries)
        PROVE  AtMost(base', latest)
    BY <2>3 DEF Crash, NoneNewer, KnownAt, Within, AtMost
  <2> QED
    BY <2>1, <2>2, <2>3 DEF Interruption
<1>4. ASSUME Elsewhere(d), KnownAt(d)'
      PROVE  NoneNewer'
  BY <1>1, <1>2, <1>3, <1>4, SameWithin DEF Elsewhere, NoneNewer
<1>5. AtMost(NoFiles, latest)
  BY <1>0, NoFilesAtMost
<1>6. CASE RestartButton(d)
  <2>1. /\ toPage'[d] = Append(toPage[d], Plain("restart")) /\ Elsewhere(d)
        /\ UNCHANGED <<page, worker, toParent, toWorker, fromWorker>>
    BY <1>6, ButtonDoes
  <2>2. \A c \in In(toPage'[d]) : AtMost(c.files, latest)
    BY <1>0, <1>2, <2>1, PlainTypes, PlainFields, PlainWithin DEF Within
  <2> QED
    BY <1>1, <1>2, <1>4, <2>1, <2>2 DEF KnownAt, Within
<1>7. CASE Reboot(d)
  <2>1. /\ fromWorker'[d] = Append(fromWorker[d], Plain("reboot")) /\ Elsewhere(d)
        /\ UNCHANGED <<page, worker, toPage, toParent, toWorker>>
    BY <1>0, <1>7, FirmwareRebootsDoes DEF Reboot
  <2>2. \A c \in In(fromWorker'[d]) : AtMost(c.files, latest)
    BY <1>0, <1>2, <2>1, PlainTypes, PlainFields, PlainWithin DEF Within
  <2> QED
    BY <1>1, <1>2, <1>4, <2>1, <2>2 DEF KnownAt, Within
<1>8. ASSUME toParent'[d] = toParent[d] \/ \E type \in {"awaiting", "error"} : toParent'[d] = Append(toParent[d], Plain(type))
      PROVE  \A c \in In(toParent'[d]) : c.type = "snapshot" => AtMost(c.files, latest)
  <2>1. ASSUME NEW type \in {"awaiting", "error"}, toParent'[d] = Append(toParent[d], Plain(type))
        PROVE  \A c \in In(toParent'[d]) : c.type = "snapshot" => AtMost(c.files, latest)
    <3>1. Plain(type) \in ParentMessages /\ Plain(type).type # "snapshot"
      BY PlainTypes, PlainFields
    <3>2. In(toParent'[d]) = In(toParent[d]) \cup {Plain(type)}
      BY <1>0, <2>1, <3>1, ParentPushed DEF Pushes
    <3> QED
      BY <1>2, <3>1, <3>2 DEF Within
  <2> QED
    BY <1>2, <1>8, <2>1 DEF Within
<1>9. ASSUME NEW retries \in BOOLEAN, Crash(d, retries)
      PROVE  NoneNewer'
  <2>1. /\ Elsewhere(d) /\ worker'[d] = NoWorker /\ toWorker'[d] = <<>> /\ fromWorker'[d] = <<>>
        /\ page'[d].files = page[d].files /\ toPage' = toPage
        /\ toParent'[d] = toParent[d] \/ toParent'[d] = Append(toParent[d], Plain("error"))
    BY <1>0, <1>9, CrashesDoes DEF Crash
  <2>2. \A c \in In(toParent'[d]) : c.type = "snapshot" => AtMost(c.files, latest)
    BY <1>8, <2>1
  <2>3. worker'[d].files = NoFiles
    BY <2>1 DEF NoWorker
  <2> QED
    BY <1>1, <1>2, <1>4, <1>5, <2>1, <2>2, <2>3, Emptied DEF KnownAt, Within
<1>10. CASE Reload(d)
  <2>1. /\ Elsewhere(d) /\ page'[d] = LoadedPage /\ worker'[d] = NoWorker /\ toPage'[d] = <<>>
        /\ toParent'[d] = Append(toParent[d], Plain("awaiting")) /\ toWorker'[d] = <<>> /\ fromWorker'[d] = <<>>
    BY <1>0, <1>10, ReloadDoes
  <2>2. \A c \in In(toParent'[d]) : c.type = "snapshot" => AtMost(c.files, latest)
    BY <1>8, <2>1
  <2>3. worker'[d].files = NoFiles /\ page'[d].files = NoFiles
    BY <2>1 DEF NoWorker, LoadedPage
  <2> QED
    BY <1>1, <1>4, <1>5, <2>1, <2>2, <2>3, Emptied DEF KnownAt, Within
<1> QED
  BY <1>6, <1>7, <1>9, <1>10 DEF Interruption

LEMMA NoneNewerKept ==
  ASSUME ~Stalls, Types, Lives, NoneNewer, Step
  PROVE  NoneNewer'
<1>0. AtMost(latest, latest') /\ DeviceTypes /\ ChannelTypes
  BY LatestGrows DEF Types
<1>1. ASSUME NEW d \in Devices, Device(d) \/ Firmware(d)
      PROVE  NoneNewer'
  <2>1. /\ Elsewhere(d) /\ kept' = kept /\ base' = base
    BY <1>1, DeviceAside DEF bench
  <2>2. latest' \in [Media -> Versions]
    BY <1>0, <1>1, DeviceStepTypes, WritesDoes DEF Types, DeviceTypes, Firmware
  <2>3. \A e \in Devices : Within(e, latest')
    BY <1>0, <2>2, WithinMore DEF NoneNewer
  <2>4. KnownAt(d)'
    BY <1>1, <2>2, <2>3, DeviceWithin DEF Lives
  <2>5. \A e \in Devices \ {d} : KnownAt(e)'
    BY <2>1, <2>3, SameWithin DEF Elsewhere
  <2>6. AtMost(kept, latest') /\ AtMost(base, latest')
    BY <1>0, <2>2, AtMostAtMost DEF NoneNewer, Types, DeviceTypes, BenchTypes
  <2> QED
    BY <2>1, <2>4, <2>5, <2>6 DEF NoneNewer
<1>2. CASE UNCHANGED vars
  BY <1>2 DEF vars, pageVars, channels, bench, NoneNewer, KnownAt, Within
<1> QED
  BY <1>0, <1>1, <1>2, UserWithin, BenchWithin, AwaitingWithin, StateWithin, InterruptionWithin DEF Step

-----------------------------------------------------------------------------
(* What was on a medium when an operation or a restart began is still there: *)
(* in the device that has it and in what this one's next worker is given, in *)
(* the answer that is saved, in the gallery's copy of what no device has,    *)
(* and in what is imported into the next device.                             *)
Newest(d, m)  == IF worker[d].phase = "none" THEN page[d].files[m] ELSE worker[d].files[m]
Restoring(d)  == {c \in In(fromWorker[d]) : c.type = "snapshot"
                                             /\ \E a \in page[d].asked : a.id = c.id /\ a.for # "refresh"}
Lasts(d, m)   == Newest(d, m) >= base[m] /\ \A c \in Restoring(d) : c.files[m] >= base[m]
Lasting       == \A d \in Devices, m \in Media : owner[m] = d /\ ~Leaving(m) => Lasts(d, m)

LEMMA KeepingLasts ==
  ASSUME NEW d \in Devices, NEW m \in Media, Lasts(d, m), base' = base, Keeping(d)
  PROVE  Lasts(d, m)'
BY DEF Keeping, Untouched, Newest, NewAnswers, Restoring, Lasts

LEMMA BeginningLasts ==
  ASSUME ChannelTypes, NEW d \in Devices, NEW m \in Media, Lasts(d, m), base' = base, Beginning(d), Life(d)
  PROVE  Lasts(d, m)'
<1>1. Restoring(d)' = {}
  BY Emptied DEF Beginning, Restoring
<1>2. Newest(d, m)' = worker'[d].files[m]
  BY DEF Beginning, Newest
<1>3. CASE worker[d].phase = "none" /\ worker'[d].files = page[d].files
  BY <1>1, <1>2, <1>3 DEF Lasts, Newest
<1>4. CASE SavingFor(d) /\ worker'[d].files = fromWorker[d][1].files
  BY <1>1, <1>2, <1>4, ReportHead DEF SavingFor, Restoring, Lasts
<1> QED
  BY <1>3, <1>4 DEF Beginning

\* A command takes no bytes of a medium the device has, but a newer version may
\* replace them.
LEMMA HandlesLasts ==
  ASSUME Types, OneCarrier, NoneNewer, NEW d \in Devices, NEW m \in Media, owner[m] = d, ~Leaving(m),
         Lasts(d, m), base' = base, WorkerHandles(d)
  PROVE  Lasts(d, m)'
<1> DEFINE c == toWorker[d][1]
<1>0. DeviceTypes /\ ChannelTypes /\ latest \in [Media -> Versions] /\ base \in [Media -> Versions]
  BY DEF Types, DeviceTypes, BenchTypes
<1>1. /\ toWorker[d] # <<>> /\ toWorker'[d] = Tail(toWorker[d]) /\ c \in WorkerMessages /\ HandledAs(d, c)
      /\ page' = page /\ worker[d].phase # "none" /\ worker'[d].phase = worker[d].phase
  BY <1>0, HandlesDoes
<1>2. c \in In(toWorker[d])
  BY <1>0, <1>1, WorkerPopped DEF Pops
<1>3. /\ c.type \in {"snapshot", "card-list"} \cup Commands
      /\ c.type \in {"eject", "remove"} => c.m # m
      /\ c.type \in {"insert", "import"} => c.m = op.m /\ owner[op.m] = None
  BY <1>1, <1>2, CommandsSpare
<1> HIDE DEF c
<1>4. c.type \in {"insert", "import", "remove"} => c.m # m
  BY <1>3, DevicesAssumption
<1>5. worker'[d].files[m] = worker[d].files[m] \/ worker'[d].files[m] = latest[m] + 1
  <2>1. CASE c.type \in {"snapshot", "card-list", "eject"}
    BY <1>1, <2>1 DEF HandledAs
  <2>2. CASE c.type \in {"insert", "import", "remove"}
    BY <1>1, <1>4, <2>2 DEF HandledAs, Only
  <2>3. CASE c.type = "edit"
    BY <1>1, <2>3 DEF HandledAs, Only
  <2> QED
    BY <1>3, <2>1, <2>2, <2>3 DEF Commands
<1>6. worker[d].files[m] >= base[m]
  BY <1>1 DEF Lasts, Newest
<1>7. latest[m] + 1 >= base[m]
  BY <1>0 DEF NoneNewer, AtMost, Versions
<1>8. Newest(d, m)' >= base[m]
  BY <1>1, <1>5, <1>6, <1>7 DEF Newest
<1>9. ASSUME NEW x \in Restoring(d)'
      PROVE  x.files[m] >= base[m]
  BY <1>0, <1>1, <1>6, <1>9, HandleReports DEF Restoring, Lasts
<1> QED
  BY <1>8, <1>9 DEF Lasts

LEMMA WritesLasts ==
  ASSUME Types, NoneNewer, NEW d \in Devices, NEW m \in Media, Lasts(d, m), base' = base,
         NEW x \in Media, FirmwareWrites(d, x)
  PROVE  Lasts(d, m)'
<1>0. DeviceTypes /\ ChannelTypes /\ latest \in [Media -> Versions] /\ base \in [Media -> Versions]
  BY DEF Types, DeviceTypes, BenchTypes
<1>1. /\ worker[d].phase # "none" /\ worker'[d].phase = worker[d].phase
      /\ worker'[d].files[x] = latest[x] + 1 /\ Only(d, x) /\ page' = page /\ fromWorker' = fromWorker
  BY <1>0, WritesDoes
<1>2. latest[m] + 1 >= base[m]
  BY <1>0 DEF NoneNewer, AtMost, Versions
<1>3. Restoring(d)' = Restoring(d)
  BY <1>1 DEF Restoring
<1>4. Newest(d, m)' >= base[m]
  BY <1>1, <1>2 DEF Newest, Lasts, Only
<1> QED
  BY <1>3, <1>4 DEF Lasts

LEMMA DeviceLasts ==
  ASSUME ~Stalls, Types, Lives, OneCarrier, Present, NoneNewer, NEW d \in Devices, NEW m \in Media,
         owner[m] = d, ~Leaving(m), Lasts(d, m), base' = base, Device(d) \/ Firmware(d)
  PROVE  Lasts(d, m)'
BY DeviceStays, KeepingLasts, BeginningLasts, HandlesLasts, WritesLasts DEF Types, Lives, Present,
   There

\* At rest nothing is under way that a worker will be given.
LEMMA RestLasts ==
  ASSUME ~Overlap, "reload" \notin Upsets, Types, Lives, NEW d \in Devices, NEW m \in Media, owner[m] = d,
         Interruption(d)
  PROVE  Lasts(d, m)'
<1>0. /\ DeviceTypes /\ ChannelTypes /\ BenchTypes /\ Life(d) /\ AtRest
  BY InterruptionLives DEF Types, Lives
<1>1. /\ page[d].asked = {} /\ worker[d].phase = "running" /\ page[d].files \in [Media -> Versions]
      /\ worker[d].files \in [Media -> Versions]
  BY <1>0, Fields, RestingLife DEF Running
<1>2. CASE RestartButton(d) \/ Reboot(d)
  <2>1. page' = page /\ worker' = worker /\ base' = Current
    BY <1>2 DEF RestartButton, Reboot, FirmwareReboots
  <2>2. Restoring(d)' = {}
    BY <1>1, <2>1 DEF Restoring
  <2>3. Newest(d, m)' = worker[d].files[m] /\ base'[m] = worker[d].files[m]
    BY <1>1, <2>1, DevicesAssumption DEF Newest, Current, Bytes
  <2>4. worker[d].files[m] \in Nat
    BY <1>1 DEF Versions
  <2> QED
    BY <2>2, <2>3, <2>4 DEF Lasts
<1>3. ASSUME NEW retries \in BOOLEAN, Crash(d, retries)
      PROVE  Lasts(d, m)'
  <2>1. WorkerCrashes(d, retries) /\ base' = [n \in Media |-> IF owner[n] = d THEN page[d].files[n] ELSE base[n]]
    BY <1>3 DEF Crash
  <2>2. worker'[d] = NoWorker /\ page'[d].files = page[d].files /\ fromWorker'[d] = <<>>
    BY <1>0, <2>1, CrashesDoes
  <2>3. Restoring(d)' = {}
    BY <2>2, Emptied DEF Restoring
  <2>4. Newest(d, m)' = page[d].files[m] /\ base'[m] = page[d].files[m]
    BY <2>1, <2>2 DEF Newest, NoWorker
  <2>5. page[d].files[m] \in Nat
    BY <1>1 DEF Versions
  <2> QED
    BY <2>3, <2>4, <2>5 DEF Lasts
<1>4. ~Reload(d)
  BY DEF Reload, Upset
<1> QED
  BY <1>2, <1>3, <1>4 DEF Interruption

Imports(d)     == {c \in In(toPage[d]) \cup In(toWorker[d]) : c.type = "import"}
Import(d, m)   == /\ \A c \in Imports(d) : c.files[m] >= base[m]
                  /\ Imports(d) # {} \/ worker[d].files[m] >= base[m]
Imported       == \A d \in Devices, m \in Media : Inserting(m, d) => Import(d, m)

\* A device that is left alone, and one that has nothing under way.
LEMMA SameLasts ==
  ASSUME NEW e \in Devices, NEW m \in Media, Types, Types', Lasts(e, m), base'[m] <= base[m],
         page'[e] = page[e], worker'[e] = worker[e], fromWorker'[e] = fromWorker[e]
  PROVE  Lasts(e, m)'
<1>0. DeviceTypes /\ ChannelTypes /\ base[m] \in Nat /\ base'[m] \in Nat
  BY DEF Types, BenchTypes, Versions
<1>1. Restoring(e)' = Restoring(e) /\ Newest(e, m)' = Newest(e, m)
  BY DEF Restoring, Newest
<1>2. Newest(e, m) \in Nat
  BY <1>0, Fields DEF Newest, Versions
<1>3. ASSUME NEW c \in Restoring(e)
      PROVE  c.files[m] \in Nat
  BY <1>0, <1>3, MessageFiles DEF Restoring, Versions
<1> QED
  BY <1>0, <1>1, <1>2, <1>3 DEF Lasts

LEMMA IdleLasts ==
  ASSUME NEW e \in Devices, NEW m \in Media, Types, owner[m] = e,
         page'[e] = page[e], worker'[e] = worker[e], fromWorker'[e] = fromWorker[e] \/ page[e].asked = {},
         \A a \in page[e].asked : a.for = "refresh", base'[m] = Bytes(m) \/ base'[m] = 0
  PROVE  Lasts(e, m)'
BY DevicesAssumption, Fields DEF Restoring, Newest, Bytes, Versions, Types, Lasts

\* Without a transfer a device that works asks for itself only.
LEMMA SteadyUnasked ==
  ASSUME NEW e \in Devices, Up(e), Unasked(e)
  PROVE  \A a \in page[e].asked : a.for = "refresh"
BY DEF Up, Unasked

LEMMA UserLasts ==
  ASSUME ~Overlap, Types, Lives, OneCarrier, User, NEW e \in Devices, NEW m \in Media, owner'[m] = e
  PROVE  Lasts(e, m)'
<1>1. Types' /\ UserDoes
  BY UserTypes
<1>2. owner[m] = e /\ page' = page /\ worker' = worker /\ fromWorker' = fromWorker
  BY <1>1 DEF UserDoes, Goes, Reads
<1>3. ~busy /\ Undisturbed
  BY <1>1 DEF User, UserDoes
<1>4. \A a \in page[e].asked : a.for = "refresh"
  BY <1>3, UndisturbedSteady, SteadyUnasked DEF Steady, OneCarrier, Bare
<1>5. base' = Current \/ \E c \in Media : base' = [Current EXCEPT ![c] = 0]
  BY DEF User, Eject, Move, Reset, Edit, Refresh, Media
<1>6. base'[m] = Bytes(m) \/ base'[m] = 0
  BY <1>5 DEF Current
<1> QED
  BY <1>2, <1>4, <1>6, IdleLasts

\* The bytes come with the import that is ahead of the insertion.
LEMMA InsertedLasts ==
  ASSUME Types, Lives, OneCarrier, Imported, NEW d \in Devices, Inserted(d), NEW m \in Media, m = op.m
  PROVE  Lasts(d, m)'
<1>1. Answered(d, "inserting") /\ Types'
  BY InsertedDoes DEF InsertedDo
<1>2. UNCHANGED <<page, worker, fromWorker, toWorker>> /\ Inserting(m, d)
  BY <1>1 DEF Answered, Inserting, Types, Planned
<1>3. base' = base
  BY DEF Inserted, Continues
<1>4. AllIdle /\ AtGallery(d) /\ Steady(d)
  BY OverCarries
<1>5. Imports(d) = {}
  <2>1. toPage[d] = <<>> /\ No(toWorker[d], Of(Commands))
    BY <1>4 DEF AtGallery
  <2>2. In(toWorker[d]) \subseteq Messages
    BY AllMessages, ChannelsOf DEF In, Types
  <2> QED
    BY <2>1, <2>2, Emptied DEF Imports, No, Of, Commands
<1>6. worker[d].files[m] >= base[m]
  BY <1>2, <1>5 DEF Imported, Import
<1>7. worker[d].phase = "running"
  BY <1>4 DEF Steady, Up, Running
<1>8. \A a \in page[d].asked : a.for = "refresh"
  BY <1>4, SteadyUnasked DEF Steady, AtGallery
<1>9. Restoring(d)' = {}
  BY <1>2, <1>8 DEF Restoring
<1>10. Newest(d, m)' = worker[d].files[m]
  BY <1>2, <1>7 DEF Newest
<1> QED
  BY <1>3, <1>6, <1>9, <1>10 DEF Lasts

LEMMA LastingKept ==
  ASSUME ~Overlap, ~Stalls, "reload" \notin Upsets, Types, Types', Lives, OneCarrier, Present, NoneNewer,
         Imported, Lasting, Step
  PROVE  Lasting'
<1>0. DeviceTypes /\ ChannelTypes /\ BenchTypes
  BY DEF Types
<1> SUFFICES ASSUME NEW e \in Devices, NEW m \in Media, owner'[m] = e, ~Leaving(m)'
             PROVE  Lasts(e, m)'
  BY DEF Lasting
<1>1. owner[m] = e /\ ~Leaving(m) => Lasts(e, m)
  BY DEF Lasting
<1>2. ASSUME page'[e] = page[e], worker'[e] = worker[e], fromWorker'[e] = fromWorker[e],
             owner[m] = e, ~Leaving(m), base'[m] = base[m] \/ base'[m] = 0
      PROVE  Lasts(e, m)'
  BY <1>0, <1>1, <1>2, SameLasts DEF BenchTypes, Versions
<1>3. CASE User
  BY <1>3, UserLasts
<1>4. ASSUME NEW d \in Devices, Saved(d) \/ Read(d)
      PROVE  Lasts(e, m)'
  <2>1. UNCHANGED <<page, worker, fromWorker, owner>> /\ op.at # "clearing"
    BY <1>4, SavedDoes, ReadDoes DEF SavedDo, ReadDo, Answered
  <2>2. base' = base
    BY <1>4 DEF Saved, Read, Continues
  <2> QED
    BY <1>2, <2>1, <2>2 DEF Leaving
<1>5. ASSUME NEW d \in Devices, Cleared(d)
      PROVE  Lasts(e, m)'
  <2>1. PICK h \in Media : h = Head(op.out)
    BY <1>5, ClearedDoes DEF ClearedDo
  <2>2. Answered(d, "clearing") /\ owner' = Abroad(h)
    BY <1>5, <2>1, ClearedDoes DEF ClearedDo, Goes
  <2>3. owner'[m] = IF m = h THEN None ELSE owner[m]
    BY <1>0, <2>2 DEF Abroad, BenchTypes
  <2>4. m # h /\ owner[m] = e
    BY <2>3, DevicesAssumption
  <2>5. base' = base \/ base' = [base EXCEPT ![op.m] = 0]
    BY <1>5 DEF Cleared, Continues
  <2>6. base'[m] = base[m] \/ base'[m] = 0
    BY <1>0, <2>5 DEF BenchTypes
  <2> QED
    BY <1>2, <2>1, <2>2, <2>4, <2>6 DEF Answered, Leaving
<1>6. ASSUME NEW d \in Devices, Inserted(d)
      PROVE  Lasts(e, m)'
  <2>1. Answered(d, "inserting") /\ op.m \in Media /\ owner' = [owner EXCEPT ![op.m] = d]
    BY <1>6, InsertedDoes DEF InsertedDo
  <2>2. owner'[m] = IF m = op.m THEN d ELSE owner[m]
    BY <1>0, <2>1 DEF BenchTypes
  <2>3. UNCHANGED <<page, worker, fromWorker>> /\ op.at = "inserting"
    BY <2>1 DEF Answered
  <2>4. base' = base
    BY <1>6 DEF Inserted, Continues
  <2>5. CASE m # op.m
    BY <1>2, <2>2, <2>3, <2>4, <2>5 DEF Leaving
  <2>6. CASE m = op.m
    BY <1>6, <2>2, <2>6, InsertedLasts
  <2> QED
    BY <2>5, <2>6
<1>7. ASSUME NEW d \in Devices, HearsAwaiting(d) \/ HearsState(d)
      PROVE  Lasts(e, m)'
  BY <1>2, <1>7 DEF HearsAwaiting, HearsState, bench, Leaving
<1>8. ASSUME NEW d \in Devices, Device(d) \/ Firmware(d)
      PROVE  Lasts(e, m)'
  BY <1>1, <1>2, <1>8, DeviceAside, DeviceLasts DEF bench, Leaving, Elsewhere, Same
<1>9. ASSUME NEW d \in Devices, Interruption(d)
      PROVE  Lasts(e, m)'
  <2>1. Elsewhere(d) /\ op' = op /\ AtRest
    BY <1>9, InterruptionLives DEF Lives
  <2>2. owner' = owner
    BY <1>9 DEF Interruption, RestartButton, Reboot, Reload, Crash
  <2>3. CASE e = d
    BY <1>9, <2>2, <2>3, RestLasts
  <2>4. CASE e # d
    <3>1. page'[e] = page[e] /\ worker'[e] = worker[e] /\ fromWorker'[e] = fromWorker[e]
      BY <2>1, <2>4 DEF Elsewhere, Same
    <3>2. page[e].asked = {} /\ ~Leaving(m)
      BY <2>1 DEF AtRest, busy, Leaving
    <3>3. base'[m] = Bytes(m) \/ base'[m] = base[m]
      BY <1>9, <2>2, <2>4 DEF Interruption, RestartButton, Reboot, Reload, Crash, Current
    <3>4. CASE base'[m] = Bytes(m)
      BY <2>2, <3>1, <3>2, <3>4, IdleLasts
    <3>5. CASE base'[m] = base[m]
      BY <1>2, <2>2, <3>1, <3>2, <3>5
    <3> QED
      BY <3>3, <3>4, <3>5
  <2> QED
    BY <2>3, <2>4
<1>10. CASE UNCHANGED vars
  BY <1>2, <1>10 DEF vars, pageVars, channels, bench, Leaving
<1> QED
  BY <1>3, <1>4, <1>5, <1>6, <1>7, <1>8, <1>9, <1>10 DEF Step

\* The answer that detach saves is what the device had then, or newer.
Handed == op.at = "saving" =>
            \A c \in In(toParent[op.from]) : c.type = "snapshot" => c.files[Head(op.out)] >= base[Head(op.out)]
\* So is the gallery's copy of what no device has.
Stored == \A m \in Media : owner[m] = None \/ Leaving(m) => kept[m] >= base[m]

LEMMA NextDetached ==
  ASSUME Types', op'.at = "saving"
  PROVE  op'.from \in Devices
BY TailFacts DEF Types, Planned, BenchTypes, Operations

LEMMA DeviceHands ==
  ASSUME ~Stalls, Types, Lives, Lasting, Handed, NEW d \in Devices, Device(d) \/ Firmware(d), op.at = "saving",
         NEW c \in In(toParent'[op.from]), c.type = "snapshot"
  PROVE  c.files[Head(op.out)] >= base[Head(op.out)]
<1>0. DeviceTypes /\ ChannelTypes /\ Life(d)
  BY DEF Types, Lives
<1>1. Head(op.out) \in Media /\ op.from \in Devices /\ op.from = owner[Head(op.out)]
  BY Detached
<1>2. CASE c \in In(toParent[op.from])
  BY <1>2 DEF Handed
<1>3. CASE op.from # d
  BY <1>1, <1>2, <1>3, DeviceAside DEF Elsewhere, Same
<1>4. CASE op.from = d /\ c \notin In(toParent[d])
  <2>1. /\ fromWorker[d] # <<>> /\ fromWorker[d][1].type = "snapshot" /\ c.files = fromWorker[d][1].files
        /\ \E a \in page[d].asked : a.for = "parent" /\ a.id = fromWorker[d][1].id
    BY <1>0, <1>4, DeviceParent
  <2>2. fromWorker[d][1] \in Restoring(d)
    BY <1>0, <2>1, ReportHead DEF Restoring
  <2>3. Lasts(d, Head(op.out))
    BY <1>1, <1>4 DEF Lasting, Leaving
  <2> QED
    BY <2>1, <2>2, <2>3 DEF Lasts
<1> QED
  BY <1>2, <1>3, <1>4

LEMMA HandedKept ==
  ASSUME ~Overlap, ~Stalls, Types, Types', Lives, OneCarrier, Lasting, Handed, Step
  PROVE  Handed'
<1> SUFFICES ASSUME op'.at = "saving", NEW c \in In(toParent'[op'.from]), c.type = "snapshot"
             PROVE  c.files[Head(op'.out)] >= base'[Head(op'.out)]
  BY DEF Handed
<1>0. ChannelTypes /\ op'.from \in Devices
  BY NextDetached DEF Types
<1>1. ASSUME AllIdle
      PROVE  FALSE
  BY <1>0, <1>1, AllMessages DEF AllIdle, Idle, In, Types, ChannelTypes, No, Of
<1>2. CASE User
  BY <1>1, <1>2, UserTypes, StartIdle DEF UserDoes
<1>3. ASSUME NEW d \in Devices, Cleared(d) \/ Inserted(d) \/ Read(d)
      PROVE  FALSE
  BY <1>1, <1>3, ClearedCarries, OverCarries
<1>4. ASSUME NEW d \in Devices, Saved(d)
      PROVE  FALSE
  BY <1>1, <1>4, SavedCarries
<1>5. ASSUME NEW d \in Devices, HearsAwaiting(d) \/ HearsState(d)
      PROVE  c.files[Head(op'.out)] >= base'[Head(op'.out)]
  <2>1. op' = op /\ base' = base
    BY <1>5 DEF HearsAwaiting, HearsState, bench
  <2>2. CASE toParent'[op.from] = toParent[op.from]
    BY <2>1, <2>2 DEF Handed
  <2>3. CASE op.from = d /\ toParent[d] # <<>> /\ toParent'[d] = Tail(toParent[d])
    BY <1>0, <2>1, <2>3, ParentPopped DEF Pops, Handed
  <2>4. /\ toParent[d] # <<>> /\ toParent'[d] = Tail(toParent[d])
        /\ \A e \in Devices \ {d} : toParent'[e] = toParent[e]
    BY <1>5, AwaitingDoes, StateDoes DEF Types, Elsewhere, Same, StateDo
  <2> QED
    BY <1>0, <2>1, <2>2, <2>3, <2>4
<1>6. ASSUME NEW d \in Devices, Device(d) \/ Firmware(d)
      PROVE  c.files[Head(op'.out)] >= base'[Head(op'.out)]
  BY <1>6, DeviceAside, DeviceHands DEF bench
<1>7. ASSUME NEW d \in Devices, Interruption(d)
      PROVE  FALSE
  BY <1>7, InterruptionLives DEF Lives, AtRest, busy
<1>8. CASE UNCHANGED vars
  BY <1>8 DEF vars, pageVars, channels, bench, Handed
<1> QED
  BY <1>2, <1>3, <1>4, <1>5, <1>6, <1>7, <1>8 DEF Step

LEMMA StoredSame ==
  ASSUME Types, Stored, NEW m \in Media, owner[m] = None \/ Leaving(m), kept'[m] = kept[m],
         base'[m] = base[m] \/ base'[m] = 0
  PROVE  kept'[m] >= base'[m]
BY DEF Types, BenchTypes, Versions, Stored

\* What an operation starts with.
LEMMA UserStores ==
  ASSUME Types, Types', NoneNewer, User, NEW m \in Media, owner[m] = None
  PROVE  kept'[m] >= base'[m]
<1>0. /\ kept \in [Media -> Versions] /\ latest \in [Media -> Versions] /\ kept'[m] \in Nat
      /\ SD \in Media /\ Cards \subseteq Media
  BY DEF Types, DeviceTypes, BenchTypes, Media, Versions
<1>1. kept[m] \in Nat /\ kept[m] <= latest[m] /\ latest[m] \in Nat
  BY <1>0 DEF Versions, NoneNewer, AtMost
<1>2. Current[m] = kept[m]
  BY DEF Current, Bytes
<1>3. CASE Edit
  BY <1>0, <1>1, <1>2, <1>3 DEF Edit, NewVersion
<1>4. ASSUME NEW c \in Cards, Reset(c)
      PROVE  kept'[m] >= base'[m]
  <2>1. CASE owner[c] = None
    BY <1>0, <1>1, <1>2, <1>4, <2>1, CurrentType DEF Reset, Types
  <2>2. CASE owner[c] # None
    BY <1>1, <1>2, <1>4, <2>2 DEF Reset
  <2> QED
    BY <2>1, <2>2
<1>5. ASSUME NEW x \in Media, Eject(x) \/ Refresh \/ \E d \in Devices : Move(x, d)
      PROVE  kept'[m] >= base'[m]
  <2>1. base' = Current /\ kept' = kept
    BY <1>5 DEF Eject, Refresh, Move
  <2> QED
    BY <1>1, <1>2, <2>1
<1> QED
  BY <1>0, <1>3, <1>4, <1>5 DEF User

LEMMA SavedStores ==
  ASSUME Types, Lives, OneCarrier, Handed, Stored, NEW d \in Devices, Saved(d), NEW m \in Media,
         owner'[m] = None \/ Leaving(m)'
  PROVE  kept'[m] >= base'[m]
<1>1. SavedDo(d) /\ Asks(d, Removal(Head(op.out)), Clearing)
  BY SavedCarries
<1>2. PICK h \in Media : h = Head(op.out)
  BY <1>1 DEF SavedDo
<1>3. owner' = owner /\ op'.out = op.out /\ op.from = d /\ op.at = "saving"
  BY <1>1 DEF SavedDo, Asks, Answered, Clearing, Types, BenchTypes, Operations
<1>4. kept' = [kept EXCEPT ![h] = Answer(d)[h]] /\ base' = base
  BY <1>2 DEF Saved, Continues
<1>5. kept'[m] = IF m = h THEN Answer(d)[h] ELSE kept[m]
  BY <1>4 DEF Types, BenchTypes
<1>6. CASE m = h
  <2>1. Continues(d, "saving")
    BY DEF Saved
  <2>2. toParent[d] # <<>> /\ Has(toParent, d, "snapshot")
    BY <2>1 DEF Continues, Hears, Has
  <2>3. toParent[d][1] \in In(toParent[d]) /\ toParent[d][1] = Head(toParent[d])
    BY <2>2, ParentFirst, ChannelsOf, TailFacts DEF Types
  <2>4. toParent[d][1].type = "snapshot"
    BY <2>2, <2>3 DEF Has
  <2> QED
    BY <1>2, <1>3, <1>4, <1>5, <1>6, <2>3, <2>4 DEF Handed, Answer
<1>7. CASE m # h
  BY <1>2, <1>3, <1>4, <1>5, <1>7, StoredSame DEF Leaving
<1> QED
  BY <1>6, <1>7

LEMMA ClearedStores ==
  ASSUME Types, Lives, OneCarrier, Stored, NEW d \in Devices, Cleared(d), NEW m \in Media,
         owner'[m] = None \/ Leaving(m)'
  PROVE  kept'[m] >= base'[m]
<1>1. ClearedDo(d) /\ op'.at # "clearing"
  BY ClearedCarries
<1>2. PICK h \in Media : h = Head(op.out)
  BY <1>1 DEF ClearedDo
<1>3. owner' = Abroad(h) /\ op.at = "clearing" /\ op.m \in Media
  BY <1>1, <1>2 DEF ClearedDo, Goes, Answered, Types, Planned
<1>4. owner'[m] = None /\ owner'[m] = IF m = h THEN None ELSE owner[m]
  BY <1>1, <1>3 DEF Abroad, Leaving, Types, BenchTypes
<1>5. owner[m] = None \/ Leaving(m)
  BY <1>2, <1>3, <1>4 DEF Leaving
<1>6. /\ kept' = IF op.wipe THEN [kept EXCEPT ![op.m] = 0] ELSE kept
      /\ base' = IF op.wipe THEN [base EXCEPT ![op.m] = 0] ELSE base
  BY DEF Cleared, Continues
<1>7. kept \in [Media -> Versions] /\ base \in [Media -> Versions]
  BY DEF Types, BenchTypes
<1>8. CASE op.wipe /\ m = op.m
  BY <1>6, <1>7, <1>8
<1>9. CASE ~(op.wipe /\ m = op.m)
  BY <1>5, <1>6, <1>7, <1>9, StoredSame
<1> QED
  BY <1>8, <1>9

LEMMA StoredKept ==
  ASSUME ~Overlap, ~Stalls, Types, Types', Lives, OneCarrier, NoneNewer, Handed, Stored, Step
  PROVE  Stored'
<1>0. BenchTypes
  BY DEF Types
<1> SUFFICES ASSUME NEW m \in Media, owner'[m] = None \/ Leaving(m)'
             PROVE  kept'[m] >= base'[m]
  BY DEF Stored
<1>1. ASSUME op' = op, owner'[m] = owner[m], kept'[m] = kept[m], base'[m] = base[m]
      PROVE  kept'[m] >= base'[m]
  BY <1>1, StoredSame DEF Leaving
<1>2. CASE User
  BY <1>2, UserTypes, UserCarries, UserStores DEF UserDoes, Goes, Reads, Leaving
<1>3. ASSUME NEW d \in Devices, Inserted(d) \/ Read(d)
      PROVE  kept'[m] >= base'[m]
  <2>1. op' = NoOp
    BY <1>3, OverCarries
  <2>2. owner'[m] = None
    BY <2>1, NoOpFields DEF Leaving
  <2>3. base' = base /\ kept' = [kept EXCEPT ![op.m] = Answer(d)[op.m]]
    BY <1>3 DEF Inserted, Read, Continues
  <2>4. owner[m] = None /\ m # op.m
    <3>1. CASE Inserted(d)
      BY <1>0, <2>2, <3>1, InsertedDoes, DevicesAssumption DEF InsertedDo, BenchTypes
    <3>2. CASE Read(d)
      BY <2>2, <3>2, ReadDoes DEF ReadDo, Answered, Types, Planned
    <3> QED
      BY <1>3, <3>1, <3>2
  <2>5. kept'[m] = kept[m]
    BY <1>0, <2>3, <2>4 DEF BenchTypes
  <2> QED
    BY <2>3, <2>4, <2>5, StoredSame
<1>4. ASSUME NEW d \in Devices, HearsAwaiting(d) \/ HearsState(d)
      PROVE  kept'[m] >= base'[m]
  BY <1>1, <1>4 DEF HearsAwaiting, HearsState, bench
<1>5. ASSUME NEW d \in Devices, Device(d) \/ Firmware(d)
      PROVE  kept'[m] >= base'[m]
  BY <1>1, <1>5, DeviceAside DEF bench
<1>6. ASSUME NEW d \in Devices, Interruption(d)
      PROVE  kept'[m] >= base'[m]
  <2>1. op' = op /\ op.at = "idle"
    BY <1>6, InterruptionLives DEF Lives, AtRest, busy
  <2>2. owner' = owner /\ kept' = kept
    BY <1>6 DEF Interruption, RestartButton, Reboot, Reload, Crash
  <2>3. owner[m] = None
    BY <2>1, <2>2 DEF Leaving
  <2>4. base'[m] = Bytes(m) \/ base'[m] = base[m]
    BY <1>6, <2>3, DevicesAssumption DEF Interruption, RestartButton, Reboot, Reload, Crash, Current
  <2>5. CASE base'[m] = Bytes(m)
    BY <1>0, <2>2, <2>3, <2>5 DEF Bytes, BenchTypes, Versions
  <2>6. CASE base'[m] = base[m]
    BY <1>1, <2>1, <2>2, <2>6
  <2> QED
    BY <2>4, <2>5, <2>6
<1>7. CASE UNCHANGED vars
  BY <1>1, <1>7 DEF vars, bench
<1> QED
  BY <1>2, <1>3, <1>4, <1>5, <1>6, <1>7, SavedStores, ClearedStores DEF Step

\* What is imported is forwarded, and then it is in the device.
LEMMA SameImport ==
  ASSUME NEW d \in Devices, NEW m \in Media, Import(d, m), base' = base, Imports(d)' = Imports(d),
         worker'[d].files[m] = worker[d].files[m]
  PROVE  Import(d, m)'
BY DEF Import

LEMMA MoreImport ==
  ASSUME Types, NoneNewer, NEW d \in Devices, NEW m \in Media, Import(d, m), base' = base, Imports(d)' = Imports(d),
         worker'[d].files[m] = latest[m] + 1
  PROVE  Import(d, m)'
BY DEF NoneNewer, AtMost, Types, DeviceTypes, BenchTypes, Versions, Import

LEMMA PassiveImport ==
  ASSUME ChannelTypes, NEW d \in Devices, NEW m \in Media, Import(d, m), base' = base, Passive(d)
  PROVE  Import(d, m)'
<1>1. \A c : c.type = "import" => (c \in In(toPage'[d]) <=> c \in In(toPage[d]))
  BY PagePopped DEF Pops, Commands, Passive, LessAtPage
<1>2. \A c : c.type = "import" => (c \in In(toWorker'[d]) <=> c \in In(toWorker[d]))
  BY WorkerPushed DEF Pushes, Commands, Passive, MoreWork
<1>3. Imports(d)' = Imports(d)
  BY <1>1, <1>2 DEF Imports
<1> QED
  BY <1>3, SameImport DEF Passive, Untouched

LEMMA ForwardsImport ==
  ASSUME DeviceTypes, ChannelTypes, NEW d \in Devices, NEW m \in Media, Import(d, m), base' = base,
         PageForwards(d), Up(d)
  PROVE  Import(d, m)'
<1> DEFINE c == toPage[d][1]
<1>1. worker[d].phase # "none"
  BY DEF Up, Running
<1>2. /\ toPage[d] # <<>> /\ toPage'[d] = Tail(toPage[d]) /\ c \in WorkerMessages
      /\ worker' = worker /\ toWorker'[d] = Append(toWorker[d], c)
  BY <1>1, ForwardsDoes
<1>3. Pops(PageMessages, toPage[d], toPage'[d]) /\ Pushes(WorkerMessages, toWorker[d], toWorker'[d], c)
  BY <1>2, PagePopped, WorkerPushed
<1>4. In(toPage[d]) = {c} \cup In(toPage'[d]) /\ In(toWorker'[d]) = In(toWorker[d]) \cup {c}
  BY <1>3 DEF Pops, Pushes
<1>5. Imports(d)' = Imports(d)
  BY <1>4 DEF Imports
<1> QED
  BY <1>2, <1>5, SameImport

LEMMA HandlesImport ==
  ASSUME Types, NoneNewer, NEW d \in Devices, NEW m \in Media, Import(d, m), base' = base, WorkerHandles(d),
         \A c \in In(toWorker[d]) : c.type \in Commands => c.type \in {"import", "insert"} /\ c.m = m
  PROVE  Import(d, m)'
<1> DEFINE c == toWorker[d][1]
<1>0. DeviceTypes /\ ChannelTypes /\ base[m] \in Nat /\ base \in [Media -> Versions]
  BY DEF Types, BenchTypes, Versions
<1>1. /\ toWorker[d] # <<>> /\ toWorker'[d] = Tail(toWorker[d]) /\ c \in WorkerMessages
      /\ HandledAs(d, c) /\ toPage' = toPage
  BY <1>0, HandlesDoes
<1>2. In(toWorker[d]) = {c} \cup In(toWorker'[d])
  BY <1>0, <1>1, WorkerPopped DEF Pops
<1>3. c.type \in {"snapshot", "card-list"} \/ (c.type \in {"import", "insert"} /\ c.m = m)
  BY <1>1, <1>2 DEF WorkerMessages, Addressed, Message
<1>4. c \in In(toWorker[d]) /\ c.files[m] \in Nat /\ worker[d].files[m] \in Nat
  BY <1>0, <1>2, MessageFiles, Fields DEF Versions
<1> HIDE DEF c
<1>5. CASE c.type = "import"
  BY <1>0, <1>1, <1>2, <1>3, <1>4, <1>5 DEF HandledAs, Import, Imports
<1>6. CASE c.type # "import"
  <2>1. Imports(d)' = Imports(d)
    BY <1>1, <1>2, <1>6 DEF Imports
  <2>2. worker'[d].files[m] = worker[d].files[m] \/ worker'[d].files[m] = latest[m] + 1
    BY <1>1, <1>3, <1>6 DEF HandledAs
  <2> QED
    BY <2>1, <2>2, SameImport, MoreImport
<1> QED
  BY <1>5, <1>6

LEMMA ImportGoesOn ==
  ASSUME Types, NoneNewer, NEW d \in Devices, NEW m \in Media, Import(d, m), base' = base, Kinds(d), Up(d),
         \A c \in In(toWorker[d]) : c.type \in Commands => c.type \in {"import", "insert"} /\ c.m = m
  PROVE  Import(d, m)'
<1>0. DeviceTypes /\ ChannelTypes
  BY DEF Types
<1>1. ASSUME NEW x \in Media, FirmwareWrites(d, x)
      PROVE  Import(d, m)'
  BY <1>0, <1>1, WritesDoes, SameImport, MoreImport DEF Imports, Only
<1> QED
  BY <1>0, <1>1, PassiveImport, ForwardsImport, HandlesImport DEF Kinds, Launched

\* The import is sent with what the gallery has.
LEMMA ImportBegins ==
  ASSUME Types, Types', AllIdle, Stored', NEW o \in Operations, NEW own, Goes(o, own),
         op'.at = "inserting", NEW d \in Devices, d = op'.target, NEW m, m = op'.m
  PROVE  Import(d, m)'
<1>0. ChannelTypes /\ kept' \in [Media -> Versions] /\ o.m \in Media
  BY DEF Types, BenchTypes, Goes, Plannable
<1>1. [o EXCEPT !.at = "saving"].at = "saving" /\ [o EXCEPT !.at = "inserting"].target = o.target
      /\ [o EXCEPT !.at = "inserting"].m = o.m
  BY DEF Operations
<1>2. Inserts(o)
  BY <1>1, NoOpFields DEF Goes, Detaches, Ends, Asks
<1>3. /\ toPage'[d] = toPage[d] \o Append(Insertion(o), Export(op'.id))
      /\ m = o.m /\ op'.id \in Ids
  BY <1>1, <1>2 DEF Inserts, Asks
<1> DEFINE x == Export(op'.id)
           i == [Command("import", o.m) EXCEPT !.files = CopyOf(o.m, kept')]
           j == Command("insert", o.m)
           t == Insertion(o)
           u == Append(t, x)
<1>4. x \in PageMessages /\ x.type = "export"
  BY <1>3, NoFilesType, SnapshotTypes, ExportFields
<1>5. i.type = "import" /\ i.files = CopyOf(o.m, kept') /\ j.type = "insert"
  BY CommandFields DEF Command, Plain
<1>6. CopyOf(o.m, kept')[o.m] = kept'[o.m]
  BY <1>0 DEF CopyOf, NoFiles
<1>7. In(t) = {i, j} /\ t \in Seq(PageMessages)
  BY <1>0, TwoIn, InsertionTypes DEF Insertion
<1> HIDE DEF x, i, j, t
<1>8. u \in Seq(PageMessages) /\ In(u) = {i, j, x}
  <2>1. Pushes(PageMessages, t, u, x)
    BY <1>4, <1>7, Pushed
  <2> QED
    BY <1>4, <1>7, <2>1, AppendFacts DEF Pushes
<1> HIDE DEF u
<1>9. In(toPage'[d]) = In(toPage[d]) \cup {i, j, x}
  <2>1. toPage[d] \in Seq(PageMessages)
    BY <1>0, ChannelsOf
  <2>2. Joins(PageMessages, toPage[d], u, toPage'[d])
    BY <1>3, <1>8, <2>1, Joined DEF u, t, x
  <2> QED
    BY <1>8, <2>2 DEF Joins
<1>10. Imports(d) = {}
  BY <1>0, AllMessages, ChannelsOf DEF AllIdle, Idle, In, Imports, No, Of, Commands
<1>11. toWorker' = toWorker
  BY DEF AllIdle
<1>12. Imports(d)' = {i}
  BY <1>4, <1>5, <1>9, <1>10, <1>11 DEF Imports
<1>13. owner'[m] = None /\ m \in Media
  BY <1>0, <1>3, DevicesAssumption DEF Types, Planned
<1>14. kept'[m] >= base'[m]
  BY <1>13 DEF Stored
<1> QED
  BY <1>3, <1>5, <1>6, <1>12, <1>14 DEF Import

LEMMA ImportedKept ==
  ASSUME ~Overlap, ~Stalls, Types, Types', Lives, OneCarrier, NoneNewer, Imported, Stored', Step
  PROVE  Imported'
<1>0. DeviceTypes /\ ChannelTypes /\ BenchTypes
  BY DEF Types
<1> SUFFICES ASSUME NEW e \in Devices, NEW m \in Media, Inserting(m, e)'
             PROVE  Import(e, m)'
  BY DEF Imported
<1>1. op'.at = "inserting" /\ op'.target = e /\ op'.m = m
  BY DEF Inserting
<1>2. Inserting(m, e) => Import(e, m)
  BY DEF Imported
<1>3. CASE User
  <2>1. UserDoes
    BY <1>3, UserTypes
  <2>2. op.at = "idle" /\ Reading.at = "reading"
    BY <2>1, NoOpFields DEF UserDoes, busy, Reading, Operations
  <2>3. \E o \in Operations : Goes(o, owner)
    BY <1>1, <2>1, <2>2, NoOpFields DEF UserDoes, Reads, Asks, Rejects
  <2>4. AllIdle
    BY <2>1, StartIdle DEF UserDoes
  <2> QED
    BY <1>1, <2>3, <2>4, ImportBegins
<1>4. ASSUME NEW d \in Devices, Cleared(d)
      PROVE  Import(e, m)'
  BY <1>1, <1>4, ClearedCarries, ImportBegins DEF ClearedDo, Goes, Plannable
<1>5. ASSUME NEW d \in Devices, Saved(d) \/ Inserted(d) \/ Read(d)
      PROVE  FALSE
  <2>1. CASE Saved(d)
    BY <1>1, <2>1, SavedCarries DEF Asks, Clearing, Types, BenchTypes, Operations
  <2> QED
    BY <1>1, <1>5, <2>1, OverCarries, NoOpFields
<1>6. ASSUME Inserting(m, e), worker'[e] = worker[e], toWorker'[e] = toWorker[e], toPage'[e] = toPage[e], base' = base
      PROVE  Import(e, m)'
  BY <1>2, <1>6, SameImport DEF Imports
<1>7. ASSUME op' = op
      PROVE  Inserting(m, e) /\ Steady(e) /\ Import(e, m)
  BY <1>1, <1>2, <1>7 DEF Inserting, Lives, busy
<1>8. ASSUME NEW d \in Devices, HearsAwaiting(d)
      PROVE  FALSE
  BY <1>0, <1>1, <1>8, AwaitingLives, AwaitingDoes, NotUp DEF Lives, bench, busy
<1>9. ASSUME NEW d \in Devices, HearsState(d)
      PROVE  Import(e, m)'
  BY <1>6, <1>7, <1>9 DEF HearsState
<1>10. ASSUME NEW d \in Devices, Device(d) \/ Firmware(d)
       PROVE  Import(e, m)'
  <2>1. Elsewhere(d) /\ op' = op /\ base' = base
    BY <1>10, DeviceAside DEF bench
  <2>2. CASE e # d
    BY <1>6, <1>7, <2>1, <2>2 DEF Elsewhere, Same
  <2>3. CASE e = d
    <3>1. Kinds(e)
      BY <1>0, <1>10, <2>3, DeviceKinds DEF Lives
    <3>2. Up(e) /\ Inserting(m, e) /\ Import(e, m)
      BY <1>7, <2>1 DEF Steady
    <3>3. op.from = e /\ busy
      BY <3>2 DEF Inserting, busy, Types, Planned
    <3>4. \A c \in In(toWorker[e]) : c.type \in Commands => c.type \in {"import", "insert"} /\ c.m = m
      BY <3>2, <3>3 DEF OneCarrier, Carrying, Fitting, Fits, Inserting
    <3> QED
      BY <2>1, <3>1, <3>2, <3>4, ImportGoesOn
  <2> QED
    BY <2>2, <2>3
<1>11. ASSUME NEW d \in Devices, Interruption(d)
       PROVE  FALSE
  BY <1>1, <1>11, InterruptionLives DEF Lives, AtRest, busy
<1>12. CASE UNCHANGED vars
  BY <1>6, <1>7, <1>12 DEF vars, pageVars, channels, bench
<1> QED
  BY <1>3, <1>4, <1>5, <1>8, <1>9, <1>10, <1>11, <1>12 DEF Step

BInv == LInv /\ NoneNewer /\ Lasting /\ Handed /\ Stored /\ Imported

LEMMA BInvInit == Init => BInv
<1> SUFFICES ASSUME Init
             PROVE  BInv
  OBVIOUS
<1>1. LInv
  BY LInvInit
<1>2. /\ op = NoOp /\ base = NoFiles /\ kept = NoFiles /\ \A m \in Media : owner[m] = None /\ latest[m] = 0
  BY DEF Init, PageInit
<1>3. \A d \in Devices : /\ page[d].files = NoFiles /\ worker[d].files = NoFiles
                         /\ toPage[d] = <<>> /\ toWorker[d] = <<>> /\ fromWorker[d] = <<>>
                         /\ toParent[d] = <<Plain("awaiting")>>
  BY DEF Init, PageInit, LoadedPage, NoWorker
<1>4. AtMost(NoFiles, latest)
  BY <1>2 DEF AtMost, NoFiles
<1>5. NoneNewer
  <2>1. In(<<Plain("awaiting")>>) = {Plain("awaiting")} /\ Plain("awaiting").type # "snapshot"
    BY Single, PlainFields
  <2> QED
    BY <1>2, <1>3, <1>4, <2>1, Emptied DEF NoneNewer, KnownAt, Within
<1>6. Lasting
  BY <1>2, DevicesAssumption DEF Lasting
<1>7. Handed /\ Imported
  BY <1>2, NoOpFields DEF Handed, Imported, Inserting
<1>8. Stored
  BY <1>2 DEF Stored, NoFiles
<1> QED
  BY <1>1, <1>5, <1>6, <1>7, <1>8 DEF BInv

LEMMA BInvKept ==
  ASSUME ~Overlap, ~Stalls, ~GalleryExpires, "reload" \notin Upsets, BInv, [Next]_vars
  PROVE  BInv'
<1>1. /\ LInv /\ Types /\ Lives /\ OneCarrier /\ Present
      /\ NoneNewer /\ Lasting /\ Handed /\ Stored /\ Imported
  BY DEF BInv, LInv, IInv
<1>2. Step
  BY <1>1, Possible
<1>3. LInv' /\ Types'
  BY <1>1, LInvKept, TypesKept
<1>4. NoneNewer'
  BY <1>1, <1>2, NoneNewerKept
<1>5. Lasting'
  BY <1>1, <1>2, <1>3, LastingKept
<1>6. Handed'
  BY <1>1, <1>2, <1>3, HandedKept
<1>7. Stored'
  BY <1>1, <1>2, <1>3, StoredKept
<1>8. Imported'
  BY <1>1, <1>2, <1>3, <1>7, ImportedKept
<1> QED
  BY <1>3, <1>4, <1>5, <1>6, <1>7, <1>8 DEF BInv

LEMMA BytesThere ==
  ASSUME BInv
  PROVE  BytesSurvive
<1> SUFFICES ASSUME ~busy, NEW m \in Media
             PROVE  Bytes(m) >= base[m]
  BY DEF BytesSurvive
<1>1. ~Leaving(m)
  BY DEF busy, Leaving
<1>2. CASE owner[m] = None
  BY <1>2 DEF BInv, Stored, Bytes
<1>3. CASE owner[m] \in Devices
  BY <1>1, <1>3, DevicesAssumption DEF BInv, Lasting, Lasts, Newest, Bytes
<1> QED
  BY <1>2, <1>3 DEF BInv, LInv, IInv, Types, BenchTypes

\* Whenever no operation is under way, every medium still has what was on it when
\* the last operation, restart or reboot began, or something newer; after a crash,
\* what the page had remembered: for any number of devices, cards, transfers and
\* interruptions.  The request that a transfer waits for is answered behind its
\* commands and ahead of what comes later, so what is saved, imported and given to
\* the next worker is what the last one had.  A page loaded again is left out: it
\* starts with no files and is given the gallery's own copy, which may be older.
THEOREM BytesKept ==
  ASSUME ~Overlap, ~Stalls, ~GalleryExpires, "reload" \notin Upsets
  PROVE  Spec => []BytesSurvive
<1>1. Init => BInv
  BY BInvInit
<1>2. BInv /\ [Next]_vars => BInv'
  BY BInvKept
<1>3. BInv => BytesSurvive
  BY BytesThere
<1> QED
  BY <1>1, <1>2, <1>3, PTL DEF Spec

=============================================================================
