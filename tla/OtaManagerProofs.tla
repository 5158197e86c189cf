-------------------------- MODULE OtaManagerProofs --------------------------
(***************************************************************************)
(* Proofs about OtaManager, for every size of the image and of a chunk,    *)
(* every depth of the event queue from two on, and any number of version   *)
(* checks, commands and runs.                                              *)
(***************************************************************************)
EXTENDS OtaManager, SequenceTheorems, TLAPS

FlagTypes ==
  /\ link \in BOOLEAN /\ session \in BOOLEAN /\ force \in BOOLEAN /\ cooling \in BOOLEAN
  /\ tried \in BOOLEAN /\ undeleted \in BOOLEAN /\ wiped \in BOOLEAN

Events == [id : 1..MaxRequests, ok : BOOLEAN]

PlaceTypes ==
  /\ wpc \in {"idle", "gated", "dispatch", "done", "ending"} \cup WaitStates \cup LoadStates
  /\ reason \in {"none", "version check", "no update", "download", "ok"}

NumberTypes ==
  /\ req \in 0..MaxRequests /\ flight \in 0..MaxRequests
  /\ forced \in 0..MaxForced /\ boots \in 0..MaxBoots
  \* a cycle that has not asked yet was begun with a request to spare
  /\ wpc \in {"gated", "dispatch"} => req < MaxRequests

EventTypes == events \in Seq(Events) /\ verdict \in 0..MaxRequests

\* While chunks are read the file holds what the offset says, unless it was
\* deleted.
LoadTypes ==
  /\ offset \in 0..Size /\ tries \in 0..2
  /\ file \in [exists : BOOLEAN, length : 0..Size]
  /\ wpc = "chunk" => file = Image(offset) \/ (file = NoFile /\ wiped)

-----------------------------------------------------------------------------
(* Types *)

LEMMA Sizes ==
  /\ Size \in Nat /\ Size > 0 /\ ChunkSize \in Nat /\ ChunkSize > 0
  /\ QueueDepth \in Nat /\ QueueDepth >= 2
  /\ MaxRequests \in Nat /\ MaxForced \in Nat /\ MaxBoots \in Nat
  BY SizeAssumption, DepthAssumption, BoundAssumption

\* The files of the model are files.
LEMMA FileTypes ==
  /\ NoFile \in [exists : BOOLEAN, length : 0..Size]
  /\ \A n \in 0..Size : Image(n) \in [exists : BOOLEAN, length : 0..Size]
<1>1. 0 \in 0..Size
  BY Sizes
<1> QED BY <1>1, Zenon DEF NoFile, Image

LEMMA FlagsTyped ==
  ASSUME FlagTypes, [Next]_vars
  PROVE  FlagTypes'
<1> USE DEF FlagTypes, vars, otaVars, ghostVars
<1>1. CASE Gates BY <1>1, Zenon DEF Gates
<1>2. CASE BeginSession BY <1>2, Zenon DEF BeginSession
<1>3. CASE Skip BY <1>3 DEF Skip
<1>4. CASE Ask BY <1>4, Zenon DEF Ask
<1>5. CASE Receive BY <1>5 DEF Receive
<1>6. CASE WaitTimeout BY <1>6 DEF WaitTimeout
<1>7. CASE ReadAnswer BY <1>7 DEF ReadAnswer
<1>8. CASE QuerySize BY <1>8 DEF QuerySize
<1>9. CASE MakeSpace BY <1>9, Zenon DEF MakeSpace
<1>10. CASE OpenImage BY <1>10 DEF OpenImage
<1>11. CASE Chunk BY <1>11 DEF Chunk
<1>12. CASE ChunkFails BY <1>12 DEF ChunkFails
<1>13. CASE WriteFails BY <1>13 DEF WriteFails
<1>14. CASE CloseImage BY <1>14 DEF CloseImage
<1>15. CASE DeleteImage BY <1>15, Zenon DEF DeleteImage
<1>16. CASE EndStep
  <2>1. session' \in BOOLEAN /\ force' \in BOOLEAN
    BY <1>16, Zenon DEF EndStep
  <2> QED BY <1>16, <2>1 DEF EndStep
<1>17. CASE Complete BY <1>17 DEF Complete
<1>18. CASE ForceUpdate BY <1>18, Zenon DEF ForceUpdate
<1>19. CASE LinkChanges BY <1>19, Zenon DEF LinkChanges
<1>20. CASE CooldownEnds BY <1>20, Zenon DEF CooldownEnds
<1>21. CASE Restart BY <1>21, Zenon DEF Restart
<1>22. CASE WipeImage BY <1>22 DEF WipeImage
<1>23. CASE UNCHANGED vars BY <1>23
<1> QED BY <1>1, <1>2, <1>3, <1>4, <1>5, <1>6, <1>7, <1>8, <1>9, <1>10, <1>11, <1>12, <1>13,
           <1>14, <1>15, <1>16, <1>17, <1>18, <1>19, <1>20, <1>21, <1>22, <1>23 DEF Next, Cycle

LEMMA PlacesTyped ==
  ASSUME PlaceTypes, [Next]_vars
  PROVE  PlaceTypes'
<1> USE DEF PlaceTypes, vars, otaVars, WaitStates, LoadStates, CheckEnds, LoadFails
<1>1. CASE Gates BY <1>1 DEF Gates
<1>2. CASE BeginSession BY <1>2 DEF BeginSession
<1>3. CASE Skip BY <1>3 DEF Skip
<1>4. CASE Ask BY <1>4 DEF Ask
<1>5. CASE Receive BY <1>5 DEF Receive
<1>6. CASE WaitTimeout BY <1>6 DEF WaitTimeout
<1>7. CASE ReadAnswer BY <1>7 DEF ReadAnswer
<1>8. CASE QuerySize BY <1>8 DEF QuerySize
<1>9. CASE MakeSpace BY <1>9 DEF MakeSpace
<1>10. CASE OpenImage BY <1>10 DEF OpenImage
<1>11. CASE Chunk BY <1>11 DEF Chunk
<1>12. CASE ChunkFails BY <1>12 DEF ChunkFails
<1>13. CASE WriteFails BY <1>13 DEF WriteFails
<1>14. CASE CloseImage BY <1>14 DEF CloseImage
<1>15. CASE DeleteImage BY <1>15 DEF DeleteImage
<1>16. CASE EndStep BY <1>16 DEF EndStep
<1>17. CASE Complete BY <1>17 DEF Complete
<1>18. CASE ForceUpdate BY <1>18 DEF ForceUpdate
<1>19. CASE LinkChanges BY <1>19 DEF LinkChanges
<1>20. CASE CooldownEnds BY <1>20 DEF CooldownEnds
<1>21. CASE Restart BY <1>21 DEF Restart
<1>22. CASE WipeImage BY <1>22 DEF WipeImage
<1>23. CASE UNCHANGED vars BY <1>23
<1> QED BY <1>1, <1>2, <1>3, <1>4, <1>5, <1>6, <1>7, <1>8, <1>9, <1>10, <1>11, <1>12, <1>13,
           <1>14, <1>15, <1>16, <1>17, <1>18, <1>19, <1>20, <1>21, <1>22, <1>23 DEF Next, Cycle

LEMMA NumbersTyped ==
  ASSUME NumberTypes, [Next]_vars
  PROVE  NumberTypes'
<1> USE Sizes DEF NumberTypes, vars, httpsVars, ghostVars, CheckEnds, LoadFails
<1>1. CASE Gates BY <1>1 DEF Gates
<1>2. CASE BeginSession BY <1>2 DEF BeginSession
<1>3. CASE Skip BY <1>3 DEF Skip
<1>4. CASE Ask
  <2>1. req + 1 \in 0..MaxRequests
    <3>1. wpc = "dispatch"
      BY <1>4 DEF Ask
    <3>2. req < MaxRequests
      BY <3>1
    <3>3. req \in 0..MaxRequests
      OBVIOUS
    <3> QED BY <3>2, <3>3
  <2>2. \/ req' = req + 1 /\ flight' = req + 1
        \/ req' = req /\ flight' = flight
    BY <1>4, Zenon DEF Ask
  <2>3. wpc' \in {"wait", "done"} /\ forced' = forced /\ boots' = boots
    BY <1>4 DEF Ask
  <2> QED BY <2>1, <2>2, <2>3
<1>5. CASE Receive BY <1>5 DEF Receive
<1>6. CASE WaitTimeout BY <1>6 DEF WaitTimeout
<1>7. CASE ReadAnswer BY <1>7 DEF ReadAnswer
<1>8. CASE QuerySize BY <1>8 DEF QuerySize
<1>9. CASE MakeSpace BY <1>9 DEF MakeSpace
<1>10. CASE OpenImage BY <1>10 DEF OpenImage
<1>11. CASE Chunk BY <1>11 DEF Chunk
<1>12. CASE ChunkFails BY <1>12 DEF ChunkFails
<1>13. CASE WriteFails BY <1>13 DEF WriteFails
<1>14. CASE CloseImage BY <1>14 DEF CloseImage
<1>15. CASE DeleteImage BY <1>15 DEF DeleteImage
<1>16. CASE EndStep BY <1>16 DEF EndStep
<1>17. CASE Complete BY <1>17 DEF Complete
<1>18. CASE ForceUpdate BY <1>18 DEF ForceUpdate
<1>19. CASE LinkChanges BY <1>19 DEF LinkChanges
<1>20. CASE CooldownEnds BY <1>20 DEF CooldownEnds
<1>21. CASE Restart BY <1>21 DEF Restart
<1>22. CASE WipeImage BY <1>22 DEF WipeImage
<1>23. CASE UNCHANGED vars BY <1>23
<1> QED BY <1>1, <1>2, <1>3, <1>4, <1>5, <1>6, <1>7, <1>8, <1>9, <1>10, <1>11, <1>12, <1>13,
           <1>14, <1>15, <1>16, <1>17, <1>18, <1>19, <1>20, <1>21, <1>22, <1>23 DEF Next, Cycle

LEMMA EventsTyped ==
  ASSUME NumberTypes, EventTypes, [Next]_vars
  PROVE  EventTypes'
<1> USE DEF EventTypes, httpsVars
<1>1. CASE Receive
  <2>1. events # <<>> /\ events' = Tail(events) /\ verdict' = Head(events).id
    BY <1>1 DEF Receive
  <2>2. Head(events) \in Events /\ events' \in Seq(Events)
    BY <2>1, HeadTailProperties
  <2> QED BY <2>1, <2>2, Sizes DEF Events
<1>2. CASE Complete
  <2>1. PICK ok \in BOOLEAN : events' = IF Len(events) < QueueDepth
                                THEN Append(events, [id |-> flight, ok |-> ok]) ELSE events
    BY <1>2 DEF Complete
  <2>2. flight \in 1..MaxRequests
    BY <1>2, Sizes DEF Complete, NumberTypes
  <2>3. [id |-> flight, ok |-> ok] \in Events
    BY <2>2, Zenon DEF Events
  <2> QED BY <1>2, <2>1, <2>3, AppendProperties DEF Complete
<1>3. CASE Restart
  <2>1. events' = <<>> /\ verdict' = 0
    BY <1>3 DEF Restart
  <2> QED BY <2>1, EmptySeq, Sizes
<1>4. CASE UNCHANGED <<events, verdict>>
  BY <1>4
<1>5. CASE UNCHANGED vars
  BY <1>5 DEF vars
<1> QED BY <1>1, <1>2, <1>3, <1>4, <1>5
        DEF Next, Cycle, Gates, BeginSession, Skip, Ask, WaitTimeout, ReadAnswer, QuerySize,
            MakeSpace, OpenImage, Chunk, ChunkFails, WriteFails, CloseImage, DeleteImage,
            EndStep, ForceUpdate, WipeImage, LinkChanges, CooldownEnds

LEMMA LoadsTyped ==
  ASSUME LoadTypes, [Next]_vars
  PROVE  LoadTypes'
<1> USE Sizes, FileTypes DEF LoadTypes, loadVars, ghostVars
<1>1. CASE OpenImage
  <2>1. \/ file' = Image(0) /\ offset' = 0 /\ tries' = 2
        \/ wpc' = "done" /\ UNCHANGED loadVars
    BY <1>1 DEF OpenImage, LoadFails
  <2> QED BY <2>1
<1>2. CASE Chunk
  <2>1. PICK n \in 1..ChunkSize :
          n <= Size - offset /\ offset' = offset + n /\ file' = Longer(n)
    BY <1>2 DEF Chunk, Advance
  <2>2. \/ file.exists /\ file.length = offset
        \/ file = NoFile /\ ~file.exists /\ wiped
    BY <1>2 DEF Chunk, Image, NoFile
  <2>3. /\ offset' \in 0..Size
        /\ file' = Image(offset') \/ (file' = NoFile /\ wiped)
    BY <2>1, <2>2 DEF Longer
  <2> QED BY <1>2, <2>3 DEF Chunk
<1>3. CASE ChunkFails
  BY <1>3 DEF ChunkFails
<1>4. CASE WriteFails
  <2>1. PICK n \in 0..ChunkSize : n <= Size - offset /\ file' = Longer(n)
    BY <1>4 DEF WriteFails
  <2>2. (file.exists /\ file.length = offset) \/ ~file.exists
    BY <1>4 DEF WriteFails, Image, NoFile
  <2>3. offset + n \in 0..Size /\ file' \in {file, Image(offset + n)}
    BY <2>1, <2>2 DEF Longer
  <2> QED BY <1>4, <2>3 DEF WriteFails
<1>5. CASE MakeSpace \/ DeleteImage
  BY <1>5 DEF MakeSpace, DeleteImage, LoadFails
<1>6. CASE Restart
  <2>1. wpc' = "idle" /\ offset' = 0 /\ tries' = 2 /\ file' \in {file, NoFile}
    BY <1>6 DEF Restart
  <2> QED BY <2>1
<1>7. CASE wpc' # "chunk" /\ UNCHANGED loadVars
  BY <1>7
<1>8. CASE UNCHANGED <<wpc, loadVars, wiped>>
  BY <1>8
<1>9. CASE Gates \/ BeginSession \/ Skip \/ Ask \/ Receive \/ WaitTimeout \/ ReadAnswer
             \/ QuerySize \/ CloseImage \/ EndStep
  BY <1>7, <1>9 DEF Gates, BeginSession, Skip, Ask, Receive, WaitTimeout, ReadAnswer,
                    QuerySize, CloseImage, EndStep, CheckEnds, LoadFails
<1>10. CASE Complete \/ ForceUpdate \/ LinkChanges \/ CooldownEnds
  BY <1>8, <1>10 DEF Complete, ForceUpdate, LinkChanges, CooldownEnds
<1>11. CASE UNCHANGED vars
  BY <1>8, <1>11 DEF vars
<1>12. CASE WipeImage
  BY <1>12 DEF WipeImage
<1> QED BY <1>1, <1>2, <1>3, <1>4, <1>5, <1>6, <1>9, <1>10, <1>11, <1>12 DEF Next, Cycle

(* Every variable of the update has its type (TypeOK): neither a short     *)
(* read nor a retry moves the offset beyond the end of the image.          *)
THEOREM TypeCorrect == Spec => []TypeOK
<1> DEFINE Types == FlagTypes /\ PlaceTypes /\ NumberTypes /\ EventTypes /\ LoadTypes
<1>1. Init => Types
  <2> SUFFICES ASSUME Init PROVE Types
    OBVIOUS
  <2>1. FlagTypes BY Zenon DEF Init, FlagTypes
  <2>2. PlaceTypes BY DEF Init, PlaceTypes
  <2>5. NumberTypes BY Sizes DEF Init, NumberTypes
  <2>3. EventTypes BY EmptySeq, Sizes DEF Init, EventTypes
  <2>4. LoadTypes BY FileTypes, Sizes DEF Init, LoadTypes
  <2> QED BY <2>1, <2>2, <2>3, <2>4, <2>5
<1>2. Types /\ [Next]_vars => Types'
  BY FlagsTyped, PlacesTyped, NumbersTyped, EventsTyped, LoadsTyped
<1>3. Types => TypeOK
  BY DEF FlagTypes, PlaceTypes, NumberTypes, EventTypes, LoadTypes, TypeOK, Events
<1> QED BY <1>1, <1>2, <1>3, PTL DEF Spec

-----------------------------------------------------------------------------
(* The image *)

\* Between MakeSpace and the end of a download the file is anything; outside
\* of that it is what the report says.
ImageInv ==
  /\ wpc \notin {"open", "chunk", "delete"} /\ reason = "ok"
       => file = Image(Size) \/ (file = NoFile /\ wiped)
  /\ wpc \notin {"chunk", "delete"} /\ file.exists => file.length = Size \/ undeleted

LEMMA ImageStep ==
  ASSUME LoadTypes, ImageInv, [Next]_vars
  PROVE  ImageInv'
<1> USE DEF ImageInv, loadVars, otaVars, ghostVars, CheckEnds, LoadFails
<1>1. CASE MakeSpace
  <2>1. (file'.exists => undeleted') /\ (wpc' = "open" \/ reason' = "download")
    BY <1>1 DEF MakeSpace
  <2> QED BY <2>1
<1>2. CASE OpenImage
  <2>1. wpc = "open" /\ undeleted' = undeleted
    BY <1>2 DEF OpenImage
  <2>2. \/ wpc' = "chunk"
        \/ wpc' = "done" /\ reason' = "download" /\ file' = file
    BY <1>2 DEF OpenImage
  <2> QED BY <2>1, <2>2
<1>3. CASE Chunk \/ ChunkFails \/ WriteFails
  BY <1>3 DEF Chunk, ChunkFails, WriteFails
<1>4. CASE CloseImage
  <2>1. offset = Size /\ (file = Image(offset) \/ (file = NoFile /\ wiped))
    BY <1>4, Sizes DEF CloseImage, LoadTypes
  <2>2. /\ file' = Image(Size) \/ (file' = NoFile /\ wiped')
        /\ file'.exists => file'.length = Size
    BY <1>4, <2>1 DEF CloseImage, Image, NoFile
  <2> QED BY <2>2
<1>5. CASE DeleteImage
  <2>1. (file'.exists => undeleted') /\ reason' = "download"
    BY <1>5 DEF DeleteImage
  <2> QED BY <2>1
<1>6. CASE Restart
  <2>1. (file'.exists => undeleted') /\ reason' = "none"
    BY <1>6 DEF Restart
  <2> QED BY <2>1
<1>7. CASE Gates \/ BeginSession \/ Skip \/ Ask \/ Receive \/ WaitTimeout \/ ReadAnswer
             \/ QuerySize \/ EndStep
  <2>1. UNCHANGED <<file, undeleted, wiped>> /\ wpc \notin {"open", "chunk", "delete"}
    BY <1>7 DEF Gates, BeginSession, Skip, Ask, Receive, WaitTimeout, ReadAnswer, QuerySize,
                EndStep
  <2>2. reason' = reason \/ reason' # "ok"
    BY <1>7 DEF Gates, BeginSession, Skip, Ask, Receive, WaitTimeout, ReadAnswer, QuerySize,
                EndStep
  <2> QED BY <2>1, <2>2
<1>8. CASE Complete \/ ForceUpdate \/ LinkChanges \/ CooldownEnds
  BY <1>8 DEF Complete, ForceUpdate, LinkChanges, CooldownEnds
<1>9. CASE WipeImage
  BY <1>9 DEF WipeImage, NoFile
<1>10. CASE UNCHANGED vars
  BY <1>10 DEF vars
<1> QED BY <1>1, <1>2, <1>3, <1>4, <1>5, <1>6, <1>7, <1>8, <1>9, <1>10 DEF Next, Cycle

LEMMA LoadsStartTyped == Init => LoadTypes
  BY FileTypes, Sizes DEF Init, LoadTypes

(* A cycle that reports an image has the whole of it, or a command has     *)
(* deleted it, and nothing partial outlives a cycle or a power loss unless *)
(* a deletion failed (ImageIsWhole).                                       *)
THEOREM ImagesAreWhole == Spec => []ImageIsWhole
<1>1. Init => LoadTypes /\ ImageInv
  BY LoadsStartTyped DEF Init, ImageInv, NoFile
<1>2. LoadTypes /\ ImageInv /\ [Next]_vars => LoadTypes' /\ ImageInv'
  BY LoadsTyped, ImageStep
<1>3. ImageInv => ImageIsWhole
  BY DEF ImageInv, ImageIsWhole
<1> QED BY <1>1, <1>2, <1>3, PTL DEF Spec

-----------------------------------------------------------------------------
(* Forced cycles *)

\* A cycle past the gates is a session, no command can be accepted in it, and
\* a forced one that ends has asked.
ForceInv ==
  /\ wpc \in {"dispatch", "done"} \cup WaitStates \cup LoadStates => session
  /\ wpc \in WaitStates \cup LoadStates => tried
  /\ wpc = "done" /\ force => tried

LEMMA ForceStep ==
  ASSUME NumberTypes, ForceInv, [Next]_vars
  PROVE  ForceInv' /\ (force /\ ~force' /\ boots' = boots => tried)
<1> USE DEF ForceInv, otaVars, ghostVars, WaitStates, LoadStates, CheckEnds, LoadFails
<1>1. CASE Gates BY <1>1 DEF Gates
<1>9. CASE BeginSession BY <1>9 DEF BeginSession
<1>10. CASE Skip BY <1>10 DEF Skip
<1>11. CASE Ask BY <1>11 DEF Ask
<1>2. CASE Receive \/ WaitTimeout \/ ReadAnswer
  BY <1>2 DEF Receive, WaitTimeout, ReadAnswer
<1>3. CASE QuerySize \/ MakeSpace \/ OpenImage \/ Chunk \/ ChunkFails \/ WriteFails
             \/ CloseImage \/ DeleteImage
  <2>1. wpc \in LoadStates /\ wpc' \in LoadStates \cup {"done"}
    BY <1>3 DEF QuerySize, MakeSpace, OpenImage, Chunk, ChunkFails, WriteFails, CloseImage,
                DeleteImage
  <2>2. UNCHANGED <<session, force, tried>>
    BY <1>3 DEF QuerySize, MakeSpace, OpenImage, Chunk, ChunkFails, WriteFails, CloseImage,
                DeleteImage
  <2>3. session /\ tried
    BY <2>1
  <2> QED BY <2>2, <2>3
<1>4. CASE EndStep
  BY <1>4 DEF EndStep
<1>5. CASE ForceUpdate
  BY <1>5 DEF ForceUpdate, Busy
<1>6. CASE Complete \/ WipeImage \/ LinkChanges \/ CooldownEnds
  BY <1>6 DEF Complete, WipeImage, LinkChanges, CooldownEnds
<1>7. CASE Restart
  <2>1. wpc' = "idle" /\ boots' = boots + 1
    BY <1>7 DEF Restart
  <2>2. boots' # boots
    BY <2>1, Sizes DEF NumberTypes
  <2> QED BY <2>1, <2>2
<1>8. CASE UNCHANGED vars
  BY <1>8 DEF vars
<1> QED BY <1>1, <1>2, <1>3, <1>4, <1>5, <1>6, <1>7, <1>8, <1>9, <1>10, <1>11 DEF Next, Cycle

(* The flag of an accepted command is cleared only after a version check   *)
(* was attempted, or by the end of the run (ForcedCycleRuns).              *)
THEOREM ForcedCyclesRun == Spec => ForcedCycleRuns
<1>1. Init => NumberTypes /\ ForceInv
  BY Sizes DEF Init, NumberTypes, ForceInv, WaitStates, LoadStates
<1>2. NumberTypes /\ ForceInv /\ [Next]_vars => NumberTypes' /\ ForceInv'
  BY NumbersTyped, ForceStep
<1>3. NumberTypes /\ ForceInv /\ [Next]_vars => [force /\ ~force' /\ boots' = boots => tried]_vars
  BY ForceStep
<1> QED BY <1>1, <1>2, <1>3, PTL DEF Spec, ForcedCycleRuns

-----------------------------------------------------------------------------
(* Answers *)

\* What is queued, by the number of the request: nothing, the answer to the
\* last one, or, while a wait is on, the answer to the one before it.
QueueInv ==
  /\ flight \in {0, req}
  /\ \/ events = <<>>
     \/ flight = 0 /\ Len(events) = 1 /\ events[1].id = req
     \/ wpc = "wait" /\ flight = req /\ Len(events) = 1 /\ events[1].id = req - 1
     \/ /\ wpc = "wait" /\ flight = 0 /\ Len(events) = 2
        /\ events[1].id = req - 1 /\ events[2].id = req

VerdictInv == QueueInv /\ (wpc = "read" => verdict >= req - 1)

LEMMA VerdictStep ==
  ASSUME NumberTypes, EventTypes, VerdictInv, [Next]_vars
  PROVE  VerdictInv'
<1> USE DEF VerdictInv, QueueInv, httpsVars
<1>1. CASE Ask
  <2>1. wpc = "dispatch" /\ events' = events /\ wpc' # "read"
    BY <1>1 DEF Ask, CheckEnds
  <2>2. CASE flight = 0 /\ req' = req + 1 /\ flight' = req + 1 /\ wpc' = "wait"
    <3>1. events = <<>> \/ (Len(events) = 1 /\ events[1].id = req)
      BY <2>1
    <3>2. req = req' - 1 /\ flight' = req'
      BY <2>2 DEF NumberTypes
    <3> QED BY <2>1, <2>2, <3>1, <3>2
  <2>3. CASE req' = req /\ flight' = flight
    BY <2>1, <2>3
  <2> QED BY <1>1, <2>2, <2>3 DEF Ask
<1>2. CASE Complete
  <2>1. PICK ok \in BOOLEAN : events' = IF Len(events) < QueueDepth
                                THEN Append(events, [id |-> flight, ok |-> ok]) ELSE events
    BY <1>2 DEF Complete
  <2>2. flight = req /\ flight' = 0 /\ flight # 0 /\ wpc' = wpc /\ req' = req /\ verdict' = verdict
    BY <1>2 DEF Complete
  <2>3. CASE events = <<>>
    <3>1. events' = <<[id |-> flight, ok |-> ok]>>
      BY <2>1, <2>3, Sizes
    <3> QED BY <2>2, <3>1
  <2>4. CASE wpc = "wait" /\ Len(events) = 1 /\ events[1].id = req - 1
    <3>0. events \in Seq(Events) /\ [id |-> flight, ok |-> ok] \in Events
      <4>1. flight \in 1..MaxRequests
        BY <2>2, Sizes DEF NumberTypes
      <4> QED BY <4>1 DEF EventTypes, Events
    <3>1. events' = Append(events, [id |-> flight, ok |-> ok])
      BY <2>1, <2>4, Sizes
    <3>2. Len(events') = 2 /\ events'[1] = events[1] /\ events'[2].id = flight
      <4> DEFINE e == [id |-> flight, ok |-> ok]
      <4>1. e.id = flight
        OBVIOUS
      <4> HIDE DEF e
      <4>2. events' = Append(events, e) /\ e \in Events
        BY <3>0, <3>1 DEF e
      <4>3. /\ Len(events') = Len(events) + 1
            /\ \A i \in 1..Len(events) : events'[i] = events[i]
            /\ events'[Len(events) + 1] = e
        BY <3>0, <4>2, AppendProperties
      <4>4. 1 \in 1..Len(events) /\ Len(events) + 1 = 2
        BY <2>4
      <4> QED BY <4>1, <4>3, <4>4
    <3> QED BY <2>2, <2>4, <3>2
  <2> QED BY <2>2, <2>3, <2>4
<1>3. CASE Receive
  <2>1. /\ wpc = "wait" /\ events # <<>> /\ events' = Tail(events)
        /\ verdict' = Head(events).id /\ wpc' \in {"read", "done"}
        /\ req' = req /\ flight' = flight
    BY <1>3 DEF Receive, CheckEnds
  <2>2. events \in Seq(Events) /\ Head(events) = events[1]
    BY <2>1 DEF EventTypes
  <2>3. CASE Len(events) = 1 /\ events[1].id \in {req, req - 1}
    <3>1. events' = <<>>
      BY <2>1, <2>2, <2>3
    <3>2. verdict' >= req - 1
      BY <2>1, <2>2, <2>3 DEF NumberTypes
    <3> QED BY <2>1, <3>1, <3>2
  <2>4. CASE flight = 0 /\ Len(events) = 2 /\ events[1].id = req - 1 /\ events[2].id = req
    <3>1. Len(events') = 1 /\ events'[1].id = req
      BY <2>1, <2>2, <2>4
    <3>2. verdict' >= req - 1
      BY <2>1, <2>2, <2>4 DEF NumberTypes
    <3> QED BY <2>1, <2>4, <3>1, <3>2
  <2> QED BY <2>1, <2>3, <2>4
<1>4. CASE WaitTimeout
  BY <1>4 DEF WaitTimeout, CheckEnds
<1>5. CASE Restart
  BY <1>5 DEF Restart
<1>6. CASE wpc \notin {"wait", "dispatch"} /\ wpc' # "read" /\ UNCHANGED httpsVars
  BY <1>6
<1>7. CASE Gates \/ BeginSession \/ ReadAnswer \/ QuerySize \/ MakeSpace \/ OpenImage
             \/ Chunk \/ ChunkFails \/ WriteFails \/ CloseImage \/ DeleteImage \/ EndStep
  BY <1>6, <1>7 DEF Gates, BeginSession, ReadAnswer, QuerySize, MakeSpace, OpenImage, Chunk,
                    ChunkFails, WriteFails, CloseImage, DeleteImage, EndStep, CheckEnds,
                    LoadFails
<1>8. CASE Skip
  BY <1>8 DEF Skip
<1>9. CASE ForceUpdate \/ WipeImage \/ LinkChanges \/ CooldownEnds
  BY <1>9 DEF ForceUpdate, WipeImage, LinkChanges, CooldownEnds
<1>10. CASE UNCHANGED vars
  BY <1>10 DEF vars
<1> QED BY <1>1, <1>2, <1>3, <1>4, <1>5, <1>7, <1>8, <1>9, <1>10 DEF Next, Cycle

(* The event that ends a wait is the answer to this version check or to    *)
(* the one before it, and at most two are ever queued (VerdictIsRecent).   *)
THEOREM VerdictsAreRecent == Spec => []VerdictIsRecent
<1>1. Init => NumberTypes /\ EventTypes /\ VerdictInv
  BY EmptySeq, Sizes DEF Init, NumberTypes, EventTypes, VerdictInv, QueueInv
<1>2. NumberTypes /\ EventTypes /\ VerdictInv /\ [Next]_vars
        => NumberTypes' /\ EventTypes' /\ VerdictInv'
  BY NumbersTyped, EventsTyped, VerdictStep
<1>3. VerdictInv => VerdictIsRecent
  <2> SUFFICES ASSUME VerdictInv PROVE VerdictIsRecent
    OBVIOUS
  <2>1. Len(events) <= 2
    <3>1. CASE events = <<>>
      BY <3>1
    <3>2. CASE Len(events) = 1
      BY <3>2
    <3>3. CASE Len(events) = 2
      BY <3>3
    <3> QED BY <3>1, <3>2, <3>3, Zenon DEF VerdictInv, QueueInv
  <2> QED BY <2>1 DEF VerdictInv, VerdictIsRecent
<1> QED BY <1>1, <1>2, <1>3, PTL DEF Spec
=============================================================================
