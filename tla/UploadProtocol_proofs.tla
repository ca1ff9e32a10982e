----------------------- MODULE UploadProtocol_proofs -----------------------
(***************************************************************************)
(* Proofs about UploadProtocol, for a file of any length, any window, any    *)
(* number of retries and both sets of targets.  Inv says what each call of   *)
(* execute() finds in the shared folder; the safety properties and the       *)
(* refinement of AtomicDelivery follow from it, and so does what the monitor *)
(* of the Windows app, watching that folder, announces twice: nothing.       *)
(***************************************************************************)
EXTENDS UploadWatched, WellFoundedInduction, TLAPS

\* What the size of a part says about its content: its last chunk is there, or was cut short.
Sized(f) == (f.size = 0 \/ f.size \in f.data \/ f.cut) /\ \A d \in f.data : d <= f.size

Placed(r) == \A t \in Targets :
  /\ r[t].part # NoFile => r[t].meta /\ Sized(r[t].part)
  /\ r[t].final # NoFile => Full(r[t].final) \/ Cut(r[t].final)

\* The write window: the chunks taken from the source are in the part, outstanding or cut short.
Windowed ==
  /\ active # {} \/ broken => pc = "write"
  /\ pc = "write" =>
       /\ remote[target].part # NoFile
       /\ active \subseteq 1..(next - 1)
       /\ ~broken => /\ \/ (1..(next - 1)) \ active \subseteq remote[target].part.data
                        \/ Cut(remote[target].part)
                     /\ next <= N => active # {}

\* What each later call relies on.
Phases ==
  /\ pc = "meta" /\ remote[target].part = NoFile => next = 1
  /\ pc = "open" => next = 1 /\ remote[target].part = NoFile /\ remote[target].meta
  /\ pc = "sync" => Whole(remote[target].part) \/ Cut(remote[target].part)
  /\ pc \in {"withdraw", "rename"} => Full(remote[target].part) \/ Cut(remote[target].part)
  /\ pc = "unmeta" => remote[target].part = NoFile
  /\ pc \in {"unmeta", "verify", "done"} => Seen(remote[target].final) \in Delivery!Kinds
  /\ row = "completed" => pc = "idle"

Inv == TypeOK /\ Placed(remote) /\ Windowed /\ Phases

-----------------------------------------------------------------------------
\* A set of numbers with an upper bound has a greatest one.
LEMMA GreatestExists ==
  ASSUME NEW M \in Nat, NEW S \in SUBSET (0..M), S # {}
  PROVE  \E s \in S : \A x \in S : x <= s
<1> DEFINE T == {M - x : x \in S}
<1>1. T \subseteq Nat
  BY \A x \in S : x \in 0..M
<1>2. PICK e \in S : TRUE
  OBVIOUS
<1>3. T # {}
  BY <1>2, M - e \in T
<1>4. PICK t \in T : \A y \in T : ~ (<<y, t>> \in OpToRel(<, Nat))
  <2> HIDE DEF T
  <2> QED BY <1>1, <1>3, WFMin, NatLessThanWellFounded
<1>5. \A y \in T : t <= y
  <2> HIDE DEF T
  <2> TAKE y \in T
  <2>1. y \in Nat /\ t \in Nat
    BY <1>1, <1>4
  <2>2. ~ (<<y, t>> \in OpToRel(<, Nat))
    BY <1>4
  <2>3. ~ (y < t)
    BY <2>1, <2>2 DEF OpToRel
  <2> QED BY <2>1, <2>3
<1>6. PICK s \in S : t = M - s
  OBVIOUS
<1>7. ASSUME NEW x \in S PROVE x <= s
  <2>1. M - s <= M - x
    BY <1>5, <1>6, M - x \in T
  <2>2. x \in 0..M /\ s \in 0..M
    OBVIOUS
  <2> HIDE DEF T
  <2> QED BY <2>1, <2>2
<1> QED BY <1>7

\* Writing chunks leaves a file a file: it grows to the last chunk written, and keeps the rest.
LEMMA AppliedFile ==
  ASSUME NEW f \in Files, Sized(f), NEW S \in SUBSET (1..N)
  PROVE  LET g == Applied(f, S) IN
         g \in Files /\ Sized(g) /\ g.data = f.data \cup S /\ g.cut = f.cut /\ (Full(f) => Full(g))
<1> DEFINE e == Extent(f, S)
<1>1. /\ f.size \in 0..N /\ f.data \in SUBSET (1..N) /\ f.stamp \in Stamps /\ f.cut \in BOOLEAN
      /\ N \in Nat
  BY UploadAssumption DEF Files
<1>2. {f.size} \cup S \in SUBSET (0..N)
  <2> SUFFICES ASSUME NEW x \in S PROVE x \in 0..N
    BY <1>1
  <2>1. x \in 1..N
    OBVIOUS
  <2> QED BY <2>1, <1>1
<1>3. \E x \in {f.size} \cup S : \A y \in {f.size} \cup S : y <= x
  BY <1>1, <1>2, GreatestExists
<1>4. e \in {f.size} \cup S /\ \A y \in {f.size} \cup S : y <= e
  BY <1>3 DEF Extent
<1> HIDE DEF e
<1>5. Applied(f, S) = [size |-> e, data |-> f.data \cup S, stamp |-> f.stamp, cut |-> f.cut]
  <2>1. Applied(f, S) = [f EXCEPT !.size = e, !.data = @ \cup S]
    BY DEF Applied, e
  <2> QED BY <2>1 DEF Files
<1>6. Applied(f, S) \in Files
  BY <1>1, <1>2, <1>4, <1>5 DEF Files
<1>7. Sized(Applied(f, S))
  <2>1. e = 0 \/ e \in f.data \cup S \/ f.cut
    BY <1>4 DEF Sized
  <2>2. \A d \in f.data \cup S : d <= e
    <3> TAKE d \in f.data \cup S
    <3>1. CASE d \in S
      BY <3>1, <1>4
    <3>2. CASE d \in f.data
      <4>1. d <= f.size /\ f.size <= e /\ d \in Nat /\ e \in Nat
        BY <3>2, <1>1, <1>2, <1>4 DEF Sized
      <4> QED BY <4>1, <1>1
    <3> QED BY <3>1, <3>2
  <2> QED BY <2>1, <2>2, <1>5 DEF Sized
<1>8. Full(f) => Full(Applied(f, S))
  <2> SUFFICES ASSUME Full(f) PROVE e = N
    BY <1>5, <1>6, UploadAssumption DEF Full
  <2>1. e \in 0..N /\ N <= e
    BY <1>2, <1>4 DEF Full
  <2> QED BY <2>1, <1>1
<1> QED BY <1>5, <1>6, <1>7, <1>8

\* A write cut short leaves a file a file, and reaches beyond its end into the chunk at most.
LEMMA ShortFile ==
  ASSUME NEW f \in Files, Sized(f), NEW k \in 1..N
  PROVE  LET g == CutShort(f, k) IN
         /\ g \in Files /\ Sized(g) /\ g.data = f.data /\ g.cut /\ f.size <= g.size
         /\ g.stamp = f.stamp /\ (Full(f) => Full(g)) /\ (Whole(f) => Whole(g)) /\ g # NoFile
<1> DEFINE e == Extent(f, {k - 1})
<1>1. f.size \in 0..N /\ f.data \in SUBSET (1..N) /\ f.stamp \in Stamps /\ N \in Nat
  BY UploadAssumption DEF Files
<1>2. {f.size} \cup {k - 1} \in SUBSET (0..N)
  BY <1>1
<1>3. \E x \in {f.size} \cup {k - 1} : \A y \in {f.size} \cup {k - 1} : y <= x
  BY <1>1, <1>2, GreatestExists
<1>4. e \in {f.size} \cup {k - 1} /\ f.size <= e
  BY <1>3 DEF Extent
<1>5. e \in 0..N
  BY <1>2, <1>4
<1> HIDE DEF e
<1>6. CutShort(f, k) = [size |-> e, data |-> f.data, stamp |-> f.stamp, cut |-> TRUE]
  <2>1. CutShort(f, k) = [f EXCEPT !.size = e, !.cut = TRUE]
    BY DEF CutShort, e
  <2> QED BY <2>1 DEF Files
<1>7. CutShort(f, k) \in Files
  BY <1>1, <1>5, <1>6 DEF Files
<1>8. \A d \in f.data : d <= e
  <2> TAKE d \in f.data
  <2>1. d <= f.size /\ d \in Nat /\ e \in Nat
    BY <1>1, <1>5 DEF Sized
  <2> QED BY <2>1, <1>1, <1>4
<1>9. Sized(CutShort(f, k))
  BY <1>6, <1>8 DEF Sized
<1>10. f.size = N => e = N
  BY <1>1, <1>4, <1>5
<1>11. CutShort(f, k) # NoFile
  BY <1>7, UploadAssumption
<1> QED BY <1>4, <1>6, <1>7, <1>9, <1>10, <1>11 DEF Full, Whole

\* A file that grew in a part and may be published: never the one from before, and of some kind.
LEMMA SeenKind ==
  ASSUME NEW f \in Files, Sized(f), Full(f) \/ Cut(f)
  PROVE  Seen(f) = Content(f) /\ Content(f) \in Delivery!Kinds
<1>1. f # NoFile
  BY UploadAssumption
<1>2. f # Old
  BY UploadAssumption DEF Old, Sized
<1> QED BY <1>1, <1>2 DEF Seen, Content, Delivery!Kinds

LEMMA OldFile == Old \in Files /\ Full(Old) /\ Old # NoFile
<1>1. Old \in Files
  BY UploadAssumption DEF Old, Files
<1> QED BY <1>1, UploadAssumption DEF Old, Full

\* A part file that is whole in size and content.
LEMMA FullData ==
  ASSUME NEW f \in Files, Sized(f), f.data = 1..N
  PROVE  Whole(f) /\ Full(f)
<1>1. N \in f.data /\ f.size \in 0..N /\ N \in Nat
  BY UploadAssumption DEF Files
<1>2. N <= f.size
  BY <1>1 DEF Sized
<1>3. f.size = N
  BY <1>1, <1>2
<1> QED BY <1>3, UploadAssumption DEF Whole, Full

-----------------------------------------------------------------------------
\* What a change of one field of the target's entry leaves as it was.
LEMMA FinalChange ==
  ASSUME remote \in Remotes, target \in Targets, NEW f \in Files \cup {NoFile}
  PROVE  /\ WithFinal(f) \in Remotes
         /\ \A t \in Targets :
              WithFinal(f)[t] = IF t = target THEN [remote[t] EXCEPT !.final = f] ELSE remote[t]
BY DEF Remotes, WithFinal

LEMMA PartChange ==
  ASSUME remote \in Remotes, target \in Targets, NEW f \in Files \cup {NoFile}
  PROVE  /\ WithPart(f) \in Remotes
         /\ \A t \in Targets :
              WithPart(f)[t] = IF t = target THEN [remote[t] EXCEPT !.part = f] ELSE remote[t]
BY DEF Remotes, WithPart

LEMMA MetaChange ==
  ASSUME remote \in Remotes, target \in Targets, NEW b \in BOOLEAN
  PROVE  /\ WithMeta(b) \in Remotes
         /\ \A t \in Targets :
              WithMeta(b)[t] = IF t = target THEN [remote[t] EXCEPT !.meta = b] ELSE remote[t]
BY DEF Remotes, WithMeta

\* The outstanding writes the server carries out extend the part.
LEMMA PartWithFolder ==
  ASSUME TypeOK, Placed(remote), Windowed, NEW S \in SUBSET active
  PROVE  /\ PartWith(S) \in Remotes /\ Placed(PartWith(S))
         /\ \A t \in Targets : /\ Full(remote[t].part) => Full(PartWith(S)[t].part)
                               /\ Cut(remote[t].part) => Cut(PartWith(S)[t].part)
         /\ \A t \in Targets : /\ PartWith(S)[t].final = remote[t].final
                               /\ PartWith(S)[t].meta = remote[t].meta
                               /\ t # target => PartWith(S)[t] = remote[t]
                               /\ PartWith(S)[t].part = NoFile <=> remote[t].part = NoFile
         /\ pc = "write" => PartWith(S)[target].part.data = remote[target].part.data \cup S
         /\ active = {} => PartWith(S) = remote
<1>1. remote \in Remotes /\ target \in Targets /\ active \subseteq 1..N
  BY DEF TypeOK, Remotes
<1>2. CASE S = {}
  <2>1. PartWith(S) = remote
    BY <1>2 DEF PartWith
  <2>2. pc = "write" => remote[target].part.data = remote[target].part.data \cup S
    BY <1>2
  <2> QED BY <2>1, <2>2, <1>1
<1>3. CASE S # {}
  <2> DEFINE f == remote[target].part
             g == Applied(f, S)
  <2>1. pc = "write" /\ f # NoFile /\ active # {}
    BY <1>3 DEF Windowed
  <2>2. f \in Files /\ Sized(f)
    BY <2>1, <1>1 DEF Placed, Remotes
  <2>3. g \in Files /\ Sized(g) /\ g.data = f.data \cup S /\ g.cut = f.cut /\ (Full(f) => Full(g))
    BY <1>1, <2>2, AppliedFile
  <2>4. PartWith(S) = WithPart(g)
    BY <1>3 DEF PartWith
  <2> HIDE DEF g
  <2>5. g # NoFile
    BY <2>3, UploadAssumption
  <2>6. \A t \in Targets : WithPart(g)[t] = IF t = target THEN [remote[t] EXCEPT !.part = g]
                                             ELSE remote[t]
    BY <1>1, <2>3, PartChange
  <2>7. \A t \in Targets : remote[t] \in [final : Files \cup {NoFile}, part : Files \cup {NoFile},
                                          meta : BOOLEAN]
    BY <1>1 DEF Remotes
  <2>8. WithPart(g) \in Remotes
    BY <1>1, <2>3, PartChange
  <2>9. Placed(WithPart(g))
    BY <2>1, <2>3, <2>6, <2>7 DEF Placed
  <2>10. \A t \in Targets : /\ Full(remote[t].part) => Full(PartWith(S)[t].part)
                            /\ Cut(remote[t].part) => Cut(PartWith(S)[t].part)
                            /\ PartWith(S)[t].final = remote[t].final
                            /\ PartWith(S)[t].meta = remote[t].meta
                            /\ t # target => PartWith(S)[t] = remote[t]
                            /\ PartWith(S)[t].part = NoFile <=> remote[t].part = NoFile
    <3> TAKE t \in Targets
    <3>1. CASE t # target
      BY <3>1, <2>4, <2>6
    <3>2. CASE t = target
      <4>1. PartWith(S)[t] = [remote[t] EXCEPT !.part = g]
        BY <3>2, <2>4, <2>6
      <4>2. /\ PartWith(S)[t].part = g /\ PartWith(S)[t].final = remote[t].final
            /\ PartWith(S)[t].meta = remote[t].meta
        BY <4>1, <2>7
      <4>3. (Full(remote[t].part) => Full(g)) /\ (Cut(remote[t].part) => Cut(g))
        BY <3>2, <2>3, <2>5 DEF Cut
      <4> QED BY <4>2, <4>3, <3>2, <2>1, <2>5
    <3> QED BY <3>1, <3>2
  <2>11. PartWith(S)[target].part.data = remote[target].part.data \cup S
    BY <1>1, <2>3, <2>4, <2>6, <2>7
  <2>12. PartWith(S) \in Remotes /\ Placed(PartWith(S))
    BY <2>4, <2>8, <2>9
  <2>13. \A t \in Targets : /\ Full(remote[t].part) => Full(PartWith(S)[t].part)
                            /\ Cut(remote[t].part) => Cut(PartWith(S)[t].part)
    BY <2>10
  <2>14. \A t \in Targets : /\ PartWith(S)[t].final = remote[t].final
                            /\ PartWith(S)[t].meta = remote[t].meta
                            /\ t # target => PartWith(S)[t] = remote[t]
                            /\ PartWith(S)[t].part = NoFile <=> remote[t].part = NoFile
    BY <2>10
  <2>15. active # {}
    BY <2>1
  <2> HIDE DEF f
  <2> QED BY <2>11, <2>12, <2>13, <2>14, <2>15
<1> QED BY <1>2, <1>3

LEMMA Initially == Init => Inv
<1> SUFFICES ASSUME Init PROVE Inv
  OBVIOUS
<1>1. Old \in Files /\ Full(Old)
  BY OldFile
<1>2. PICK f \in {NoFile, Old} :
        remote = [t \in Targets |-> IF t = "name" THEN [Nothing EXCEPT !.final = f] ELSE Nothing]
  BY DEF Init
<1>3. \A t \in Targets : /\ remote[t].part = NoFile /\ remote[t].final \in {NoFile, Old}
                         /\ remote[t] \in [final : Files \cup {NoFile}, part : Files \cup {NoFile},
                                          meta : BOOLEAN]
  BY <1>1, <1>2 DEF Nothing
<1>4. TypeOK
  <2>1. remote \in Remotes
    BY <1>2, <1>3 DEF Remotes
  <2>2. 1 \in 1..(N + 1) /\ 0 \in 0..MaxAttempt /\ "name" \in Targets
    BY UploadAssumption
  <2> QED BY <2>1, <2>2 DEF Init, TypeOK, Rows, PCs
<1>5. Placed(remote)
  BY <1>1, <1>3 DEF Placed
<1>6. Windowed /\ Phases
  BY <1>3 DEF Init, Windowed, Phases
<1> QED BY <1>4, <1>5, <1>6 DEF Inv

\* What a call may have done.
LEMMA CallEffect ==
  ASSUME NEW new, NEW after, Call(new, after), link \in BOOLEAN, after \in PCs
  PROVE  /\ link' \in BOOLEAN /\ remote' \in {remote, new} /\ pc' \in {after, "fail"} /\ pc' \in PCs
         /\ pc' # "fail" => remote' = new
BY DEF Call, Answered, Refused, CutOff, PCs

LEMMA TriedEffect ==
  ASSUME NEW new, NEW after, Tried(new, after), link \in BOOLEAN, after \in PCs
  PROVE  link' \in BOOLEAN /\ remote' \in {remote, new} /\ pc' = after
BY DEF Tried, Answered, Refused, CutOff, PCs

LEMMA GoneType ==
  Gone => /\ pc' \in PCs /\ cancelled' \in BOOLEAN /\ attempt' \in 0..MaxAttempt
          /\ target' \in Targets /\ next' \in 1..(N + 1) /\ active' \subseteq 1..N
          /\ broken' \in BOOLEAN
<1>1. 1 \in 1..(N + 1) /\ 0 \in 0..MaxAttempt /\ "name" \in Targets
  BY UploadAssumption
<1> QED BY <1>1 DEF Gone, PCs

\* Between the writes no request is outstanding.
LEMMA Quiet == Windowed /\ pc # "write" => active = {} /\ ~broken
BY DEF Windowed

LEMMA BeginKeeps == Inv /\ Begin => Inv'
<1> SUFFICES ASSUME Inv, Begin PROVE Inv'
  OBVIOUS
<1>1. TypeOK'
  BY UploadAssumption DEF Begin, Inv, TypeOK, Rows, PCs
<1>2. Placed(remote)'
  BY DEF Begin, Inv
<1>3. Windowed'
  BY DEF Begin, Inv, TypeOK, Windowed
<1>4. Phases'
  BY DEF Begin, Inv, TypeOK, Phases
<1> QED BY <1>1, <1>2, <1>3, <1>4 DEF Inv

LEMMA CheckConflictKeeps == Inv /\ CheckConflict => Inv'
<1> SUFFICES ASSUME Inv, CheckConflict PROVE Inv'
  OBVIOUS
<1>1. TypeOK'
  BY UploadAssumption DEF CheckConflict, Inv, TypeOK, Rows, PCs
<1>2. Placed(remote)'
  BY DEF CheckConflict, Inv
<1>3. Windowed'
  BY DEF CheckConflict, Inv, TypeOK, Windowed
<1>4. Phases'
  BY DEF CheckConflict, Inv, TypeOK, Phases
<1> QED BY <1>1, <1>2, <1>3, <1>4 DEF Inv

LEMMA OverwriteKeeps == Inv /\ Overwrite => Inv'
<1> SUFFICES ASSUME Inv, Overwrite PROVE Inv'
  OBVIOUS
<1>1. TypeOK'
  BY UploadAssumption DEF Overwrite, Inv, TypeOK, Rows, PCs
<1>2. Placed(remote)'
  BY DEF Overwrite, Inv
<1>3. Windowed'
  BY DEF Overwrite, Inv, TypeOK, Windowed
<1>4. Phases'
  BY DEF Overwrite, Inv, TypeOK, Phases
<1> QED BY <1>1, <1>2, <1>3, <1>4 DEF Inv

LEMMA RenameUploadKeeps == Inv /\ RenameUpload => Inv'
<1> SUFFICES ASSUME Inv, RenameUpload PROVE Inv'
  OBVIOUS
<1>1. TypeOK'
  BY UploadAssumption DEF RenameUpload, Inv, TypeOK, Rows, PCs
<1>2. Placed(remote)'
  BY DEF RenameUpload, Inv
<1>3. Windowed'
  BY DEF RenameUpload, Inv, TypeOK, Windowed
<1>4. Phases'
  BY DEF RenameUpload, Inv, TypeOK, Phases
<1> QED BY <1>1, <1>2, <1>3, <1>4 DEF Inv

LEMMA SkipKeeps == Inv /\ Skip => Inv'
<1> SUFFICES ASSUME Inv, Skip PROVE Inv'
  OBVIOUS
<1>1. TypeOK'
  BY GoneType, UploadAssumption DEF Skip, Inv, TypeOK, Rows, PCs
<1>2. Placed(remote)'
  BY DEF Skip, Gone, Inv
<1>3. Windowed'
  BY DEF Skip, Gone, Inv, TypeOK, Windowed
<1>4. Phases'
  BY DEF Skip, Gone, Inv, TypeOK, Phases
<1> QED BY <1>1, <1>2, <1>3, <1>4 DEF Inv

LEMMA ReturnedKeeps == Inv /\ Returned => Inv'
<1> SUFFICES ASSUME Inv, Returned PROVE Inv'
  OBVIOUS
<1>1. TypeOK'
  BY GoneType, UploadAssumption DEF Returned, Inv, TypeOK, Rows, PCs
<1>2. Placed(remote)'
  BY DEF Returned, Gone, Inv
<1>3. Windowed'
  BY DEF Returned, Gone, Inv, TypeOK, Windowed
<1>4. Phases'
  BY DEF Returned, Gone, Inv, TypeOK, Phases
<1> QED BY <1>1, <1>2, <1>3, <1>4 DEF Inv

LEMMA CaughtKeeps == Inv /\ Caught => Inv'
<1> SUFFICES ASSUME Inv, Caught PROVE Inv'
  OBVIOUS
<1>1. TypeOK'
  <2>1. CASE Gone
    BY <2>1, GoneType DEF Caught, Inv, TypeOK, Rows
  <2>2. CASE attempt < MaxAttempt /\ attempt' = attempt + 1 /\ pc' = "nap"
    <3>1. attempt' \in 0..MaxAttempt /\ pc' \in PCs
      BY <2>2, UploadAssumption DEF Inv, TypeOK, PCs
    <3> QED BY <2>2, <3>1 DEF Caught, Gone, Inv, TypeOK
  <2>3. attempt >= MaxAttempt \/ attempt < MaxAttempt
    BY UploadAssumption DEF Inv, TypeOK
  <2> QED BY <2>1, <2>2, <2>3 DEF Caught, Counted, UsedUp
<1>2. Placed(remote)'
  BY DEF Caught, Gone, Counted, UsedUp, Inv
<1>3. Windowed'
  BY DEF Caught, Gone, Counted, UsedUp, Inv, TypeOK, Windowed
<1>4. Phases'
  BY DEF Caught, Gone, Counted, UsedUp, Inv, TypeOK, Phases
<1> QED BY <1>1, <1>2, <1>3, <1>4 DEF Inv

LEMMA NapKeeps == Inv /\ Nap => Inv'
<1> SUFFICES ASSUME Inv, Nap PROVE Inv'
  OBVIOUS
<1>1. TypeOK'
  BY UploadAssumption DEF Nap, Inv, TypeOK, Rows, PCs
<1>2. Placed(remote)'
  BY DEF Nap, Inv
<1>3. Windowed'
  BY DEF Nap, Inv, TypeOK, Windowed
<1>4. Phases'
  BY DEF Nap, Inv, TypeOK, Phases
<1> QED BY <1>1, <1>2, <1>3, <1>4 DEF Inv

LEMMA PauseKeeps == Inv /\ Pause => Inv'
<1> SUFFICES ASSUME Inv, Pause PROVE Inv'
  OBVIOUS
<1>1. TypeOK'
  BY UploadAssumption DEF Pause, Inv, TypeOK, Rows, PCs
<1>2. Placed(remote)'
  BY DEF Pause, Inv
<1>3. Windowed'
  BY DEF Pause, Inv, TypeOK, Windowed
<1>4. Phases'
  BY DEF Pause, Inv, TypeOK, Phases
<1> QED BY <1>1, <1>2, <1>3, <1>4 DEF Inv

LEMMA ResumeKeeps == Inv /\ Resume => Inv'
<1> SUFFICES ASSUME Inv, Resume PROVE Inv'
  OBVIOUS
<1>1. TypeOK'
  BY UploadAssumption DEF Resume, perform, Inv, TypeOK, Rows, PCs
<1>2. Placed(remote)'
  BY DEF Resume, perform, Inv
<1>3. Windowed'
  BY DEF Resume, perform, Inv, TypeOK, Windowed
<1>4. Phases'
  BY DEF Resume, perform, Inv, TypeOK, Phases
<1> QED BY <1>1, <1>2, <1>3, <1>4 DEF Inv

LEMMA CancelKeeps == Inv /\ Cancel => Inv'
<1> SUFFICES ASSUME Inv, Cancel PROVE Inv'
  OBVIOUS
<1>1. TypeOK'
  BY UploadAssumption DEF Cancel, Inv, TypeOK, Rows, PCs
<1>2. Placed(remote)'
  BY DEF Cancel, Inv
<1>3. Windowed'
  BY DEF Cancel, Inv, TypeOK, Windowed
<1>4. Phases'
  BY DEF Cancel, Inv, TypeOK, Phases
<1> QED BY <1>1, <1>2, <1>3, <1>4 DEF Inv

LEMMA RetryKeeps == Inv /\ Retry => Inv'
<1> SUFFICES ASSUME Inv, Retry PROVE Inv'
  OBVIOUS
<1>1. TypeOK'
  BY UploadAssumption DEF Retry, perform, Inv, TypeOK, Rows, PCs
<1>2. Placed(remote)'
  BY DEF Retry, perform, Inv
<1>3. Windowed'
  BY DEF Retry, perform, Inv, TypeOK, Windowed
<1>4. Phases'
  BY DEF Retry, perform, Inv, TypeOK, Phases
<1> QED BY <1>1, <1>2, <1>3, <1>4 DEF Inv

LEMMA ReconnectKeeps == Inv /\ Reconnect => Inv'
<1> SUFFICES ASSUME Inv, Reconnect PROVE Inv'
  OBVIOUS
<1>1. TypeOK'
  BY UploadAssumption DEF Reconnect, perform, Inv, TypeOK, Rows, PCs
<1>2. Placed(remote)'
  BY DEF Reconnect, perform, Inv
<1>3. Windowed'
  BY DEF Reconnect, perform, Inv, TypeOK, Windowed
<1>4. Phases'
  BY DEF Reconnect, perform, Inv, TypeOK, Phases
<1> QED BY <1>1, <1>2, <1>3, <1>4 DEF Inv

-----------------------------------------------------------------------------
(* The calls of execute().                                                   *)

LEMMA ReadPartSizeKeeps == Inv /\ ReadPartSize => Inv'
<1> SUFFICES ASSUME Inv, ReadPartSize PROVE Inv'
  OBVIOUS
<1> DEFINE part == remote[target].part
           after == IF Full(part) THEN "withdraw" ELSE "meta"
<1>1. /\ pc = "size" /\ Call(remote, after)
      /\ next' = IF pc' = "meta" /\ part # NoFile THEN part.size + 1 ELSE 1
      /\ UNCHANGED <<row, pausing, cancelled, attempt, target, active, broken>>
  BY DEF ReadPartSize, Complete
<1>2. link' \in BOOLEAN /\ remote' = remote /\ pc' \in {after, "fail"} /\ pc' \in PCs
  BY <1>1, CallEffect DEF Inv, TypeOK, PCs
<1>3. next' \in 1..(N + 1)
  <2>1. part # NoFile => part.size \in 0..N
    BY DEF Inv, TypeOK, Remotes, Files
  <2> HIDE DEF part
  <2> QED BY <1>1, <2>1, UploadAssumption
<1>4. TypeOK'
  BY <1>1, <1>2, <1>3 DEF Inv, TypeOK
<1>5. Placed(remote)'
  BY <1>2 DEF Inv
<1>6. Windowed'
  BY <1>1, <1>2 DEF Inv, Windowed
<1>7. Phases'
  BY <1>1, <1>2 DEF Inv, Phases
<1> QED BY <1>4, <1>5, <1>6, <1>7 DEF Inv

LEMMA WriteMetadataKeeps == Inv /\ WriteMetadata => Inv'
<1> SUFFICES ASSUME Inv, WriteMetadata PROVE Inv'
  OBVIOUS
<1>1. /\ pc = "meta" /\ target \in Targets /\ remote \in Remotes /\ link \in BOOLEAN
      /\ UNCHANGED <<row, pausing, cancelled, attempt, target, next, active, broken>>
  BY DEF Inv, TypeOK, WriteMetadata
<1>2. /\ link' \in BOOLEAN /\ pc' \in {"open", "fail"}
      /\ remote' \in {remote, WithMeta(TRUE)}
      /\ pc' = "open" => remote' = WithMeta(TRUE) /\ ~remote[target].meta
  BY <1>1 DEF WriteMetadata, Creatable, Call, Answered, Refused, CutOff
<1>3. WithMeta(TRUE) \in Remotes /\ \A t \in Targets :
        WithMeta(TRUE)[t] = IF t = target THEN [remote[t] EXCEPT !.meta = TRUE] ELSE remote[t]
  BY <1>1, MetaChange
<1>4. \A t \in Targets : remote'[t].part = remote[t].part /\ remote'[t].final = remote[t].final
                        /\ (remote[t].meta => remote'[t].meta)
  <2>1. \A t \in Targets : /\ WithMeta(TRUE)[t].part = remote[t].part
                           /\ WithMeta(TRUE)[t].final = remote[t].final
                           /\ remote[t].meta => WithMeta(TRUE)[t].meta
    BY <1>1, <1>3 DEF Remotes
  <2> QED BY <1>2, <2>1
<1>5. pc' = "open" => remote'[target].meta /\ remote[target].part = NoFile /\ next = 1
  BY <1>1, <1>2, <1>3 DEF Remotes, Inv, Placed, Phases
<1>6. TypeOK'
  BY <1>1, <1>2, <1>3 DEF Inv, TypeOK, PCs
<1>7. Placed(remote)'
  BY <1>4 DEF Inv, Placed
<1>8. Windowed'
  BY <1>1, <1>2 DEF Inv, Windowed
<1>9. Phases'
  BY <1>1, <1>2, <1>4, <1>5 DEF Inv, Phases
<1> QED BY <1>6, <1>7, <1>8, <1>9 DEF Inv

LEMMA OpenPartKeeps == Inv /\ OpenPart => Inv'
<1> SUFFICES ASSUME Inv, OpenPart PROVE Inv'
  OBVIOUS
<1>1. /\ pc = "open" /\ next = 1 /\ remote[target].part = NoFile /\ remote[target].meta
      /\ target \in Targets /\ remote \in Remotes /\ link \in BOOLEAN
  BY DEF Inv, TypeOK, OpenPart, Phases
<1>2. Empty \in Files /\ Sized(Empty) /\ Empty # NoFile /\ Empty.data = {}
  <2>1. Empty \in Files
    <3>1. \E x \in Stamps : \/ remote[target].final = NoFile \/ x # remote[target].final.stamp
                            \/ Stamps = {x}
      <4>1. CASE \E x \in Stamps : x # remote[target].final.stamp
        BY <4>1
      <4>2. CASE \A x \in Stamps : x = remote[target].final.stamp
        <5>1. Stamps = {0}
          BY <4>2, UploadAssumption
        <5> QED BY <5>1
      <4> QED BY <4>1, <4>2
    <3>2. NewStamp \in Stamps
      BY <3>1 DEF NewStamp
    <3> QED BY <3>2, UploadAssumption DEF Empty, Files
  <2> QED BY <2>1, UploadAssumption DEF Empty, Sized
<1>3. WithPart(Empty) \in Remotes /\ \A t \in Targets :
        WithPart(Empty)[t] = IF t = target THEN [remote[t] EXCEPT !.part = Empty] ELSE remote[t]
  BY <1>1, <1>2, PartChange
<1>4. /\ link' \in BOOLEAN /\ pc' \in {"write", "fail"} /\ remote' \in {remote, WithPart(Empty)}
      /\ pc' # "fail" => remote' = WithPart(Empty)
  BY <1>1, CallEffect DEF OpenPart, PCs
<1>5. /\ active' = IF pc' = "write" THEN FirstWindow(1) ELSE {}
      /\ next' = IF pc' = "write" THEN After(1) ELSE 1
      /\ broken' = FALSE /\ UNCHANGED <<row, pausing, cancelled, attempt, target>>
  BY <1>1 DEF OpenPart
<1>6. /\ FirstWindow(1) \subseteq 1..N /\ After(1) \in 1..(N + 1)
      /\ FirstWindow(1) = 1..(After(1) - 1) /\ FirstWindow(1) # {}
  <2>1. 1 \in FirstWindow(1)
    BY UploadAssumption DEF FirstWindow
  <2>2. CASE 1 + Window > N
    <3>1. After(1) = N + 1
      BY <2>2 DEF After
    <3>2. FirstWindow(1) = 1..N
      BY <2>2, UploadAssumption DEF FirstWindow
    <3> QED BY <3>1, <3>2, <2>1, UploadAssumption
  <2>3. CASE ~(1 + Window > N)
    <3>1. After(1) = 1 + Window
      BY <2>3 DEF After
    <3>2. FirstWindow(1) = 1..Window
      BY <2>3, UploadAssumption DEF FirstWindow
    <3> QED BY <3>1, <3>2, <2>1, <2>3, UploadAssumption
  <2> QED BY <2>2, <2>3
<1>7. TypeOK'
  <2>1. pc' \in PCs /\ remote' \in Remotes
    BY <1>1, <1>3, <1>4 DEF PCs
  <2>2. active' \subseteq 1..N /\ next' \in 1..(N + 1)
    BY <1>5, <1>6, UploadAssumption
  <2> QED BY <1>4, <1>5, <2>1, <2>2 DEF Inv, TypeOK
<1>8. \A t \in Targets : /\ remote'[t].final = remote[t].final /\ remote'[t].meta = remote[t].meta
                         /\ t # target => remote'[t].part = remote[t].part
                         /\ t = target => remote'[t].part \in {NoFile, Empty}
  BY <1>1, <1>3, <1>4 DEF Remotes
<1>9. pc' = "write" => remote'[target].part = Empty
  BY <1>1, <1>3, <1>4 DEF Remotes
<1>10. Placed(remote)'
  BY <1>1, <1>2, <1>8 DEF Inv, Placed
<1>11. Windowed'
  BY <1>1, <1>2, <1>4, <1>5, <1>6, <1>9 DEF Inv, Windowed
<1>12. Phases'
  BY <1>1, <1>4, <1>5 DEF Inv, Phases
<1> QED BY <1>7, <1>10, <1>11, <1>12 DEF Inv

\* Writes that the server carries out keep what is true of the folder.
LEMMA WrittenKeeps ==
  ASSUME Inv, NEW S \in SUBSET active, remote' = PartWith(S)
  PROVE  /\ remote' \in Remotes /\ Placed(remote') /\ (active = {} => remote' = remote)
         /\ \A t \in Targets : /\ remote'[t].final = remote[t].final
                               /\ remote'[t].part = NoFile <=> remote[t].part = NoFile
                               /\ Full(remote[t].part) => Full(remote'[t].part)
                               /\ Cut(remote[t].part) => Cut(remote'[t].part)
         /\ pc = "write" => remote'[target].part.data = remote[target].part.data \cup S
BY PartWithFolder DEF Inv

\* A write cut short keeps it too, and leaves its mark on the part.
LEMMA ShortKeeps ==
  ASSUME Inv, NEW k \in active, pc = "write", remote' = WithPart(CutShort(remote[target].part, k))
  PROVE  /\ remote' \in Remotes /\ Placed(remote') /\ Cut(remote'[target].part)
         /\ \A t \in Targets : /\ remote'[t].final = remote[t].final
                               /\ t # target => remote'[t] = remote[t]
         /\ remote'[target].part = CutShort(remote[target].part, k)
         /\ remote[target].part \in Files /\ Sized(remote[target].part)
         /\ Full(remote[target].part) => Full(remote'[target].part)
         /\ Whole(remote[target].part) => Whole(remote'[target].part)
<1> DEFINE f == remote[target].part
           g == CutShort(f, k)
<1>1. remote \in Remotes /\ target \in Targets /\ k \in 1..N /\ f # NoFile
  BY DEF Inv, TypeOK, Windowed
<1>2. f \in Files /\ Sized(f) /\ remote[target].meta
  BY <1>1 DEF Inv, Placed, Remotes
<1>3. /\ g \in Files /\ Sized(g) /\ g.cut /\ g # NoFile
      /\ (Full(f) => Full(g)) /\ (Whole(f) => Whole(g))
  BY <1>1, <1>2, ShortFile
<1> HIDE DEF g
<1>4. remote' \in Remotes /\ \A t \in Targets :
        remote'[t] = IF t = target THEN [remote[t] EXCEPT !.part = g] ELSE remote[t]
  BY <1>1, <1>3, PartChange DEF g
<1>5. \A t \in Targets : remote[t] \in [final : Files \cup {NoFile}, part : Files \cup {NoFile},
                                        meta : BOOLEAN]
  BY <1>1 DEF Remotes
<1>6. /\ remote'[target].part = g /\ remote'[target].final = remote[target].final
      /\ remote'[target].meta = remote[target].meta
  BY <1>1, <1>4, <1>5
<1>7. \A t \in Targets : t # target => remote'[t] = remote[t]
  BY <1>4
<1>8. Placed(remote')
  BY <1>1, <1>2, <1>3, <1>6, <1>7 DEF Inv, Placed
<1>9. \A t \in Targets : remote'[t].final = remote[t].final
  BY <1>6, <1>7
<1> QED BY <1>2, <1>3, <1>4, <1>6, <1>7, <1>8, <1>9 DEF Cut, g

\* The window after an answered write, whose chunk is in the part or was cut short.
LEMMA ReplacedKeeps ==
  ASSUME Inv, NEW k \in active, pc = "write", Replaced(k),
         remote' \in Remotes, Placed(remote'), remote'[target].part # NoFile,
         \/ remote'[target].part.data = remote[target].part.data \cup {k}
         \/ Cut(remote'[target].part),
         Cut(remote[target].part) => Cut(remote'[target].part)
  PROVE  Inv'
<1>1. /\ pc' = pc /\ active \subseteq 1..(next - 1) /\ next \in 1..(N + 1)
      /\ target' = target /\ target \in Targets /\ k \in 1..N /\ broken' = broken
      /\ UNCHANGED <<row, pausing, cancelled, attempt, link>>
  BY DEF Replaced, Inv, Windowed, TypeOK
<1>4. \/ (broken \/ next > N) /\ active' = active \ {k} /\ next' = next
      \/ ~broken /\ next <= N /\ active' = (active \ {k}) \cup {next} /\ next' = next + 1
  BY <1>1, UploadAssumption DEF Replaced
<1>5. TypeOK'
  <2>1. N \in Nat /\ active \subseteq 1..N
    BY UploadAssumption DEF Inv, TypeOK
  <2>2. active' \subseteq 1..N
    <3>1. CASE next > N \/ broken
      <4>1. next \in Nat
        BY <1>1, <2>1
      <4>2. active' = active \ {k}
        BY <1>4, <2>1, <3>1, <4>1
      <4> QED BY <2>1, <4>2
    <3>2. CASE ~broken /\ next <= N
      <4>1. next \in 1..N
        BY <1>1, <2>1, <3>2
      <4> QED BY <1>4, <2>1, <4>1
    <3> QED BY <1>1, <2>1, <3>1, <3>2
  <2>3. next' \in 1..(N + 1)
    BY <1>1, <1>4, <2>1
  <2> QED BY <1>1, <2>2, <2>3 DEF Inv, TypeOK
<1>6. Windowed'
  <2>1. active' \subseteq 1..(next' - 1)
    <3>1. N \in Nat /\ next \in Nat
      BY <1>1, UploadAssumption
    <3>2. CASE next' = next
      <4>1. active' = active \ {k}
        BY <1>4, <3>1, <3>2
      <4> QED BY <1>1, <3>2, <4>1
    <3>3. CASE next' = next + 1
      <4>1. 1..(next - 1) \subseteq 1..(next' - 1) /\ next \in 1..(next' - 1)
        BY <1>1, <3>1, <3>3
      <4>2. active' \subseteq active \cup {next}
        BY <1>4
      <4> QED BY <1>1, <4>1, <4>2
    <3> QED BY <1>4, <3>2, <3>3
  <2>2. ~broken => \/ (1..(next' - 1)) \ active' \subseteq remote'[target].part.data
                   \/ Cut(remote'[target].part)
    <3>1. ~broken => \/ (1..(next - 1)) \ active \subseteq remote[target].part.data
                     \/ Cut(remote[target].part)
      BY DEF Inv, Windowed
    <3>2. (1..(next' - 1)) \ active' \subseteq ((1..(next - 1)) \ active) \cup {k}
      BY <1>1, <1>4, UploadAssumption
    <3> QED BY <3>1, <3>2
  <2>3. ~broken /\ next' <= N => active' # {}
    BY <1>1, <1>4, UploadAssumption
  <2> QED BY <1>1, <2>1, <2>2, <2>3 DEF Inv, Windowed
<1>7. Phases'
  BY <1>1 DEF Inv, Phases
<1> QED BY <1>5, <1>6, <1>7 DEF Inv

LEMMA WriteDoneKeeps == ASSUME Inv, NEW k \in active, WriteDone(k) PROVE Inv'
<1>1. pc = "write" /\ {k} \in SUBSET active /\ remote' = PartWith({k}) /\ Replaced(k)
  BY DEF WriteDone
<1>2. /\ remote' \in Remotes /\ Placed(remote') /\ remote'[target].part # NoFile
      /\ remote'[target].part.data = remote[target].part.data \cup {k}
      /\ Cut(remote[target].part) => Cut(remote'[target].part)
  <2>1. target \in Targets /\ remote[target].part # NoFile
    BY <1>1 DEF Inv, TypeOK, Windowed
  <2> QED BY <1>1, <2>1, WrittenKeeps
<1> QED BY <1>1, <1>2, ReplacedKeeps

LEMMA WriteShortKeeps == ASSUME Inv, NEW k \in active, WriteShort(k) PROVE Inv'
<1>1. /\ pc = "write" /\ remote' = WithPart(CutShort(remote[target].part, k))
      /\ Replaced(k)
  BY DEF WriteShort
<1>2. remote' \in Remotes /\ Placed(remote') /\ Cut(remote'[target].part)
  BY <1>1, ShortKeeps
<1> QED BY <1>1, <1>2, ReplacedKeeps DEF Cut

LEMMA WriteRefusedKeeps == ASSUME Inv, NEW k \in active, WriteRefused(k) PROVE Inv'
<1>1. TypeOK'
  BY DEF WriteRefused, Inv, TypeOK
<1>2. Placed(remote)' /\ Phases'
  BY DEF WriteRefused, Inv, Phases
<1>3. Windowed'
  BY DEF WriteRefused, Inv, Windowed
<1> QED BY <1>1, <1>2, <1>3 DEF Inv

LEMMA WriteEndsKeeps == Inv /\ WriteEnds => Inv'
<1> SUFFICES ASSUME Inv, WriteEnds PROVE Inv'
  OBVIOUS
<1>1. TypeOK'
  <2>1. 1 \in 1..(N + 1)
    BY UploadAssumption
  <2>2. pc' \in PCs /\ next' = 1 /\ broken' = FALSE
        /\ UNCHANGED <<row, pausing, cancelled, attempt, target, active, link, remote>>
    BY DEF WriteEnds, PCs
  <2> QED BY <2>1, <2>2 DEF Inv, TypeOK
<1>2. Placed(remote)'
  BY DEF WriteEnds, Inv
<1>3. Windowed'
  BY DEF WriteEnds, Inv, Windowed
<1>4. pc' = "sync" => Whole(remote[target].part) \/ Cut(remote[target].part)
  <2> SUFFICES ASSUME ~broken, ~Cut(remote[target].part) PROVE Whole(remote[target].part)
    BY DEF WriteEnds, Failing
  <2>1. /\ remote[target].part # NoFile /\ next > N
        /\ 1..(next - 1) \subseteq remote[target].part.data
    <3>1. next \in 1..(N + 1) /\ N \in Nat
      BY UploadAssumption DEF Inv, TypeOK
    <3> QED BY <3>1 DEF WriteEnds, Inv, Windowed
  <2>2. next = N + 1
    BY <2>1, UploadAssumption DEF Inv, TypeOK
  <2>3. remote[target].part \in Files /\ Sized(remote[target].part)
    BY <2>1 DEF Inv, TypeOK, Remotes, Placed
  <2>4. remote[target].part.data = 1..N
    <3>1. remote[target].part.data \subseteq 1..N
      BY <2>3 DEF Files
    <3>2. next - 1 = N
      BY <2>2, UploadAssumption
    <3>3. 1..N \subseteq remote[target].part.data
      BY <2>1, <3>2
    <3> QED BY <3>1, <3>3
  <2> QED BY <2>3, <2>4, FullData
<1>5. Phases'
  BY <1>4 DEF WriteEnds, Inv, Phases
<1> QED BY <1>1, <1>2, <1>3, <1>5 DEF Inv

LEMMA SyncPartKeeps == Inv /\ SyncPart => Inv'
<1> SUFFICES ASSUME Inv, SyncPart PROVE Inv'
  OBVIOUS
<1>1. /\ pc = "sync" /\ link' \in BOOLEAN /\ remote' = remote /\ pc' \in {"withdraw", "fail"}
      /\ UNCHANGED <<row, pausing, cancelled, attempt, target, next, active, broken>>
  BY CallEffect DEF SyncPart, Inv, TypeOK, PCs
<1>2. Full(remote[target].part) \/ Cut(remote[target].part)
  BY <1>1 DEF Inv, Phases, Whole, Full
<1>3. TypeOK'
  BY <1>1 DEF Inv, TypeOK, PCs
<1>4. Placed(remote)' /\ Windowed'
  BY <1>1 DEF Inv, Windowed
<1>5. Phases'
  BY <1>1, <1>2 DEF Inv, Phases
<1> QED BY <1>3, <1>4, <1>5 DEF Inv

LEMMA WithdrawKeeps == Inv /\ Withdraw => Inv'
<1> SUFFICES ASSUME Inv, Withdraw PROVE Inv'
  OBVIOUS
<1>1. /\ pc = "withdraw" /\ link' \in BOOLEAN /\ remote' \in {remote, WithFinal(NoFile)}
      /\ pc' = "rename" /\ target \in Targets /\ remote \in Remotes
      /\ UNCHANGED <<row, pausing, cancelled, attempt, target, next, active, broken>>
  BY TriedEffect DEF Withdraw, Inv, TypeOK, PCs
<1>2. WithFinal(NoFile) \in Remotes /\ \A t \in Targets :
        WithFinal(NoFile)[t] = IF t = target THEN [remote[t] EXCEPT !.final = NoFile] ELSE remote[t]
  BY <1>1, FinalChange
<1>3. \A t \in Targets : /\ remote'[t].part = remote[t].part /\ remote'[t].meta = remote[t].meta
                         /\ remote'[t].final \in {remote[t].final, NoFile}
  BY <1>1, <1>2 DEF Remotes
<1>4. TypeOK'
  BY <1>1, <1>2 DEF Inv, TypeOK, PCs
<1>5. Placed(remote)'
  BY <1>3 DEF Inv, Placed
<1>6. Windowed'
  BY <1>1 DEF Inv, Windowed
<1>7. Phases'
  BY <1>1, <1>3 DEF Inv, Phases
<1> QED BY <1>4, <1>5, <1>6, <1>7 DEF Inv

\* What a rename that the server carried out leaves.
LEMMA Renamed ==
  ASSUME remote \in Remotes, target \in Targets,
         NEW new, new = [remote EXCEPT ![target].final = remote[target].part, ![target].part = NoFile]
  PROVE  /\ new \in Remotes
         /\ \A t \in Targets : t # target => new[t] = remote[t]
         /\ new[target].final = remote[target].part /\ new[target].part = NoFile
         /\ new[target].meta = remote[target].meta
BY DEF Remotes

LEMMA PublishKeeps == Inv /\ Publish => Inv'
<1> SUFFICES ASSUME Inv, Publish PROVE Inv'
  OBVIOUS
<1> DEFINE new == [remote EXCEPT ![target].final = remote[target].part, ![target].part = NoFile]
<1>1. /\ pc = "rename" /\ target \in Targets /\ remote \in Remotes /\ link \in BOOLEAN
      /\ Full(remote[target].part) \/ Cut(remote[target].part)
      /\ UNCHANGED <<row, pausing, cancelled, attempt, target, next, active, broken>>
  BY DEF Publish, Inv, TypeOK, Phases
<1>2. \/ remote[target].part # NoFile /\ remote[target].final = NoFile /\ Call(new, "unmeta")
      \/ Refused("fail") \/ CutOff(remote, "fail")
  BY DEF Publish
<1>3. link' \in BOOLEAN /\ pc' \in {"unmeta", "fail"} /\ remote' \in {remote, new}
      /\ (pc' = "unmeta" => remote' = new)
  BY <1>1, <1>2 DEF Call, Answered, Refused, CutOff
<1>4. /\ new \in Remotes /\ \A t \in Targets : t # target => new[t] = remote[t]
      /\ new[target].final = remote[target].part /\ new[target].part = NoFile
  BY <1>1, Renamed
<1> HIDE DEF new
<1>5. Seen(remote[target].part) \in Delivery!Kinds
  <2>1. remote[target].part \in Files /\ Sized(remote[target].part)
    BY <1>1 DEF Inv, Placed, Remotes, Full, Cut
  <2> QED BY <1>1, <2>1, SeenKind
<1>6. TypeOK'
  BY <1>1, <1>3, <1>4 DEF Inv, TypeOK, PCs
<1>7. Placed(remote)'
  BY <1>1, <1>3, <1>4 DEF Inv, Placed
<1>8. Windowed'
  BY <1>1, <1>3 DEF Inv, Windowed
<1>9. Phases'
  BY <1>1, <1>3, <1>4, <1>5 DEF Inv, Phases
<1> QED BY <1>6, <1>7, <1>8, <1>9 DEF Inv

LEMMA RemoveMetadataKeeps == Inv /\ RemoveMetadata => Inv'
<1> SUFFICES ASSUME Inv, RemoveMetadata PROVE Inv'
  OBVIOUS
<1>1. /\ pc = "unmeta" /\ link' \in BOOLEAN /\ remote' \in {remote, WithMeta(FALSE)}
      /\ pc' = "verify" /\ target \in Targets /\ remote \in Remotes
      /\ UNCHANGED <<row, pausing, cancelled, attempt, target, next, active, broken>>
  BY TriedEffect DEF RemoveMetadata, Inv, TypeOK, PCs
<1>2. WithMeta(FALSE) \in Remotes /\ \A t \in Targets :
        WithMeta(FALSE)[t] = IF t = target THEN [remote[t] EXCEPT !.meta = FALSE] ELSE remote[t]
  BY <1>1, MetaChange
<1>3. \A t \in Targets : /\ remote'[t].part = remote[t].part /\ remote'[t].final = remote[t].final
                         /\ t # target => remote'[t].meta = remote[t].meta
  <2>1. \A t \in Targets : /\ WithMeta(FALSE)[t].part = remote[t].part
                           /\ WithMeta(FALSE)[t].final = remote[t].final
                           /\ t # target => WithMeta(FALSE)[t].meta = remote[t].meta
    BY <1>1, <1>2 DEF Remotes
  <2> QED BY <1>1, <2>1
<1>4. remote[target].part = NoFile
  BY <1>1 DEF Inv, Phases
<1>5. TypeOK'
  BY <1>1, <1>2 DEF Inv, TypeOK, PCs
<1>6. Placed(remote)'
  BY <1>3, <1>4 DEF Inv, Placed
<1>7. Windowed'
  BY <1>1 DEF Inv, Windowed
<1>8. Phases'
  BY <1>1, <1>3 DEF Inv, Phases
<1> QED BY <1>5, <1>6, <1>7, <1>8 DEF Inv

LEMMA VerifySizeKeeps == Inv /\ VerifySize => Inv'
<1> SUFFICES ASSUME Inv, VerifySize PROVE Inv'
  OBVIOUS
<1>1. /\ pc = "verify" /\ link' \in BOOLEAN /\ remote' = remote /\ pc' \in {"done", "fail"}
      /\ UNCHANGED <<row, pausing, cancelled, attempt, target, next, active, broken>>
  BY CallEffect DEF VerifySize, Inv, TypeOK, PCs
<1>2. TypeOK'
  BY <1>1 DEF Inv, TypeOK, PCs
<1>3. Placed(remote)' /\ Windowed'
  BY <1>1 DEF Inv, Windowed
<1>4. Phases'
  BY <1>1 DEF Inv, Phases
<1> QED BY <1>2, <1>3, <1>4 DEF Inv

LEMMA LinkLostKeeps == Inv /\ LinkLost => Inv'
<1> SUFFICES ASSUME Inv, LinkLost PROVE Inv'
  OBVIOUS
<1>1. PICK S \in SUBSET active : remote' = PartWith(S)
  BY DEF LinkLost
<1>2. /\ remote' \in Remotes /\ Placed(remote') /\ (active = {} => remote' = remote)
      /\ \A t \in Targets : remote'[t].part = NoFile <=> remote[t].part = NoFile
  BY <1>1, WrittenKeeps
<1>3. TypeOK'
  BY <1>2 DEF LinkLost, Inv, TypeOK
<1>4. Windowed'
  BY <1>2 DEF LinkLost, Inv, TypeOK, Windowed
<1>5. Phases'
  BY <1>2 DEF LinkLost, Inv, TypeOK, Windowed, Phases
<1> QED BY <1>2, <1>3, <1>4, <1>5 DEF Inv

LEMMA CrashKeeps == Inv /\ Crash => Inv'
<1> SUFFICES ASSUME Inv, Crash PROVE Inv'
  OBVIOUS
<1>1. PICK S \in SUBSET active : remote' = PartWith(S)
  BY DEF Crash
<1>2. /\ remote' \in Remotes /\ Placed(remote') /\ (active = {} => remote' = remote)
      /\ \A t \in Targets : remote'[t].part = NoFile <=> remote[t].part = NoFile
  BY <1>1, WrittenKeeps
<1>3. TypeOK'
  BY <1>2, GoneType DEF Crash, Inv, TypeOK, Rows
<1>4. Windowed'
  BY DEF Crash, Gone, Windowed
<1>5. Phases'
  BY DEF Crash, Gone, Phases
<1> QED BY <1>2, <1>3, <1>4, <1>5 DEF Inv

-----------------------------------------------------------------------------
LEMMA StepKeeps == Inv /\ [Next]_vars => Inv'
<1> SUFFICES ASSUME Inv, [Next]_vars PROVE Inv'
  OBVIOUS
<1>1. CASE Steps
  BY <1>1, BeginKeeps, CheckConflictKeeps, ReadPartSizeKeeps, WriteMetadataKeeps, OpenPartKeeps,
     WriteDoneKeeps, WriteShortKeeps, WriteRefusedKeeps, WriteEndsKeeps, SyncPartKeeps, WithdrawKeeps, PublishKeeps,
     RemoveMetadataKeeps, VerifySizeKeeps, ReturnedKeeps, CaughtKeeps, NapKeeps DEF Steps
<1>2. CASE Answers
  BY <1>2, OverwriteKeeps, RenameUploadKeeps, SkipKeeps DEF Answers
<1>3. CASE World
  BY <1>3, PauseKeeps, ResumeKeeps, CancelKeeps, RetryKeeps, LinkLostKeeps, ReconnectKeeps,
     CrashKeeps DEF World
<1>4. CASE UNCHANGED vars
  BY <1>4 DEF vars, perform, Inv, TypeOK, Windowed, Phases
<1> QED BY <1>1, <1>2, <1>3, <1>4 DEF Next

\* The inductive invariant of the upload.
THEOREM Invariant == Spec => []Inv
BY Initially, StepKeeps, PTL DEF Spec

\* Type correctness, for every file, window, retry limit and set of names.
THEOREM TypeCorrect == Spec => []TypeOK
<1>1. Inv => TypeOK
  BY DEF Inv
<1> QED BY <1>1, Invariant, PTL

\* The manifest is there whenever a part is, so no attempt ever appends to a part.
THEOREM NeverAppendsAlways == Spec => []NeverAppends
<1>1. Inv => NeverAppends
  BY DEF Inv, Placed, Phases, NeverAppends
<1> QED BY <1>1, Invariant, PTL

\* A write loop that ends well has written the whole source, in whatever order, or was answered
\* short.
THEOREM WrittenWholeAlways == Spec => []WrittenWhole
<1>1. Inv => WrittenWhole
  BY DEF Inv, Phases, WrittenWhole
<1> QED BY <1>1, Invariant, PTL

-----------------------------------------------------------------------------
\* Writing to the part of the target leaves a name that has a file of full size with one.
LEMMA PartWithKeepsAFile ==
  ASSUME Inv, NEW S \in SUBSET active, remote' = PartWith(S), NEW t \in Targets, HasFull(t)
  PROVE  HasFull(t)'
BY WrittenKeeps DEF HasFull

\* A call that fails, or is made for its answer, leaves the folder alone.
LEMMA CallKeepsAFile ==
  ASSUME NEW new, NEW after, Call(new, after) \/ Tried(new, after)
  PROVE  remote' \in {remote, new}
BY DEF Call, Tried, Answered, Refused, CutOff

\* What one step can do to the shared folder.
LEMMA StepEffect ==
  ASSUME Inv, [Next]_vars
  PROVE  \/ remote' = remote \/ (\E S \in SUBSET active : remote' = PartWith(S))
         \/ (\E k \in active : WriteShort(k))
         \/ remote' \in {WithMeta(TRUE), WithMeta(FALSE)} \/ OpenPart \/ Withdraw \/ Publish
<1>1. CASE Steps
  <2>1. CASE WriteMetadata \/ RemoveMetadata
    BY <2>1, CallKeepsAFile DEF WriteMetadata, RemoveMetadata, Refused, CutOff
  <2>2. CASE ReadPartSize \/ SyncPart \/ VerifySize
    BY <2>2, CallKeepsAFile DEF ReadPartSize, SyncPart, VerifySize
  <2>3. ASSUME NEW k \in active, WriteDone(k) \/ WriteRefused(k)
        PROVE  remote' = remote \/ \E S \in SUBSET active : remote' = PartWith(S)
    <3>1. {k} \in SUBSET active
      OBVIOUS
    <3> QED BY <2>3, <3>1 DEF WriteDone, WriteRefused
  <2>4. CASE Begin \/ CheckConflict \/ WriteEnds \/ Returned \/ Caught \/ Nap
    BY <2>4 DEF Begin, CheckConflict, WriteEnds, Returned, Caught, Nap
  <2> QED BY <1>1, <2>1, <2>2, <2>3, <2>4 DEF Steps
<1>2. CASE Answers
  BY <1>2 DEF Answers, Overwrite, RenameUpload, Skip
<1>3. CASE World
  BY <1>3 DEF World, Pause, Resume, Cancel, Retry, LinkLost, Reconnect, Crash
<1>4. CASE UNCHANGED vars
  BY <1>4 DEF vars
<1> QED BY <1>1, <1>2, <1>3, <1>4 DEF Next

LEMMA StepKeepsAFile ==
  ASSUME Inv, Inv', [Next]_vars, NEW t \in Targets, HasFull(t)
  PROVE  HasFull(t)' \/ Cut(remote[t].part)
<1>1. CASE remote' = remote
  BY <1>1 DEF HasFull
<1>2. CASE \E S \in SUBSET active : remote' = PartWith(S)
  BY <1>2, PartWithKeepsAFile
<1>3. CASE remote' \in {WithMeta(TRUE), WithMeta(FALSE)}
  BY <1>3 DEF WithMeta, HasFull, Inv, TypeOK, Remotes
<1>4. CASE OpenPart
  <2>1. remote[target].part = NoFile /\ target \in Targets /\ remote \in Remotes
    BY <1>4 DEF OpenPart, Inv, Phases, TypeOK
  <2>2. remote' = remote \/ \E f : remote' = WithPart(f)
    BY <1>4, CallKeepsAFile DEF OpenPart
  <2>3. CASE \E f : remote' = WithPart(f)
    BY <2>1, <2>3 DEF WithPart, HasFull, Full, Remotes
  <2> QED BY <1>1, <2>2, <2>3
<1>5. CASE Withdraw
  <2>1. /\ remote' \in {remote, WithFinal(NoFile)}
        /\ Full(remote[target].part) \/ Cut(remote[target].part)
        /\ target \in Targets /\ remote \in Remotes
    BY <1>5, CallKeepsAFile DEF Withdraw, Inv, Phases, TypeOK
  <2> QED BY <2>1 DEF WithFinal, HasFull, Remotes
<1>6. CASE Publish
  <2> DEFINE new == [remote EXCEPT ![target].final = remote[target].part, ![target].part = NoFile]
  <2>1. /\ remote' \in {remote, new} /\ target \in Targets /\ remote \in Remotes
        /\ Full(remote[target].part) \/ Cut(remote[target].part)
    BY <1>6, CallKeepsAFile DEF Publish, Inv, Phases, TypeOK, Refused, CutOff
  <2>2. CASE remote' = new
    <3>1. new[target].final = remote[target].part /\ (t # target => new[t] = remote[t])
      BY <2>1 DEF Remotes
    <3> HIDE DEF new
    <3> QED BY <2>1, <2>2, <3>1 DEF HasFull
  <2> QED BY <1>1, <2>1, <2>2
<1>7. CASE \E k \in active : WriteShort(k)
  <2>1. PICK k \in active : WriteShort(k)
    BY <1>7
  <2>2. /\ remote'[t].final = remote[t].final
        /\ Full(remote[t].part) => Full(remote'[t].part)
    BY <2>1, ShortKeeps DEF WriteShort
  <2> QED BY <2>2 DEF HasFull
<1> QED BY <1>1, <1>2, <1>3, <1>4, <1>5, <1>6, <1>7, StepEffect

\* Whatever fails between the removal of the old file and the renaming of the new one,
\* a name that had a file of full size keeps one in the folder, unless an answer was short.
THEOREM KeepsAFileAlways == Spec => KeepsAFile
<1>1. Inv /\ Inv' /\ [Next]_vars => [\A t \in Targets : HasFull(t) => HasFull(t)' \/ Cut(remote[t].part)]_vars
  BY StepKeepsAFile
<1> QED BY <1>1, Invariant, PTL DEF Spec, KeepsAFile

-----------------------------------------------------------------------------
(* The refinement.                                                           *)

Finals  == [t \in Targets |-> Seen(remote[t].final)]
Readies == [t \in Targets |-> Ready(t)]
Sending == IF pc \in {"write", "sync"} THEN {target} ELSE {}

\* The calls at which a part counts for more, or for less, than what it is.
Busy == {"write", "sync", "withdraw", "rename"}
Settled(f) == IF Full(f) THEN Content(f) ELSE "none"

Same == \A t \in Targets : /\ remote'[t].final = remote[t].final
                           /\ remote'[t].part = remote[t].part

\* A step that leaves the final names, what is ready for them and the row alone is not seen.
LEMMA NotSeen ==
  ASSUME Finals' = Finals, Readies' = Readies, Sending' = Sending,
         (row = "completed")' = (row = "completed")
  PROVE  UNCHANGED Delivery!vars
BY DEF Delivery!vars, Finals, Readies, Sending

\* What a part, by its contents, is ready as.
LEMMA ContentKind ==
  ASSUME NEW f, Whole(f) \/ Full(f) \/ Cut(f)
  PROVE  /\ Content(f) \in Delivery!Kinds
         /\ ~Full(f) => Content(f) = "short"
         /\ Whole(f) <=> Content(f) = "whole"
BY DEF Content, Whole, Full, Cut, Delivery!Kinds

\* What is ready at each call, before a step ...
LEMMA ReadyNow ==
  /\ \A t \in Targets : t # target \/ pc \notin Busy => Ready(t) = Settled(remote[t].part)
  /\ pc = "write" => Ready(target) = IF Whole(remote[target].part) THEN "whole" ELSE "none"
  /\ pc \in {"sync", "withdraw", "rename"}
       /\ (Whole(remote[target].part) \/ Full(remote[target].part) \/ Cut(remote[target].part))
     => Ready(target) = Content(remote[target].part)
BY DEF Ready, Settled, Busy, Written, Content, Whole, Full

\* ... and after it.
LEMMA ReadyNext ==
  /\ \A t \in Targets : t # target' \/ pc' \notin Busy => Ready(t)' = Settled(remote'[t].part)
  /\ \A t \in Targets : t = target' /\ pc' = "write" =>
       Ready(t)' = IF Whole(remote'[t].part) THEN "whole" ELSE "none"
  /\ \A t \in Targets :
       /\ t = target' /\ pc' \in {"sync", "withdraw", "rename"}
       /\ Whole(remote'[t].part) \/ Full(remote'[t].part) \/ Cut(remote'[t].part)
       => Ready(t)' = Content(remote'[t].part)
BY DEF Ready, Settled, Busy, Written, Content, Whole, Full, Cut

\* A part that is about to take its name is ready, as what it is.
LEMMA PublishReady ==
  ASSUME Inv, pc \in {"sync", "withdraw", "rename"}
  PROVE  /\ target \in Targets /\ Ready(target) = Content(remote[target].part)
         /\ Ready(target) \in Delivery!Kinds
         /\ Settled(remote[target].part) = IF Full(remote[target].part) THEN Ready(target) ELSE "none"
         /\ ~Full(remote[target].part) => Ready(target) = "short"
<1>1. \/ Whole(remote[target].part) \/ Full(remote[target].part) \/ Cut(remote[target].part)
  BY DEF Inv, Phases
<1>2. target \in Targets
  BY DEF Inv, TypeOK
<1> QED BY <1>1, <1>2, ReadyNow, ContentKind DEF Settled

\* The other targets' parts count for what they are before and after a step.
LEMMA OthersReady ==
  ASSUME pc' \in Busy => target' = target,
         \A t \in Targets : t # target => remote'[t].part = remote[t].part
  PROVE  \A t \in Targets : t # target => Ready(t)' = Ready(t)
<1> SUFFICES ASSUME NEW t \in Targets, t # target PROVE Ready(t)' = Ready(t)
  OBVIOUS
<1>1. Ready(t) = Settled(remote[t].part)
  BY ReadyNow
<1>2. Ready(t)' = Settled(remote'[t].part)
  BY ReadyNext
<1> QED BY <1>1, <1>2

\* Only the end of perform() makes a row completed, and a completed row stays one.
LEMMA DoneChanges ==
  ASSUME Inv, [Next]_vars, ~Returned
  PROVE  (row = "completed")' = (row = "completed")
<1>1. row = "completed" => pc = "idle"
  BY DEF Inv, Phases
<1>2. CASE Steps
  BY <1>1, <1>2 DEF Steps, Begin, CheckConflict, ReadPartSize, WriteMetadata, OpenPart, WriteDone,
     WriteShort, Replaced, WriteRefused, WriteEnds, SyncPart, Withdraw, Publish, RemoveMetadata,
     VerifySize, Caught, Nap
<1>3. CASE Answers
  BY <1>1, <1>3 DEF Answers, Overwrite, RenameUpload, Skip
<1>4. CASE World
  BY <1>1, <1>4 DEF World, Pause, Resume, Cancel, Retry, LinkLost, Reconnect, Crash
<1>5. CASE UNCHANGED vars
  BY <1>5 DEF vars
<1> QED BY <1>2, <1>3, <1>4, <1>5 DEF Next

\* What one step is to a reader of the folder.
Idles  == Same /\ pc' = pc /\ target' = target
Quiets == Same /\ pc \notin Busy /\ pc' \notin Busy
Writes == /\ pc = "write" /\ pc' = pc /\ target' = target
          /\ \/ \E S \in SUBSET active : remote' = PartWith(S)
             \/ \E k \in active : remote' = WithPart(CutShort(remote[target].part, k))

LEMMA MetaSame ==
  ASSUME remote \in Remotes, target \in Targets, remote' \in {remote, WithMeta(TRUE), WithMeta(FALSE)}
  PROVE  Same
BY DEF Same, WithMeta, Remotes

LEMMA StepKinds ==
  ASSUME Inv, [Next]_vars
  PROVE  \/ Idles \/ Quiets \/ Writes \/ ReadPartSize \/ OpenPart \/ WriteEnds \/ SyncPart
         \/ Withdraw \/ Publish \/ Crash
<1>1. remote \in Remotes /\ target \in Targets /\ link \in BOOLEAN
  BY DEF Inv, TypeOK
<1>2. CASE Steps
  <2>1. CASE WriteMetadata
    <3>1. remote' \in {remote, WithMeta(TRUE)} /\ pc = "meta" /\ pc' \in {"open", "fail"}
      BY <2>1 DEF WriteMetadata, Creatable, Call, Answered, Refused, CutOff
    <3> QED BY <1>1, <3>1, MetaSame DEF Quiets, Busy
  <2>2. CASE RemoveMetadata
    <3>1. remote' \in {remote, WithMeta(FALSE)} /\ pc = "unmeta" /\ pc' = "verify"
      BY <2>2 DEF RemoveMetadata, Tried, Answered, Refused, CutOff
    <3> QED BY <1>1, <3>1, MetaSame DEF Quiets, Busy
  <2>3. CASE VerifySize
    <3>1. remote' = remote /\ pc = "verify" /\ pc' \in {"done", "fail"}
      BY <2>3 DEF VerifySize, Call, Answered, Refused, CutOff
    <3> QED BY <3>1 DEF Quiets, Busy, Same
  <2>4. ASSUME NEW k \in active, WriteDone(k) \/ WriteShort(k) PROVE Writes
    <3>1. {k} \in SUBSET active
      OBVIOUS
    <3> QED BY <2>4, <3>1 DEF WriteDone, WriteShort, Replaced, Writes
  <2>5. ASSUME NEW k \in active, WriteRefused(k) PROVE Idles
    BY <2>5 DEF WriteRefused, Idles, Same
  <2>6. CASE Begin \/ CheckConflict \/ Returned \/ Caught \/ Nap
    <3>1. remote' = remote /\ pc \in {"idle", "check", "done", "fail", "nap"}
          /\ pc' \in {"check", "conflict", "size", "fail", "idle", "nap"}
      BY <2>6 DEF Begin, CheckConflict, Returned, Caught, Nap, Gone
    <3> QED BY <3>1 DEF Quiets, Busy, Same
  <2> QED BY <1>2, <2>1, <2>2, <2>3, <2>4, <2>5, <2>6 DEF Steps
<1>3. CASE Answers
  <2>1. remote' = remote /\ pc = "conflict" /\ pc' \in {"size", "idle"}
    BY <1>3 DEF Answers, Overwrite, RenameUpload, Skip, Gone
  <2> QED BY <2>1 DEF Quiets, Busy, Same
<1>4. CASE World
  <2>1. CASE LinkLost
    <3>1. PICK S \in SUBSET active : remote' = PartWith(S)
      BY <2>1 DEF LinkLost
    <3>2. pc' = pc /\ target' = target
      BY <2>1 DEF LinkLost
    <3>3. CASE active = {}
      BY <3>1, <3>2, <3>3 DEF PartWith, Idles, Same
    <3>4. CASE active # {}
      BY <3>1, <3>2, <3>4 DEF Inv, Windowed, Writes
    <3> QED BY <3>3, <3>4
  <2>2. CASE Pause \/ Resume \/ Cancel \/ Retry \/ Reconnect
    BY <2>2 DEF Pause, Resume, Cancel, Retry, Reconnect, perform, Idles, Same
  <2> QED BY <1>4, <2>1, <2>2 DEF World
<1>5. CASE UNCHANGED vars
  BY <1>5 DEF vars, perform, Idles, Same
<1> QED BY <1>2, <1>3, <1>4, <1>5 DEF Next

\* A step that is not seen: it leaves the files, and what they count for, alone.
LEMMA SameSeen ==
  ASSUME Idles \/ Quiets
  PROVE  Finals' = Finals /\ Readies' = Readies /\ Sending' = Sending
<1>1. Finals' = Finals
  BY DEF Idles, Quiets, Same, Finals
<1>2. CASE Idles
  BY <1>1, <1>2 DEF Idles, Same, Readies, Sending, Ready, Written
<1>3. CASE Quiets
  <2>1. \A t \in Targets : Ready(t)' = Ready(t)
    BY <1>3, ReadyNow, ReadyNext DEF Quiets, Same
  <2>2. Readies' = Readies
    BY <2>1 DEF Readies
  <2>3. Sending' = {} /\ Sending = {}
    BY <1>3 DEF Quiets, Busy, Sending
  <2> QED BY <1>1, <2>2, <2>3
<1> QED BY <1>2, <1>3

\* A step at a call before or after the writes that leaves the folder alone, and the target.
LEMMA ReadPartSizeSeen ==
  ASSUME Inv, ReadPartSize
  PROVE  Finals' = Finals /\ Readies' = Readies /\ Sending' = Sending
<1>1. /\ pc = "size" /\ target \in Targets /\ target' = target /\ remote' = remote
      /\ pc' = "withdraw" => Full(remote[target].part)
      /\ pc' \in {"withdraw", "meta", "fail"}
  BY DEF ReadPartSize, Complete, Call, Answered, Refused, CutOff, Inv, TypeOK
<1>2. CASE pc' = "withdraw"
  <2>1. Ready(target) = Content(remote[target].part)
    BY <1>1, <1>2, ReadyNow DEF Busy, Settled
  <2>2. \A t \in Targets : t = target => Ready(t)' = Content(remote[t].part)
    BY <1>1, <1>2, ReadyNext
  <2>3. \A t \in Targets : t # target => Ready(t)' = Ready(t)
    BY <1>1, OthersReady
  <2>4. Readies' = Readies
    BY <2>1, <2>2, <2>3 DEF Readies
  <2> QED BY <1>1, <1>2, <2>4 DEF Finals, Sending
<1>3. CASE pc' # "withdraw"
  <2>1. Quiets
    BY <1>1, <1>3 DEF Quiets, Busy, Same
  <2> QED BY <2>1, SameSeen
<1> QED BY <1>2, <1>3

LEMMA OpenPartSeen ==
  ASSUME Inv, OpenPart, (row = "completed")' = (row = "completed")
  PROVE  [Delivery!Next]_(Delivery!vars)
<1>1. /\ pc = "open" /\ remote[target].part = NoFile /\ target \in Targets /\ remote \in Remotes
      /\ target' = target
  BY DEF OpenPart, Inv, Phases, TypeOK
<1>2. /\ remote' = remote \/ remote' = WithPart(Empty)
      /\ pc' \in {"write", "fail"}
  BY <1>1 DEF OpenPart, Call, Answered, Refused, CutOff
<1>3. /\ \A t \in Targets : /\ remote'[t].final = remote[t].final
                            /\ t # target => remote'[t].part = remote[t].part
      /\ remote'[target].part \in {NoFile, Empty}
  BY <1>1, <1>2 DEF WithPart, Remotes
<1>4. ~Full(remote'[target].part) /\ ~Whole(remote'[target].part)
  BY <1>3, UploadAssumption DEF Empty, Full, Whole
<1>5. Ready(target) = "none" /\ Finals' = Finals
  BY <1>1, <1>3, ReadyNow DEF Busy, Settled, Full, Finals
<1>6. \A t \in Targets : t = target => Ready(t)' = "none"
  BY <1>1, <1>2, <1>4, ReadyNext DEF Busy, Settled
<1>7. \A t \in Targets : t # target => Ready(t)' = Ready(t)
  BY <1>1, <1>3, OthersReady
<1>8. Readies' = Readies
  BY <1>5, <1>6, <1>7 DEF Readies
<1>9. CASE pc' = "fail"
  <2>1. Sending' = Sending
    BY <1>1, <1>9 DEF Sending
  <2> QED BY <1>5, <1>8, <2>1, NotSeen
<1>10. CASE pc' = "write"
  <2>1. Sending = {} /\ Sending' = {target}
    BY <1>1, <1>10 DEF Sending
  <2>2. Delivery!Send(target)
    BY <1>1, <1>5, <1>8, <2>1 DEF Delivery!Send, Finals, Readies, Sending
  <2> QED BY <1>1, <2>1, <2>2 DEF Delivery!Next, Sending
<1> QED BY <1>2, <1>9, <1>10

\* Writing to the part can only make it whole: the replacement is ready, or nothing is seen.
LEMMA WritesSeen ==
  ASSUME Inv, Writes, (row = "completed")' = (row = "completed")
  PROVE  [Delivery!Next]_(Delivery!vars)
<1>1. /\ pc = "write" /\ pc' = "write" /\ target' = target /\ target \in Targets
      /\ remote \in Remotes
  BY DEF Writes, Inv, TypeOK
<1>2. /\ \A t \in Targets : /\ remote'[t].final = remote[t].final
                            /\ t # target => remote'[t].part = remote[t].part
      /\ Whole(remote[target].part) => Whole(remote'[target].part)
  <2>1. ASSUME NEW S \in SUBSET active, remote' = PartWith(S)
        PROVE  /\ \A t \in Targets : /\ remote'[t].final = remote[t].final
                                     /\ t # target => remote'[t].part = remote[t].part
               /\ Whole(remote[target].part) => Whole(remote'[target].part)
    <3>1. \A t \in Targets : t # target => remote'[t].part = remote[t].part
      BY <1>1, <2>1 DEF PartWith, WithPart, Remotes
    <3>2. /\ \A t \in Targets : remote'[t].final = remote[t].final
          /\ Full(remote[target].part) => Full(remote'[target].part)
          /\ remote'[target].part.data = remote[target].part.data \cup S
      BY <1>1, <2>1, WrittenKeeps
    <3>3. S \subseteq 1..N
      BY DEF Inv, TypeOK
    <3> QED BY <3>1, <3>2, <3>3 DEF Whole, Full
  <2>2. ASSUME NEW k \in active, remote' = WithPart(CutShort(remote[target].part, k))
        PROVE  /\ \A t \in Targets : /\ remote'[t].final = remote[t].final
                                     /\ t # target => remote'[t].part = remote[t].part
               /\ Whole(remote[target].part) => Whole(remote'[target].part)
    BY <1>1, <2>2, ShortKeeps
  <2> QED BY <2>1, <2>2 DEF Writes
<1>3. Finals' = Finals /\ Sending' = Sending /\ Sending = {target}
  BY <1>1, <1>2 DEF Finals, Sending
<1>4. Ready(target) = IF Whole(remote[target].part) THEN "whole" ELSE "none"
  BY <1>1, ReadyNow
<1>5. \A t \in Targets : t = target =>
        Ready(t)' = IF Whole(remote'[target].part) THEN "whole" ELSE "none"
  BY <1>1, ReadyNext
<1>6. \A t \in Targets : t # target => Ready(t)' = Ready(t)
  BY <1>1, <1>2, OthersReady
<1>7. CASE Whole(remote[target].part) <=> Whole(remote'[target].part)
  <2>1. Readies' = Readies
    BY <1>4, <1>5, <1>6, <1>7 DEF Readies
  <2> QED BY <1>3, <2>1, NotSeen
<1>8. CASE ~Whole(remote[target].part) /\ Whole(remote'[target].part)
  <2>1. Readies' = [Readies EXCEPT ![target] = "whole"] /\ Readies[target] = "none"
    BY <1>1, <1>4, <1>5, <1>6, <1>8 DEF Readies
  <2>2. Delivery!Stage(target)
    BY <1>3, <2>1 DEF Delivery!Stage, Finals, Readies, Sending
  <2> QED BY <1>3, <2>2 DEF Delivery!Next, Sending
<1> QED BY <1>2, <1>7, <1>8

\* An attempt that stops sending: it has the file ready, or breaks off.
LEMMA BreaksOff ==
  ASSUME NEW r \in Delivery!Kinds \cup {"none"}, target \in Targets,
         Sending = {target}, Sending' = {}, Finals' = Finals,
         (row = "completed")' = (row = "completed"),
         Readies' = [Readies EXCEPT ![target] = r],
         Readies[target] \in {"none", r} \/ (Readies[target] = "short" /\ r = "none")
  PROVE  [Delivery!Next]_(Delivery!vars)
<1>1. Readies[target] = r => Readies' = Readies
  BY DEF Readies
<1>2. Delivery!BreakOff(target)
  BY <1>1 DEF Delivery!BreakOff, Finals, Readies, Sending
<1> QED BY <1>2 DEF Delivery!Next, Sending

LEMMA WriteEndsSeen ==
  ASSUME Inv, Inv', WriteEnds, (row = "completed")' = (row = "completed")
  PROVE  [Delivery!Next]_(Delivery!vars)
<1> DEFINE f == remote[target].part
<1>1. /\ pc = "write" /\ pc' \in {"sync", "fail"} /\ target' = target /\ target \in Targets
      /\ remote' = remote
  BY DEF WriteEnds, Inv, TypeOK
<1>2. Finals' = Finals /\ Sending = {target} /\ Sending' = IF pc' = "sync" THEN {target} ELSE {}
  BY <1>1 DEF Finals, Sending
<1>3. Ready(target) = IF Whole(f) THEN "whole" ELSE "none"
  BY <1>1, ReadyNow
<1>4. \A t \in Targets : t # target => Ready(t)' = Ready(t)
  BY <1>1, OthersReady
<1>5. CASE pc' = "sync"
  <2>1. Whole(f) \/ Cut(f)
    BY <1>1, <1>5 DEF Inv, Phases
  <2>2. \A t \in Targets : t = target => Ready(t)' = Content(f)
    BY <1>1, <1>5, <2>1, ReadyNext
  <2>3. Content(f) = IF Whole(f) THEN "whole" ELSE "short"
    BY <2>1 DEF Content
  <2>4. CASE Whole(f)
    <3>1. Readies' = Readies
      BY <1>3, <1>4, <2>2, <2>3, <2>4 DEF Readies
    <3> QED BY <1>2, <1>5, <3>1, NotSeen
  <2>5. CASE ~Whole(f)
    <3>1. Readies' = [Readies EXCEPT ![target] = "short"] /\ Readies[target] = "none"
      BY <1>1, <1>3, <1>4, <2>2, <2>3, <2>5 DEF Readies
    <3>2. Sending' = Sending
      BY <1>2, <1>5
    <3>3. Delivery!Stage(target)
      BY <1>2, <3>1, <3>2 DEF Delivery!Stage, Finals, Readies, Sending
    <3> QED BY <1>2, <3>3 DEF Delivery!Next, Sending
  <2> QED BY <2>4, <2>5
<1>6. CASE pc' = "fail"
  <2>1. \A t \in Targets : t = target => Ready(t)' = Settled(f)
    BY <1>1, <1>6, ReadyNext DEF Busy
  <2>2. Settled(f) \in Delivery!Kinds \cup {"none"} /\ (Whole(f) => Settled(f) = "whole")
    BY ContentKind DEF Settled, Whole, Full
  <2>3. Readies' = [Readies EXCEPT ![target] = Settled(f)]
    BY <1>1, <1>4, <2>1 DEF Readies
  <2>4. Readies[target] \in {"none", Settled(f)}
    BY <1>1, <1>3, <2>2 DEF Readies
  <2>5. Sending' = {}
    BY <1>2, <1>6
  <2> HIDE DEF f
  <2> QED BY <1>1, <1>2, <2>2, <2>3, <2>4, <2>5, BreaksOff
<1> QED BY <1>1, <1>5, <1>6

\* The part of an attempt that stops short of publishing it counts for what it is.
LEMMA StopsSeen ==
  ASSUME Inv, pc \in {"sync", "withdraw", "rename"}, pc' \notin Busy,
         Same, (row = "completed")' = (row = "completed")
  PROVE  [Delivery!Next]_(Delivery!vars)
<1> DEFINE f == remote[target].part
           r == Settled(f)
<1>1. /\ target \in Targets /\ Ready(target) \in Delivery!Kinds
      /\ r = (IF Full(f) THEN Ready(target) ELSE "none")
      /\ ~Full(f) => Ready(target) = "short"
  BY PublishReady
<1>2. \A t \in Targets : Ready(t)' = Settled(remote[t].part)
  BY ReadyNext DEF Same
<1>3. \A t \in Targets : t # target => Ready(t) = Settled(remote[t].part)
  BY ReadyNow
<1>4. Readies' = [Readies EXCEPT ![target] = r] /\ Readies[target] = Ready(target)
  BY <1>1, <1>2, <1>3 DEF Readies
<1>5. Finals' = Finals /\ Sending' = {}
  BY DEF Same, Finals, Sending, Busy
<1>6. CASE pc = "sync"
  <2>1. Sending = {target}
    BY <1>6 DEF Sending
  <2>2. r \in Delivery!Kinds \cup {"none"}
    BY <1>1
  <2>3. Readies[target] \in {"none", r} \/ (Readies[target] = "short" /\ r = "none")
    BY <1>1, <1>4
  <2> HIDE DEF r
  <2> QED BY <1>1, <1>4, <1>5, <2>1, <2>2, <2>3, BreaksOff
<1>7. CASE pc # "sync"
  <2>1. Sending = {}
    BY <1>7 DEF Sending
  <2>2. CASE Full(f)
    <3>1. Readies' = Readies
      BY <1>1, <1>4, <2>2 DEF Readies
    <3> QED BY <1>5, <2>1, <3>1, NotSeen
  <2>3. CASE ~Full(f)
    <3>1. Readies' = [Readies EXCEPT ![target] = "none"] /\ Readies[target] = "short"
      BY <1>1, <1>4, <2>3
    <3>2. Delivery!GiveUp(target)
      BY <1>5, <2>1, <3>1 DEF Delivery!GiveUp, Finals, Readies, Sending
    <3>3. target \in Targets \ Sending
      BY <1>1, <2>1
    <3> QED BY <3>2, <3>3 DEF Delivery!Next, Sending
  <2> QED BY <2>2, <2>3
<1> QED BY <1>6, <1>7

LEMMA SyncPartSeen ==
  ASSUME Inv, SyncPart, (row = "completed")' = (row = "completed")
  PROVE  [Delivery!Next]_(Delivery!vars)
<1>1. /\ pc = "sync" /\ pc' \in {"withdraw", "fail"} /\ target' = target /\ target \in Targets
      /\ remote' = remote
  BY DEF SyncPart, Call, Answered, Refused, CutOff, Inv, TypeOK
<1>2. Same
  BY <1>1 DEF Same
<1>3. CASE pc' = "fail"
  BY <1>1, <1>2, <1>3, StopsSeen DEF Busy
<1>4. CASE pc' = "withdraw"
  <2>1. Ready(target) \in Delivery!Kinds /\ Ready(target) = Content(remote[target].part)
    BY <1>1, PublishReady
  <2>2. Whole(remote[target].part) \/ Cut(remote[target].part)
    BY <1>1 DEF Inv, Phases
  <2>3. \A t \in Targets : t = target => Ready(t)' = Content(remote[t].part)
    BY <1>1, <1>4, <2>2, ReadyNext
  <2>4. \A t \in Targets : t # target => Ready(t)' = Ready(t)
    BY <1>1, OthersReady
  <2>5. Readies' = Readies /\ Readies[target] \in Delivery!Kinds
    BY <1>1, <2>1, <2>3, <2>4 DEF Readies
  <2>6. Finals' = Finals /\ Sending = {target} /\ Sending' = {}
    BY <1>1, <1>4 DEF Finals, Sending
  <2>7. Readies[target] # "none"
    BY <2>5 DEF Delivery!Kinds
  <2>8. Delivery!Sent(target)
    BY <2>5, <2>6, <2>7 DEF Delivery!Sent, Finals, Readies, Sending
  <2> QED BY <2>6, <2>8 DEF Delivery!Next, Sending
<1> QED BY <1>1, <1>3, <1>4

LEMMA WithdrawSeen ==
  ASSUME Inv, Withdraw
  PROVE  [Delivery!Next]_(Delivery!vars)
<1>1. /\ remote' \in {remote, WithFinal(NoFile)} /\ pc = "withdraw" /\ pc' = "rename"
      /\ target \in Targets /\ target' = target /\ remote \in Remotes /\ row' = row
  BY DEF Withdraw, Tried, Answered, Refused, CutOff, Inv, TypeOK
<1>2. \A t \in Targets : remote'[t].part = remote[t].part
  BY <1>1 DEF WithFinal, Remotes
<1>3. \A t \in Targets : Ready(t)' = Ready(t)
  BY <1>1, <1>2 DEF Ready, Written
<1>4. Readies' = Readies /\ Sending' = Sending /\ Sending = {}
  BY <1>1, <1>3 DEF Readies, Sending
<1>5. Readies[target] # "none"
  <2>1. Ready(target) \in Delivery!Kinds
    BY <1>1, PublishReady
  <2> QED BY <1>1, <2>1 DEF Readies, Delivery!Kinds
<1>6. CASE remote' = WithFinal(NoFile)
  <2>1. /\ \A t \in Targets : t # target => remote'[t].final = remote[t].final
        /\ remote'[target].final = NoFile
    BY <1>1, <1>6 DEF WithFinal, Remotes
  <2>2. Finals' = [Finals EXCEPT ![target] = "none"]
    BY <1>1, <2>1 DEF Finals, Seen
  <2>3. CASE Finals[target] = "none"
    <3>1. Finals' = Finals
      BY <2>2, <2>3 DEF Finals
    <3> QED BY <1>1, <1>4, <3>1, NotSeen
  <2>4. CASE Finals[target] # "none"
    <3>1. Delivery!Withdraw(target)
      BY <1>1, <1>4, <1>5, <2>2, <2>4 DEF Delivery!Withdraw, Finals, Readies, Sending
    <3>2. target \in Targets \ Sending
      BY <1>1, <1>4
    <3> QED BY <3>1, <3>2 DEF Delivery!Next, Sending
  <2> QED BY <2>3, <2>4
<1>7. CASE remote' = remote
  BY <1>1, <1>4, <1>7, NotSeen DEF Finals
<1> QED BY <1>1, <1>6, <1>7

LEMMA PublishSeen ==
  ASSUME Inv, Publish
  PROVE  [Delivery!Next]_(Delivery!vars)
<1> DEFINE new == [remote EXCEPT ![target].final = remote[target].part, ![target].part = NoFile]
           f   == remote[target].part
<1>1. /\ pc = "rename" /\ pc' \in {"unmeta", "fail"} /\ row' = row /\ target' = target
      /\ target \in Targets /\ remote \in Remotes
      /\ \/ remote' = remote /\ pc' = "fail"
         \/ remote' = new /\ remote[target].final = NoFile
  BY DEF Publish, Call, Answered, Refused, CutOff, Inv, TypeOK
<1>2. CASE remote' = remote /\ pc' = "fail"
  BY <1>1, <1>2, StopsSeen DEF Same, Busy
<1>3. CASE remote' = new /\ remote[target].final = NoFile
  <2>1. /\ \A t \in Targets : t # target => remote'[t] = remote[t]
        /\ remote'[target].final = f /\ remote'[target].part = NoFile
    BY <1>1, <1>3 DEF Remotes
  <2>2. Ready(target) \in Delivery!Kinds /\ Ready(target) = Content(f)
    BY <1>1, PublishReady
  <2>3. Seen(f) = Content(f)
    <3>1. Full(f) \/ Cut(f)
      BY <1>1 DEF Inv, Phases
    <3>2. f \in Files /\ Sized(f)
      BY <1>1, <3>1 DEF Inv, Placed, Remotes, Full, Cut
    <3> QED BY <3>1, <3>2, SeenKind
  <2> HIDE DEF f, new
  <2>4. \A t \in Targets : t = target => Ready(t)' = "none"
    BY <1>1, <2>1, ReadyNext DEF Busy, Settled, Full
  <2>5. \A t \in Targets : t # target => Ready(t)' = Ready(t)
    BY <1>1, <2>1, OthersReady DEF Busy
  <2>6. /\ Readies' = [Readies EXCEPT ![target] = "none"]
        /\ Readies[target] = Content(f) /\ Readies[target] # "none"
    BY <1>1, <2>2, <2>4, <2>5 DEF Readies, Delivery!Kinds
  <2>7. Finals' = [Finals EXCEPT ![target] = Content(f)] /\ Finals[target] = "none"
    BY <1>1, <1>3, <2>1, <2>3 DEF Finals, Seen
  <2>8. Sending' = {} /\ Sending = {}
    BY <1>1 DEF Sending
  <2>9. Delivery!Publish(target)
    BY <1>1, <2>6, <2>7, <2>8 DEF Delivery!Publish, Finals, Readies, Sending
  <2>10. target \in Targets \ Sending
    BY <1>1, <2>8
  <2> QED BY <2>9, <2>10 DEF Delivery!Next, Sending
<1> QED BY <1>1, <1>2, <1>3

\* The death of the app: what the server had carried out of the window is in the part.
LEMMA CrashSeen ==
  ASSUME Inv, Crash, (row = "completed")' = (row = "completed")
  PROVE  [Delivery!Next]_(Delivery!vars)
<1> DEFINE f == remote'[target].part
<1>1. PICK S \in SUBSET active : remote' = PartWith(S)
  BY DEF Crash
<1>2. /\ pc' = "idle" /\ target \in Targets /\ remote \in Remotes /\ active \subseteq 1..N
  BY DEF Crash, Gone, Inv, TypeOK
<1>3. CASE pc = "write"
  <2>1. /\ \A t \in Targets : /\ remote'[t].final = remote[t].final
                              /\ t # target => remote'[t].part = remote[t].part
        /\ Whole(remote[target].part) => Whole(f)
    <3>1. \A t \in Targets : t # target => remote'[t].part = remote[t].part
      BY <1>1, <1>2 DEF PartWith, WithPart, Remotes
    <3>2. /\ \A t \in Targets : remote'[t].final = remote[t].final
          /\ Full(remote[target].part) => Full(f)
          /\ f.data = remote[target].part.data \cup S
      BY <1>1, <1>2, <1>3, WrittenKeeps
    <3> QED BY <1>2, <3>1, <3>2 DEF Whole, Full
  <2>2. Finals' = Finals /\ Sending = {target} /\ Sending' = {}
    BY <1>2, <1>3, <2>1 DEF Finals, Sending
  <2>3. Ready(target) = IF Whole(remote[target].part) THEN "whole" ELSE "none"
    BY <1>3, ReadyNow
  <2>4. \A t \in Targets : t # target => Ready(t)' = Ready(t)
    BY <1>2, <2>1, OthersReady DEF Busy
  <2>5. \A t \in Targets : t = target => Ready(t)' = Settled(f)
    BY <1>2, ReadyNext DEF Busy
  <2>6. Settled(f) \in Delivery!Kinds \cup {"none"} /\ (Whole(f) => Settled(f) = "whole")
    BY ContentKind DEF Settled, Whole, Full
  <2>7. Readies' = [Readies EXCEPT ![target] = Settled(f)]
    BY <1>2, <2>4, <2>5 DEF Readies
  <2>8. Readies[target] \in {"none", Settled(f)}
    BY <1>2, <2>1, <2>3, <2>6 DEF Readies
  <2> HIDE DEF f
  <2> QED BY <1>2, <2>2, <2>6, <2>7, <2>8, BreaksOff
<1>4. CASE pc # "write"
  <2>1. remote' = remote
    BY <1>1, <1>4 DEF Inv, Windowed, PartWith
  <2>2. Same
    BY <2>1 DEF Same
  <2>3. CASE pc \in {"sync", "withdraw", "rename"}
    BY <1>2, <2>2, <2>3, StopsSeen DEF Busy
  <2>4. CASE pc \notin Busy
    <3>1. Quiets
      BY <1>2, <2>2, <2>4 DEF Quiets, Busy
    <3> QED BY <3>1, SameSeen, NotSeen
  <2> QED BY <1>4, <2>3, <2>4 DEF Busy
<1> QED BY <1>3, <1>4

LEMMA ReturnedSeen ==
  ASSUME Inv, Returned
  PROVE  [Delivery!Next]_(Delivery!vars)
<1>1. /\ remote' = remote /\ target \in Targets /\ row # "completed" /\ pc = "done"
      /\ Finals[target] \in Delivery!Kinds /\ (row' = row \/ row' = "completed")
      /\ pc' \in {"fail", "idle"}
  BY DEF Returned, Gone, Inv, Phases, TypeOK, Finals
<1>2. Quiets
  BY <1>1 DEF Quiets, Same, Busy
<1>3. Finals' = Finals /\ Readies' = Readies /\ Sending' = Sending
  BY <1>2, SameSeen
<1>4. CASE row' = "completed"
  <2>1. Delivery!Finish
    BY <1>1, <1>3, <1>4 DEF Delivery!Finish, Finals, Readies, Sending
  <2> QED BY <2>1 DEF Delivery!Next
<1>5. CASE row' = row
  BY <1>3, <1>5, NotSeen
<1> QED BY <1>1, <1>4, <1>5

\* Every step of the upload is a step of the delivery, or is not seen.
LEMMA StepDelivers ==
  ASSUME Inv, Inv', [Next]_vars
  PROVE  [Delivery!Next]_(Delivery!vars)
<1>1. CASE Returned
  BY <1>1, ReturnedSeen
<1>2. CASE ~Returned
  <2>1. (row = "completed")' = (row = "completed")
    BY <1>2, DoneChanges
  <2>2. CASE Idles \/ Quiets
    BY <2>1, <2>2, SameSeen, NotSeen
  <2>3. CASE ReadPartSize
    BY <2>1, <2>3, ReadPartSizeSeen, NotSeen
  <2>4. CASE Writes \/ OpenPart \/ WriteEnds
    BY <2>1, <2>4, WritesSeen, OpenPartSeen, WriteEndsSeen
  <2>5. CASE SyncPart \/ Withdraw \/ Publish \/ Crash
    BY <2>1, <2>5, SyncPartSeen, WithdrawSeen, PublishSeen, CrashSeen
  <2> QED BY <2>2, <2>3, <2>4, <2>5, StepKinds
<1> QED BY <1>1, <1>2

LEMMA InitDelivers == Init => Delivery!Init
<1> SUFFICES ASSUME Init PROVE Delivery!Init
  OBVIOUS
<1>1. \A t \in Targets : remote[t].final \in {NoFile, Old} /\ remote[t].part = NoFile
  BY DEF Init, Nothing
<1>2. Finals \in [Targets -> {"prior", "none"}] /\ row = "queued" /\ Sending = {}
  BY <1>1 DEF Init, Finals, Seen, Sending
<1>3. \A t \in Targets : Ready(t) = "none"
  BY <1>1, ReadyNow DEF Init, Busy, Settled, Full
<1>4. Readies = [t \in Targets |-> "none"]
  BY <1>3 DEF Readies
<1> QED BY <1>2, <1>4 DEF Delivery!Init, Finals, Readies, Sending

\* The upload, with every fault of the model, implements the atomic delivery of a file, by its
\* contents: a file without all its bytes takes a name only after an answer that was short, or
\* after an attempt that broke off while it was sending.
THEOREM UploadDelivers == Spec => Delivers
<1>1. Inv /\ Inv' /\ [Next]_vars => [Delivery!Next]_(Delivery!vars)
  BY StepDelivers
<1> QED BY <1>1, InitDelivers, Invariant, PTL DEF Spec, Delivers, Delivery!Spec
-----------------------------------------------------------------------------
(* The monitor that watches the folder.                                      *)

\* g is f written on: the bytes of f are still there.
Grown(f, g) == /\ f.size <= g.size /\ f.data \subseteq g.data /\ f.stamp = g.stamp
               /\ f.cut => g.cut

\* What the monitor has told of a name.  The file it told of is the one in the folder or, for a
\* part, the one that file has grown from; and while it is still that file, _reported holds it.
Recalled ==
  \A n \in Names : told[n] # NoFile =>
    /\ told[n] \in Files /\ Folder[n] \in Files /\ Grown(told[n], Folder[n])
    /\ running /\ told[n] = Folder[n] => reported[n] = Folder[n]

WatchInv == Inv /\ Recalled

\* Growing is an order: a file that only grows never becomes again what it was.
LEMMA GrownOrder ==
  ASSUME NEW f \in Files, NEW g \in Files, NEW h \in Files
  PROVE  /\ Grown(f, f)
         /\ Grown(f, g) /\ Grown(g, h) => Grown(f, h)
         /\ Grown(f, g) /\ Grown(g, h) /\ f = h => f = g
<1>1. f.size \in Nat /\ g.size \in Nat /\ h.size \in Nat
  BY UploadAssumption DEF Files
<1>2. Grown(f, g) /\ Grown(g, h) /\ f = h => f = g
  <2> SUFFICES ASSUME Grown(f, g), Grown(g, f) PROVE f = g
    OBVIOUS
  <2>1. f.size = g.size /\ f.data = g.data /\ f.stamp = g.stamp
    BY <1>1 DEF Grown
  <2>2. f.cut = g.cut
    BY DEF Grown, Files
  <2> QED BY <2>1, <2>2 DEF Files
<1>3. Grown(f, f) /\ (Grown(f, g) /\ Grown(g, h) => Grown(f, h))
  BY <1>1 DEF Grown
<1> QED BY <1>2, <1>3

\* Writes only add to a file.
LEMMA AppliedGrows ==
  ASSUME NEW f \in Files, Sized(f), NEW S \in SUBSET (1..N)
  PROVE  Grown(f, Applied(f, S))
<1>1. f.size \in 0..N /\ N \in Nat /\ S \subseteq 0..N
  BY UploadAssumption DEF Files
<1>2. {f.size} \cup S \in SUBSET (0..N)
  BY <1>1
<1>3. \E x \in {f.size} \cup S : \A y \in {f.size} \cup S : y <= x
  BY <1>1, <1>2, GreatestExists
<1>4. f.size <= Extent(f, S)
  BY <1>3 DEF Extent
<1>5. /\ Applied(f, S).size = Extent(f, S) /\ Applied(f, S).data = f.data \cup S
      /\ Applied(f, S).stamp = f.stamp /\ Applied(f, S).cut = f.cut
  BY DEF Applied, Files
<1> QED BY <1>4, <1>5 DEF Grown

\* A file of the folder is taken away, put where there was none, or written on; no step of the
\* upload replaces one by another.
LEMMA FolderChange ==
  ASSUME Inv, Inv', [Next]_vars, NEW n \in Names, Folder[n] # NoFile, Folder'[n] # NoFile
  PROVE  Folder[n] \in Files /\ Folder'[n] \in Files /\ Grown(Folder[n], Folder'[n])
<1>1. /\ target \in Targets /\ remote \in Remotes /\ remote' \in Remotes /\ "name" \in Targets
      /\ active \in SUBSET (1..N)
  BY UploadAssumption DEF Inv, TypeOK
<1>2. Folder[n] = remote["name"][n] /\ Folder'[n] = remote'["name"][n]
  BY DEF Folder
<1>3. Folder[n] \in Files /\ Folder'[n] \in Files
  BY <1>1, <1>2 DEF Names, Remotes
<1>4. CASE remote'["name"][n] = remote["name"][n]
  BY <1>2, <1>3, <1>4, GrownOrder
<1>5. CASE \E S \in SUBSET active : remote' = PartWith(S)
  <2> PICK S \in SUBSET active : remote' = PartWith(S)
    BY <1>5
  <2>1. CASE S # {} /\ target = "name" /\ n = "part"
    <3>1. remote'["name"].part = Applied(remote["name"].part, S)
      BY <1>1, <2>1 DEF PartWith, WithPart, Remotes
    <3>2. S \in SUBSET (1..N) /\ Sized(remote["name"].part)
      BY <1>1, <1>2, <2>1 DEF Inv, Placed
    <3>3. remote["name"][n] = remote["name"].part /\ remote'["name"][n] = remote'["name"].part
      BY <2>1
    <3> QED BY <1>2, <1>3, <3>1, <3>2, <3>3, AppliedGrows
  <2>2. CASE S = {} \/ target # "name" \/ n # "part"
    <3>1. remote'["name"][n] = remote["name"][n]
      BY <1>1, <2>2 DEF PartWith, WithPart, Remotes, Names
    <3> QED BY <1>4, <3>1
  <2> QED BY <2>1, <2>2
<1>6. CASE remote' \in {WithMeta(TRUE), WithMeta(FALSE)}
  <2>1. remote'["name"][n] = remote["name"][n]
    BY <1>1, <1>6 DEF WithMeta, Remotes, Names
  <2> QED BY <1>4, <2>1
<1>7. CASE OpenPart
  <2>1. remote[target].part = NoFile
    BY <1>7 DEF OpenPart, Inv, Phases
  <2>2. remote' = remote \/ \E f : remote' = WithPart(f)
    BY <1>7, CallKeepsAFile DEF OpenPart
  <2>3. remote'["name"][n] = remote["name"][n]
    BY <1>1, <1>2, <2>1, <2>2 DEF WithPart, Remotes, Names
  <2> QED BY <1>4, <2>3
<1>8. CASE Withdraw
  <2>1. remote' \in {remote, WithFinal(NoFile)}
    BY <1>8, CallKeepsAFile DEF Withdraw
  <2>2. remote'["name"][n] = remote["name"][n]
    BY <1>1, <1>2, <2>1 DEF WithFinal, Remotes, Names
  <2> QED BY <1>4, <2>2
<1>9. CASE Publish
  <2> DEFINE new == [remote EXCEPT ![target].final = remote[target].part, ![target].part = NoFile]
  <2>1. remote' = remote \/ (remote' = new /\ remote[target].final = NoFile)
    BY <1>9, CallKeepsAFile DEF Publish, Refused, CutOff
  <2>2. remote'["name"][n] = remote["name"][n]
    BY <1>1, <1>2, <2>1 DEF Remotes, Names
  <2> QED BY <1>4, <2>2
<1>10. CASE \E k \in active : WriteShort(k)
  <2>1. PICK k \in active : WriteShort(k)
    BY <1>10
  <2>2. /\ pc = "write" /\ remote' = WithPart(CutShort(remote[target].part, k)) /\ k \in 1..N
    BY <1>1, <2>1 DEF WriteShort
  <2>3. /\ \A t \in Targets : /\ remote'[t].final = remote[t].final
                              /\ t # target => remote'[t] = remote[t]
        /\ remote'[target].part = CutShort(remote[target].part, k)
        /\ remote[target].part \in Files /\ Sized(remote[target].part)
    BY <2>2, ShortKeeps
  <2>4. CASE target = "name" /\ n = "part"
    <3>1. Folder[n] = remote[target].part /\ Folder'[n] = CutShort(remote[target].part, k)
      BY <1>2, <2>3, <2>4
    <3>2. Grown(remote[target].part, CutShort(remote[target].part, k))
      BY <2>2, <2>3, ShortFile DEF Grown
    <3> QED BY <1>3, <3>1, <3>2
  <2>5. CASE ~(target = "name" /\ n = "part")
    <3>1. remote'["name"][n] = remote["name"][n]
      BY <1>1, <2>3, <2>5 DEF Names
    <3> QED BY <1>4, <3>1
  <2> QED BY <2>4, <2>5
<1> QED BY <1>4, <1>5, <1>6, <1>7, <1>8, <1>9, <1>10, StepEffect

\* Every step of the phone and every step of the PC keeps what the monitor has told.
LEMMA WatchedStep == WatchInv /\ [WatchedNext]_all => WatchInv'
<1> SUFFICES ASSUME Inv, Recalled, [WatchedNext]_all PROVE Inv' /\ Recalled'
  BY DEF WatchInv
<1>1. [Next]_vars
  BY DEF WatchedNext, Upload, Watch, Observe, all
<1>2. Inv'
  BY <1>1, StepKeeps
<1>3. ASSUME NEW n \in Names, told'[n] # NoFile
      PROVE  /\ told'[n] \in Files /\ Folder'[n] \in Files /\ Grown(told'[n], Folder'[n])
             /\ running' /\ told'[n] = Folder'[n] => reported'[n] = Folder'[n]
  <2>1. Folder'[n] # NoFile => Folder'[n] \in Files /\ Grown(Folder'[n], Folder'[n])
    <3>1. Folder'[n] # NoFile => Folder'[n] \in Files
      BY <1>2, UploadAssumption DEF Inv, TypeOK, Remotes, Names, Folder
    <3> QED BY <3>1, GrownOrder
  <2>2. CASE Upload
    <3>1. /\ told'[n] = told[n] /\ told[n] # NoFile /\ Folder'[n] # NoFile
          /\ reported' = reported /\ running' = running
      BY <1>3, <2>2 DEF Upload, Tell, Folder, watch
    <3>2. /\ told[n] \in Files /\ Folder[n] \in Files /\ Grown(told[n], Folder[n])
          /\ running /\ told[n] = Folder[n] => reported[n] = Folder[n]
      BY <3>1 DEF Recalled
    <3>3. Folder[n] # NoFile
      BY <3>2, UploadAssumption
    <3>4. Folder'[n] \in Files /\ Grown(Folder[n], Folder'[n])
      BY <1>1, <1>2, <3>1, <3>3, FolderChange
    <3>5. Grown(told[n], Folder'[n]) /\ (told[n] = Folder'[n] => told[n] = Folder[n])
      BY <3>2, <3>4, GrownOrder
    <3> QED BY <3>1, <3>2, <3>4, <3>5
  <2>3. CASE Watch
    <3>1. told'[n] = Folder'[n]
      BY <2>3 DEF Watch, Folder, vars
    <3>2. running' => reported'[n] = Folder'[n]
      BY <1>3, <2>3, <3>1 DEF Watch, Monitor!Start, Monitor!Stop, Monitor!Present, Monitor!Seeded, Folder, vars
    <3> QED BY <1>3, <2>1, <3>1, <3>2
  <2>4. CASE Observe
    <3>1. Folder' = Folder /\ running /\ reported'[n] = Monitor!NextReported(n)
      BY <2>4 DEF Observe, Monitor!Scan, Folder, vars
    <3>2. CASE Monitor!Reports(n)
      <4>1. told'[n] = Folder[n]
        BY <2>4, <3>2 DEF Observe
      <4>2. Monitor!NextReported(n) = Folder[n]
        BY <3>2 DEF Monitor!Reports, Monitor!NextReported, Monitor!Remembered
      <4> QED BY <1>3, <2>1, <3>1, <4>1, <4>2
    <3>3. CASE ~Monitor!Reports(n)
      <4>1. told'[n] = told[n]
        BY <2>4, <3>3 DEF Observe
      <4>2. /\ told[n] \in Files /\ Folder[n] \in Files /\ Grown(told[n], Folder[n])
            /\ told[n] = Folder[n] => reported[n] = Folder[n]
        BY <1>3, <3>1, <4>1 DEF Recalled
      <4>3. Folder[n] # NoFile
        BY <4>2, UploadAssumption
      <4>4. told[n] = Folder[n] => Monitor!NextReported(n) = Folder[n]
        BY <4>2, <4>3 DEF Monitor!NextReported, Monitor!Known, Monitor!Present
      <4> QED BY <3>1, <4>1, <4>2, <4>4
    <3> QED BY <3>2, <3>3
  <2>5. CASE UNCHANGED all
    <3>1. told' = told /\ Folder' = Folder /\ running' = running /\ reported' = reported
      BY <2>5 DEF all, vars, watch, Folder
    <3> QED BY <1>3, <3>1 DEF Recalled
  <2> QED BY <2>2, <2>3, <2>4, <2>5 DEF WatchedNext
<1>4. Recalled'
  BY <1>3 DEF Recalled
<1> QED BY <1>2, <1>4

\* A file is announced by a scan that did not know it, and so not the one that was told.
LEMMA AnnouncedNews ==
  ASSUME WatchInv, [WatchedNext]_all, NEW n \in Names, Announces(n)
  PROVE  Folder[n] # told[n]
<1>1. Observe /\ ~UNCHANGED watch
  BY DEF WatchedNext, Upload, Watch, Observe, Announces, Monitor!Start, Monitor!Stop, all, watch
<1>2. reported'[n] = Monitor!NextReported(n) /\ running
  BY <1>1 DEF Observe, Monitor!Scan
<1>3. n \in Monitor!Present /\ reported[n] # Folder[n]
  BY <1>2 DEF Announces, Monitor!NextReported, Monitor!Known, Monitor!Present
<1> QED BY <1>2, <1>3 DEF WatchInv, Recalled, Monitor!Present

LEMMA WatchedInitially == WatchedInit => WatchInv
BY Initially DEF WatchedInit, WatchInv, Recalled

\* What the monitor has told of each name, in every behaviour of the phone and the PC together.
THEOREM WatchInvAlways == Watched => []WatchInv
BY WatchedInitially, WatchedStep, PTL DEF Watched

\* The monitor raises FileReceived for no file that it announced before or found when it
\* started, unless the file changed or its name was free in between: for a file of any length,
\* any number of stable samples, and whatever becomes of the upload.
THEOREM ToldOnceAlways == Watched => ToldOnce
<1>1. WatchInv /\ [WatchedNext]_all => [\A n \in Names : Announces(n) => Folder[n] # told[n]]_all
  BY AnnouncedNews
<1> QED BY <1>1, WatchInvAlways, PTL DEF Watched, ToldOnce
=============================================================================
