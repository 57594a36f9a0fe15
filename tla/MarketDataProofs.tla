-------------------------- MODULE MarketDataProofs --------------------------
(***************************************************************************)
(* What DataGenerations and CalendarUpdate promise, for every set of       *)
(* symbols and versions, every number of bars and of candidates, every     *)
(* number of days and of calendars, and wherever the process dies; and     *)
(* what PaperBroker promises, for every set of orders, every unit, fee and *)
(* quote, whichever callbacks raise.                                       *)
(***************************************************************************)
EXTENDS DataGenerations, CalendarUpdate, PaperBroker, Sums, SequenceTheorems

-----------------------------------------------------------------------------
(* The inductive invariant.                                                *)

Generation == [id : Content, members : Content, manifest : Content, whole : BOOLEAN]
Candidate == [base : Content, old : Content, new : Content, approved : BOOLEAN]

\* A generation is found by its id, and its manifest is never rewritten.
GensInv ==
    /\ gens \subseteq Generation
    /\ \A g, h \in gens : g.id = h.id => g = h
    /\ \A g \in gens : g.manifest = g.id

\* A generation that loads is one whose copy ended and whose files were not changed.
Intact(id) == \E g \in gens : g.id = id /\ g.whole /\ g.members = id

\* A copy that has begun and not ended.
Unfinished(id) == \A g \in gens : g.id = id => ~g.whole

RecordsInv ==
    /\ cands \in Seq(Candidate) /\ Len(cands) <= MaxCandidates
    /\ receipts \cup audited \subseteq DOMAIN cands
    /\ pointer # None => pointer \in [id : Content, data : Content] /\ Exists(pointer.id)

\* A marker names an approved candidate and the two generations it is between.
MarkerInv ==
    pending # None =>
        /\ pending \in [candidate : DOMAIN cands, prev : Content, new : Content]
        /\ cands[pending.candidate].approved
        /\ pending.new = cands[pending.candidate].new
        /\ pointer # None /\ pointer.id \in {pending.prev, pending.new}
        /\ Intact(pending.prev) /\ Intact(pending.new)

Moved == {"receipt-daemon", "receipt-operator", "unlink-daemon", "unlink-operator"}
Finishing == {"recover-daemon", "recover-operator"} \cup Moved
Preparing == {"copy", "copying", "mark"}
Unmarked == {"seed", "seeding", "load-seed", "load-active", "running", "publish", "audit"} \cup Preparing
OfOperator ==
    {"promote", "recover-operator", "receipt-operator", "unlink-operator", "audit"} \cup Preparing

\* Who finishes a promotion has its marker; everyone else works without one.
PlaceInv ==
    /\ pc \in Unmarked \cup Finishing \cup {"down", "promote"}
    /\ pc \in Unmarked => pending = None
    /\ pc \in Finishing => pending # None
    /\ pc \in Moved => pointer.id = pending.new
    /\ pc \in {"unlink-daemon", "unlink-operator"} => pending.candidate \in receipts

\* Nothing that loads is copied over.
CopyInv ==
    /\ pc \in {"seed", "seeding", "load-seed"} => pointer = None
    /\ pc = "seed" => Absent(Seed)
    /\ pc = "seeding" => Unfinished(Seed)
    /\ pc \in OfOperator => work \in [candidate : DOMAIN cands]
    /\ pc \in Preparing \cup {"promote"} => cands[work.candidate].approved
    /\ pc \in Preparing => pointer # None /\ Intact(pointer.id)
    /\ pc = "copy" => Absent(cands[work.candidate].new)
    /\ pc = "copying" => Unfinished(cands[work.candidate].new)

\* What is still to be published continues what is there.
PublishInv ==
    pc = "publish" =>
        /\ work \in [raw : Content, todo : SUBSET Symbol]
        /\ pointer # None
        /\ \A g \in gens, s \in work.todo : g.id = pointer.id => IsPrefix(g.members[s], work.raw[s])

DataInv ==
    /\ GensInv /\ RecordsInv /\ MarkerInv /\ PlaceInv /\ CopyInv /\ PublishInv
    /\ PromotionLeavesReceipt

-----------------------------------------------------------------------------
(* Generations.                                                            *)

\* A generation is the one its id finds (generations.py load_generation).
LEMMA GenFound ==
    ASSUME GensInv, NEW g \in gens
    PROVE  Gen(g.id) = g /\ Exists(g.id)
  BY DEF GensInv, Gen, Exists

\* A generation loads when its copy ended and its files are those of its manifest
\* (generations.py load_generation).
LEMMA LoadsIntact ==
    ASSUME GensInv, NEW id
    PROVE  /\ Loads(id) <=> Intact(id)
           /\ Intact(id) => Gen(id).members = id /\ Exists(id)
  <1>1. ASSUME Loads(id) PROVE Intact(id)
    <2>1. PICK g \in gens : g.id = id
      BY <1>1 DEF Loads, Exists
    <2>2. Gen(id) = g
      BY <2>1, GenFound
    <2>. QED  BY <1>1, <2>1, <2>2 DEF Loads, Intact, GensInv
  <1>2. ASSUME Intact(id) PROVE Loads(id) /\ Gen(id).members = id /\ Exists(id)
    <2>1. PICK g \in gens : g.id = id /\ g.whole /\ g.members = id
      BY <1>2 DEF Intact
    <2>2. Gen(id) = g
      BY <2>1, GenFound
    <2>. QED  BY <2>1, <2>2 DEF Loads, Exists, GensInv
  <1>. QED  BY <1>1, <1>2

LEMMA SeedIsContent ==
    ASSUME DataAssumption
    PROVE  Seed \in Content
  <1>1. <<First>> \in [1..1 -> Version] /\ 1 \in 1..MaxRows
    BY DEF DataAssumption
  <1>2. <<First>> \in Series
    BY <1>1 DEF Series
  <1>. QED  BY <1>2 DEF Seed, Content

\* What a copy leaves: one generation of that id, and all others (generations.py
\* _copy_generation).
Copied(id, whole) ==
    gens' = {g \in gens : g.id # id} \cup {[id |-> id, members |-> id, manifest |-> id, whole |-> whole]}

LEMMA CopyKeeps ==
    ASSUME GensInv, NEW id \in Content, NEW whole \in BOOLEAN, Copied(id, whole), Unfinished(id)
    PROVE  /\ GensInv'
           /\ ~whole => Unfinished(id)'
           /\ \A x : Intact(x) => Intact(x)'
           /\ \A x : Exists(x) => Exists(x)'
           /\ \A g \in gens : g.whole => g \in gens'
  <1>. PICK n \in Generation : n = [id |-> id, members |-> id, manifest |-> id, whole |-> whole]
    BY DEF Generation
  <1>1. n.id = id /\ n.manifest = id /\ n.whole = whole
    OBVIOUS
  <1>2. gens' = {g \in gens : g.id # id} \cup {n}
    BY DEF Copied
  <1>3. GensInv'
    BY <1>1, <1>2 DEF GensInv
  <1>4. \A g \in gens : g.whole => g \in gens'
    BY <1>2 DEF Unfinished
  <1>5. ASSUME NEW x, Intact(x) PROVE Intact(x)'
    BY <1>4, <1>5 DEF Intact
  <1>6. ASSUME NEW x, Exists(x) PROVE Exists(x)'
    BY <1>1, <1>2, <1>6 DEF Exists
  <1>7. ~whole => Unfinished(id)'
    BY <1>1, <1>2 DEF Unfinished
  <1>. QED  BY <1>3, <1>4, <1>5, <1>6, <1>7

-----------------------------------------------------------------------------
(* Steps that leave generations, pointer, candidates, marker and receipts. *)

Kept == UNCHANGED <<gens, pointer, cands, pending, receipts>>

LEMMA KeptParts ==
    ASSUME Kept
    PROVE  /\ GensInv => GensInv'
           /\ MarkerInv => MarkerInv'
           /\ PromotionLeavesReceipt => PromotionLeavesReceipt'
           /\ \A x : Intact(x)' = Intact(x)
           /\ \A x : Unfinished(x)' = Unfinished(x)
           /\ \A x : Absent(x)' = Absent(x)
  <1>1. GensInv => GensInv'
    BY DEF Kept, GensInv
  <1>2. \A x : Intact(x)' = Intact(x)
    BY DEF Kept, Intact
  <1>3. MarkerInv => MarkerInv'
    BY <1>2 DEF Kept, MarkerInv
  <1>4. PromotionLeavesReceipt => PromotionLeavesReceipt'
    BY DEF Kept, PromotionLeavesReceipt
  <1>5. \A x : Unfinished(x)' = Unfinished(x)
    BY DEF Kept, Unfinished
  <1>6. \A x : Absent(x)' = Absent(x)
    BY DEF Kept, Absent, Exists
  <1>. QED  BY <1>1, <1>2, <1>3, <1>4, <1>5, <1>6

LEMMA KeptRecords ==
    ASSUME Kept, RecordsInv, audited' \subseteq DOMAIN cands
    PROVE  RecordsInv'
  BY DEF Kept, RecordsInv, Exists

\* A step that only moves the process, to a place where the invariant asks for nothing new.
LEMMA QuietMove ==
    ASSUME DataInv, Kept, UNCHANGED audited,
           pc' \in {"down", "running", "load-active"},
           pc' # "down" => pending = None
    PROVE  DataInv'
  <1>1. GensInv' /\ MarkerInv' /\ PromotionLeavesReceipt'
    BY KeptParts DEF DataInv
  <1>2. RecordsInv'
    BY KeptRecords DEF DataInv, RecordsInv
  <1>3. PlaceInv'
    BY DEF PlaceInv, Kept, Unmarked, Finishing, Moved, Preparing
  <1>4. CopyInv' /\ PublishInv'
    BY DEF CopyInv, PublishInv, OfOperator, Preparing
  <1>. QED  BY <1>1, <1>2, <1>3, <1>4 DEF DataInv

LEMMA Moves ==
    ASSUME DataInv,
           Crash \/ LoadActive \/ StartRefused \/ Stop \/ Refresh \/ RefreshRefused
             \/ PromoteRefused \/ MarkRefused \/ \E who \in {"daemon", "operator"} : RecoverRefused(who)
    PROVE  DataInv'
  <1>1. Kept /\ UNCHANGED audited /\ pc' \in {"down", "running", "load-active"}
    BY DEF Kept, Crash, LoadActive, StartRefused, Stop, Refresh, RefreshRefused, PromoteRefused,
           MarkRefused, RecoverRefused, Leave, disk
  <1>2. pc' # "down" => pending = None
    BY DEF Crash, LoadActive, StartRefused, Stop, Refresh, RefreshRefused, PromoteRefused,
           MarkRefused, RecoverRefused, Leave, DataInv, PlaceInv, Unmarked
  <1>. QED  BY <1>1, <1>2, QuietMove

\* Start (generations.py ensure_active).
LEMMA StartStep ==
    ASSUME DataInv, Start
    PROVE  DataInv'
  <1>0. Kept /\ UNCHANGED <<audited, work>>
    BY DEF Start, Kept, disk
  <1>1. GensInv' /\ MarkerInv' /\ PromotionLeavesReceipt'
    BY <1>0, KeptParts DEF DataInv
  <1>2. RecordsInv'
    BY <1>0, KeptRecords DEF DataInv, RecordsInv
  <1>3. pending # None => pointer # None
    BY DEF DataInv, MarkerInv
  <1>4. PlaceInv'
    BY <1>0, <1>3 DEF PlaceInv, Start, Kept, Unmarked, Finishing, Moved, Preparing
  <1>5. pc' = "seed" => pointer = None /\ Absent(Seed)
    BY DEF Start
  <1>6. pc' = "load-seed" => pointer = None
    BY DEF Start
  <1>7. pc' \in {"recover-daemon", "load-active", "seed", "load-seed"}
    BY DEF Start
  <1>8. CopyInv' /\ PublishInv'
    BY <1>0, <1>5, <1>6, <1>7, KeptParts DEF CopyInv, PublishInv, Kept, OfOperator, Preparing
  <1>. QED  BY <1>1, <1>2, <1>4, <1>8 DEF DataInv

-----------------------------------------------------------------------------
(* Copies.                                                                 *)

\* What a copy of a generation that does not load leaves of the invariant.
LEMMA CopyParts ==
    ASSUME DataInv, NEW id \in Content, NEW whole \in BOOLEAN, Copied(id, whole), Unfinished(id),
           UNCHANGED <<pointer, cands, pending, receipts, audited>>
    PROVE  GensInv' /\ RecordsInv' /\ MarkerInv' /\ PromotionLeavesReceipt'
  <1>0. /\ GensInv' /\ \A x : Intact(x) => Intact(x)'
        /\ \A x : Exists(x) => Exists(x)'
    BY CopyKeeps DEF DataInv
  <1>1. RecordsInv'
    BY <1>0 DEF DataInv, RecordsInv
  <1>2. MarkerInv'
    BY <1>0 DEF DataInv, MarkerInv
  <1>3. PromotionLeavesReceipt'
    BY DEF DataInv, PromotionLeavesReceipt
  <1>. QED  BY <1>0, <1>1, <1>2, <1>3

\* The seed is copied (generations.py ensure_active).
LEMMA SeedSteps ==
    ASSUME DataAssumption, DataInv, SeedBegins \/ SeedEnds
    PROVE  DataInv'
  <1>0. Seed \in Content /\ UNCHANGED <<pointer, cands, pending, receipts, audited, work>>
    BY SeedIsContent DEF SeedBegins, SeedEnds
  <1>1. Unfinished(Seed)
    BY DEF SeedBegins, SeedEnds, DataInv, CopyInv, Absent, Exists, Unfinished
  <1>2. pointer = None /\ pending = None
    BY DEF SeedBegins, SeedEnds, DataInv, CopyInv, PlaceInv, Unmarked
  <1>3. CASE SeedBegins
    <2>1. Copied(Seed, FALSE) /\ pc' = "seeding"
      BY <1>3 DEF SeedBegins, BeginCopy, Copied
    <2>2. GensInv' /\ RecordsInv' /\ MarkerInv' /\ PromotionLeavesReceipt'
      BY <1>0, <1>1, <2>1, CopyParts
    <2>3. Unfinished(Seed)'
      BY <1>0, <1>1, <2>1, CopyKeeps DEF DataInv
    <2>4. PlaceInv' /\ PublishInv'
      BY <1>0, <1>2, <2>1 DEF PlaceInv, PublishInv, Unmarked, Finishing, Moved, Preparing
    <2>5. CopyInv'
      BY <1>0, <1>2, <2>1, <2>3 DEF CopyInv, OfOperator, Preparing
    <2>. QED  BY <2>2, <2>4, <2>5 DEF DataInv
  <1>4. CASE SeedEnds
    <2>1. Copied(Seed, TRUE) /\ pc' = "load-seed"
      BY <1>4 DEF SeedEnds, EndCopy, Copied
    <2>2. GensInv' /\ RecordsInv' /\ MarkerInv' /\ PromotionLeavesReceipt'
      BY <1>0, <1>1, <2>1, CopyParts
    <2>4. PlaceInv' /\ PublishInv'
      BY <1>0, <1>2, <2>1 DEF PlaceInv, PublishInv, Unmarked, Finishing, Moved, Preparing
    <2>5. CopyInv'
      BY <1>0, <1>2, <2>1 DEF CopyInv, OfOperator, Preparing
    <2>. QED  BY <2>2, <2>4, <2>5 DEF DataInv
  <1>. QED  BY <1>3, <1>4

\* The candidate in work.
LEMMA CandidateInWork ==
    ASSUME DataInv, pc \in OfOperator
    PROVE  /\ work.candidate \in DOMAIN cands
           /\ cands[work.candidate] \in Candidate
           /\ cands[work.candidate].new \in Content
  <1>1. work.candidate \in DOMAIN cands
    BY DEF DataInv, CopyInv
  <1>2. cands[work.candidate] \in Candidate
    BY <1>1 DEF DataInv, RecordsInv
  <1>. QED  BY <1>1, <1>2 DEF Candidate

\* A candidate is copied to its own generation (generations.py promote_candidate).
LEMMA CopySteps ==
    ASSUME DataInv, CopyBegins \/ CopyEnds
    PROVE  DataInv'
  <1>. PICK new \in Content : new = cands[work.candidate].new
    BY CandidateInWork DEF CopyBegins, CopyEnds, OfOperator, Preparing
  <1>0. UNCHANGED <<pointer, cands, pending, receipts, audited, work>>
    BY DEF CopyBegins, CopyEnds
  <1>1. Unfinished(new)
    BY DEF CopyBegins, CopyEnds, DataInv, CopyInv, Absent, Exists, Unfinished
  <1>2. /\ pending = None /\ pointer # None /\ Intact(pointer.id)
        /\ work \in [candidate : DOMAIN cands] /\ cands[work.candidate].approved
    BY DEF CopyBegins, CopyEnds, DataInv, CopyInv, PlaceInv, Unmarked, Preparing, OfOperator
  <1>3. CASE CopyBegins
    <2>1. Copied(new, FALSE) /\ pc' = "copying"
      BY <1>3 DEF CopyBegins, BeginCopy, Copied
    <2>2. GensInv' /\ RecordsInv' /\ MarkerInv' /\ PromotionLeavesReceipt'
      BY <1>0, <1>1, <2>1, CopyParts
    <2>3. Unfinished(new)' /\ Intact(pointer.id)'
      BY <1>0, <1>1, <1>2, <2>1, CopyKeeps DEF DataInv
    <2>4. PlaceInv' /\ PublishInv'
      BY <1>0, <1>2, <2>1 DEF PlaceInv, PublishInv, Unmarked, Finishing, Moved, Preparing
    <2>6. Unfinished(cands[work.candidate].new)'
      BY <1>0, <2>3 DEF Unfinished
    <2>7. CopyInv'
      BY <1>0, <1>2, <2>1, <2>3, <2>6 DEF CopyInv, OfOperator, Preparing
    <2>. QED  BY <2>2, <2>4, <2>7 DEF DataInv
  <1>4. CASE CopyEnds
    <2>1. Copied(new, TRUE) /\ pc' = "mark"
      BY <1>4 DEF CopyEnds, EndCopy, Copied
    <2>2. GensInv' /\ RecordsInv' /\ MarkerInv' /\ PromotionLeavesReceipt'
      BY <1>0, <1>1, <2>1, CopyParts
    <2>3. Intact(pointer.id)'
      BY <1>0, <1>1, <1>2, <2>1, CopyKeeps DEF DataInv
    <2>4. PlaceInv' /\ PublishInv'
      BY <1>0, <1>2, <2>1 DEF PlaceInv, PublishInv, Unmarked, Finishing, Moved, Preparing
    <2>5. CopyInv'
      BY <1>0, <1>2, <2>1, <2>3 DEF CopyInv, OfOperator, Preparing
    <2>. QED  BY <2>2, <2>4, <2>5 DEF DataInv
  <1>. QED  BY <1>3, <1>4

-----------------------------------------------------------------------------
(* The active generation.                                                  *)

\* The pointer to a seed that loads (generations.py ensure_active).
LEMMA LoadSeedStep ==
    ASSUME DataAssumption, DataInv, LoadSeed
    PROVE  DataInv'
  <1>0. /\ UNCHANGED <<gens, cands, pending, receipts, audited, work>>
        /\ pc' = "running" /\ pointer' = [id |-> Seed, data |-> Gen(Seed).members]
        /\ Loads(Seed)
    BY DEF LoadSeed
  <1>1. Intact(Seed) /\ Gen(Seed).members = Seed /\ Exists(Seed) /\ Seed \in Content
    BY <1>0, LoadsIntact, SeedIsContent DEF DataInv
  <1>2. pending = None
    BY DEF LoadSeed, DataInv, PlaceInv, Unmarked
  <1>3. GensInv'
    BY <1>0 DEF DataInv, GensInv
  <1>4. RecordsInv'
    <2>1. pointer' \in [id : Content, data : Content] /\ pointer'.id = Seed
      BY <1>0, <1>1
    <2>. QED  BY <1>0, <1>1, <2>1 DEF DataInv, RecordsInv, Exists
  <1>5. MarkerInv' /\ PlaceInv'
    BY <1>0, <1>2 DEF MarkerInv, PlaceInv, Unmarked, Finishing, Moved, Preparing
  <1>6. CopyInv' /\ PublishInv'
    BY <1>0 DEF CopyInv, PublishInv, OfOperator, Preparing
  <1>7. PromotionLeavesReceipt'
    BY <1>0 DEF PromotionLeavesReceipt
  <1>. QED  BY <1>3, <1>4, <1>5, <1>6, <1>7 DEF DataInv

\* One file replaces another of the active generation (xtquant_daily.py _publish_append_only).
LEMMA PublishStep ==
    ASSUME DataInv, NEW s \in Symbol, Publish(s)
    PROVE  /\ DataInv'
           /\ \A g \in gens : g.id # pointer.id => g \in gens'
           /\ \A g \in gens : g.id = pointer.id =>
                \E h \in gens' : /\ h.id = g.id
                                 /\ h.members[s] = work.raw[s]
                                 /\ \A t \in Symbol \ {s} : h.members[t] = g.members[t]
  <1>. DEFINE F(g) == IF g.id = pointer.id THEN [g EXCEPT !.members[s] = work.raw[s]] ELSE g
  <1>0. /\ UNCHANGED <<pointer, cands, pending, receipts, audited, pc>>
        /\ pc = "publish" /\ s \in work.todo
        /\ gens' = {F(g) : g \in gens} /\ work' = [work EXCEPT !.todo = @ \ {s}]
    BY DEF Publish
  <1>1. work \in [raw : Content, todo : SUBSET Symbol] /\ pointer # None /\ pending = None
    BY <1>0 DEF DataInv, PublishInv, PlaceInv, Unmarked
  <1>2. work'.raw = work.raw /\ work'.todo = work.todo \ {s} /\ work' \in [raw : Content, todo : SUBSET Symbol]
    BY <1>0, <1>1
  <1>3. work.raw[s] \in Series
    BY <1>1 DEF Content
  <1>4. ASSUME NEW g \in gens
        PROVE  /\ F(g) \in Generation /\ F(g).id = g.id /\ F(g).manifest = g.manifest
               /\ g.id = pointer.id =>
                    /\ F(g).members[s] = work.raw[s]
                    /\ \A t \in Symbol \ {s} : F(g).members[t] = g.members[t]
    <2>1. g \in Generation
      BY DEF DataInv, GensInv
    <2>2. [g.members EXCEPT ![s] = work.raw[s]] \in Content
      BY <1>3, <2>1 DEF Generation, Content
    <2>. QED  BY <2>1, <2>2 DEF Generation, Content
  <1>. HIDE DEF F
  <1>5. GensInv'
    BY <1>0, <1>4 DEF DataInv, GensInv
  <1>6. \A x : Exists(x) => Exists(x)'
    BY <1>0, <1>4 DEF Exists
  <1>7. RecordsInv'
    BY <1>0, <1>6 DEF DataInv, RecordsInv
  <1>8. MarkerInv' /\ PlaceInv'
    BY <1>0, <1>1 DEF MarkerInv, DataInv, PlaceInv, Unmarked, Finishing, Moved, Preparing
  <1>9. CopyInv'
    BY <1>0 DEF CopyInv, OfOperator, Preparing
  <1>10. PromotionLeavesReceipt'
    BY <1>0 DEF DataInv, PromotionLeavesReceipt
  <1>11. PublishInv'
    <2>. SUFFICES ASSUME NEW h \in gens', NEW t \in work'.todo, h.id = pointer.id
                  PROVE  IsPrefix(h.members[t], work'.raw[t])
      BY <1>0, <1>1, <1>2 DEF PublishInv
    <2>1. PICK g \in gens : h = F(g)
      BY <1>0
    <2>2. g.id = pointer.id /\ t \in Symbol \ {s} /\ t \in work.todo
      BY <1>1, <1>2, <1>4, <2>1
    <2>3. h.members[t] = g.members[t]
      BY <1>4, <2>1, <2>2
    <2>. QED  BY <1>0, <1>2, <2>2, <2>3 DEF DataInv, PublishInv
  <1>12. DataInv'
    BY <1>5, <1>7, <1>8, <1>9, <1>10, <1>11 DEF DataInv
  <1>13. \A g \in gens : g.id # pointer.id => F(g) = g
    BY DEF F
  <1>. QED  BY <1>0, <1>4, <1>12, <1>13

\* An update is published or becomes a candidate (xtquant_daily.py update).
LEMMA UpdateStep ==
    ASSUME DataAssumption, DataInv, NEW raw \in Content, Update(raw)
    PROVE  DataInv'
  <1>0. /\ UNCHANGED <<gens, pointer, pending, receipts, audited>> /\ pc = "running"
        /\ pointer # None /\ Loads(pointer.id)
    BY DEF Update, ActiveLoads
  <1>1. pending = None /\ GensInv /\ RecordsInv
    BY <1>0 DEF DataInv, PlaceInv, Unmarked
  <1>2. PICK act \in gens : act.id = pointer.id /\ act = Active
    BY <1>0, <1>1, GenFound DEF Loads, Exists, Active
  <1>3. pointer.id \in Content /\ act.members \in Content
    BY <1>0, <1>1, <1>2 DEF RecordsInv, GensInv, Generation
  <1>4. CASE Extends(raw, Active.members)
    <2>1. Kept /\ pc' = "publish" /\ work' = [raw |-> raw, todo |-> Symbol]
      BY <1>0, <1>4 DEF Update, Kept
    <2>2. GensInv' /\ MarkerInv' /\ PromotionLeavesReceipt'
      BY <2>1, KeptParts DEF DataInv
    <2>3. RecordsInv'
      BY <1>0, <2>1, KeptRecords DEF DataInv, RecordsInv
    <2>4. PlaceInv' /\ CopyInv'
      BY <1>0, <1>1, <2>1 DEF PlaceInv, CopyInv, OfOperator, Unmarked, Finishing, Moved, Preparing
    <2>5. \A g \in gens, s \in Symbol : g.id = pointer.id => IsPrefix(g.members[s], raw[s])
      BY <1>1, <1>2, <1>4 DEF GensInv, Extends
    <2>6. work' \in [raw : Content, todo : SUBSET Symbol] /\ work'.raw = raw /\ work'.todo = Symbol
      BY <2>1
    <2>7. PublishInv'
      BY <1>0, <2>1, <2>5, <2>6 DEF PublishInv
    <2>. QED  BY <2>2, <2>3, <2>4, <2>7 DEF DataInv
  <1>5. CASE ~Extends(raw, Active.members)
    <2>. PICK c \in Candidate :
            c = [base |-> pointer.id, old |-> Active.members, new |-> raw, approved |-> FALSE]
      BY <1>2, <1>3 DEF Candidate
    <2>1. /\ cands' = Append(cands, c) /\ Len(cands) < MaxCandidates /\ UNCHANGED <<pc, work>>
      BY <1>5 DEF Update
    <2>2. /\ cands' \in Seq(Candidate) /\ Len(cands') = Len(cands) + 1
          /\ DOMAIN cands \subseteq DOMAIN cands' /\ Len(cands) \in Nat
          /\ \A i \in DOMAIN cands : cands'[i] = cands[i]
      BY <1>1, <2>1 DEF RecordsInv
    <2>3. GensInv'
      BY <1>0, <1>1 DEF GensInv
    <2>4. RecordsInv'
      <3>1. Len(cands') <= MaxCandidates
        BY <2>1, <2>2 DEF DataAssumption
      <3>. QED  BY <1>0, <1>1, <2>2, <3>1 DEF RecordsInv, Exists
    <2>5. MarkerInv' /\ PlaceInv'
      BY <1>0, <1>1, <2>1 DEF MarkerInv, DataInv, PlaceInv, Unmarked, Finishing, Moved, Preparing
    <2>6. CopyInv' /\ PublishInv'
      BY <1>0, <2>1 DEF CopyInv, PublishInv, OfOperator, Preparing
    <2>7. PromotionLeavesReceipt'
      BY <1>0, <1>1, <2>2 DEF DataInv, RecordsInv, PromotionLeavesReceipt
    <2>. QED  BY <2>3, <2>4, <2>5, <2>6, <2>7 DEF DataInv
  <1>. QED  BY <1>4, <1>5

-----------------------------------------------------------------------------
(* The promotion.                                                          *)

\* The operator approves (operations.py _data_generation_approve).
LEMMA ApproveStep ==
    ASSUME DataInv, NEW c, Approve(c)
    PROVE  DataInv'
  <1>0. /\ UNCHANGED <<gens, pointer, pending, receipts, audited>>
        /\ pc = "down" /\ pc' = "promote" /\ c \in DOMAIN cands /\ work' = [candidate |-> c]
        /\ cands' = [cands EXCEPT ![c].approved = TRUE]
    BY DEF Approve
  <1>1. cands \in Seq(Candidate)
    BY DEF DataInv, RecordsInv
  <1>. PICK n \in Candidate : n = [cands[c] EXCEPT !.approved = TRUE]
    <2>1. cands[c] \in Candidate
      BY <1>0, <1>1
    <2>2. [cands[c] EXCEPT !.approved = TRUE] \in Candidate
      BY <2>1 DEF Candidate
    <2>. QED  BY <2>2
  <1>2. n.approved /\ n.new = cands[c].new /\ n.base = cands[c].base
    BY <1>0, <1>1 DEF Candidate
  <1>3. /\ cands' = [cands EXCEPT ![c] = n] /\ cands' \in Seq(Candidate)
        /\ Len(cands') = Len(cands) /\ DOMAIN cands' = DOMAIN cands
    BY <1>0, <1>1
  <1>4. cands'[c] = n /\ \A i \in DOMAIN cands : i # c => cands'[i] = cands[i]
    BY <1>0, <1>1, <1>3
  <1>5. \A i \in DOMAIN cands : cands'[i].new = cands[i].new /\ (cands[i].approved => cands'[i].approved)
    BY <1>2, <1>4
  <1>6. GensInv'
    BY <1>0 DEF DataInv, GensInv
  <1>7. RecordsInv'
    BY <1>0, <1>3 DEF DataInv, RecordsInv, Exists
  <1>8. \A x : Intact(x)' = Intact(x)
    BY <1>0 DEF Intact
  <1>9. MarkerInv'
    BY <1>0, <1>3, <1>5, <1>8 DEF DataInv, MarkerInv
  <1>10. PlaceInv' /\ PublishInv'
    BY <1>0 DEF DataInv, PlaceInv, PublishInv, Unmarked, Finishing, Moved, Preparing
  <1>11. CopyInv'
    BY <1>0, <1>2, <1>3, <1>4 DEF CopyInv, OfOperator, Preparing
  <1>12. PromotionLeavesReceipt'
    BY <1>0, <1>5 DEF DataInv, RecordsInv, PromotionLeavesReceipt
  <1>. QED  BY <1>6, <1>7, <1>9, <1>10, <1>11, <1>12 DEF DataInv

\* The promotion begins, or finds its own marker (generations.py promote_candidate).
LEMMA PromoteStep ==
    ASSUME DataInv, Promote
    PROVE  DataInv'
  <1>0. Kept /\ UNCHANGED <<audited, work>> /\ pc = "promote"
    BY DEF Promote, Kept, disk
  <1>1. GensInv' /\ MarkerInv' /\ PromotionLeavesReceipt'
    BY <1>0, KeptParts DEF DataInv
  <1>2. RecordsInv'
    BY <1>0, KeptRecords DEF DataInv, RecordsInv
  <1>3. work \in [candidate : DOMAIN cands] /\ cands[work.candidate].approved
    BY <1>0 DEF DataInv, CopyInv, OfOperator
  <1>4. CASE pc' = "recover-operator" /\ pending # None
    <2>1. PlaceInv' /\ PublishInv'
      BY <1>0, <1>4 DEF PlaceInv, PublishInv, Kept, Unmarked, Finishing, Moved, Preparing
    <2>2. CopyInv'
      BY <1>0, <1>3, <1>4 DEF CopyInv, Kept, OfOperator, Preparing
    <2>. QED  BY <1>1, <1>2, <2>1, <2>2 DEF DataInv
  <1>5. CASE /\ pending = None /\ Promotable(work.candidate)
             /\ pc' = IF Absent(cands[work.candidate].new) THEN "copy" ELSE "mark"
    <2>1. PlaceInv' /\ PublishInv'
      BY <1>0, <1>5 DEF PlaceInv, PublishInv, Kept, Unmarked, Finishing, Moved, Preparing
    <2>2. pointer # None /\ Intact(pointer.id)
      BY <1>5, LoadsIntact DEF DataInv, Promotable, ActiveLoads
    <2>3. pointer' # None /\ Intact(pointer.id)'
      BY <1>0, <2>2 DEF Kept, Intact
    <2>4. pc' = "copy" => Absent(cands[work.candidate].new)'
      BY <1>0, <1>5 DEF Kept, Absent, Exists
    <2>5. CopyInv'
      BY <1>0, <1>3, <1>5, <2>3, <2>4 DEF CopyInv, Kept, OfOperator, Preparing
    <2>. QED  BY <1>1, <1>2, <2>1, <2>5 DEF DataInv
  <1>. QED  BY <1>4, <1>5 DEF Promote

\* The marker is written for two generations that load (generations.py promote_candidate).
LEMMA MarkStep ==
    ASSUME DataAssumption, NoneAssumption, DataInv, MarkPending
    PROVE  DataInv'
  <1>. DEFINE c == work.candidate
  <1>0. /\ UNCHANGED <<gens, pointer, cands, receipts, audited, work>>
        /\ pc = "mark" /\ pc' = "recover-operator" /\ Verified(c)
        /\ pending' = [candidate |-> c, prev |-> pointer.id, new |-> cands[c].new]
    BY DEF MarkPending
  <1>1. /\ c \in DOMAIN cands /\ cands[c].new \in Content /\ work \in [candidate : DOMAIN cands]
        /\ cands[c].approved /\ pointer # None /\ Intact(pointer.id)
    BY <1>0, CandidateInWork DEF DataInv, CopyInv, OfOperator, Preparing
  <1>2. Intact(cands[c].new)
    BY <1>0, LoadsIntact DEF DataInv, Verified
  <1>3. pointer.id \in Content /\ c \in 1..MaxCandidates
    <2>1. cands \in Seq(Candidate) /\ Len(cands) <= MaxCandidates
      BY DEF DataInv, RecordsInv
    <2>2. c \in 1..Len(cands) /\ Len(cands) \in Nat /\ MaxCandidates \in Nat
      BY <1>1, <2>1 DEF DataAssumption
    <2>. QED  BY <1>1, <2>1, <2>2 DEF DataInv, RecordsInv
  <1>4. pending' # None
    BY <1>0, <1>1, <1>3 DEF NoneAssumption
  <1>5. /\ pending' \in [candidate : DOMAIN cands', prev : Content, new : Content]
        /\ pending'.candidate = c /\ pending'.prev = pointer.id /\ pending'.new = cands[c].new
    BY <1>0, <1>1, <1>3
  <1>6. GensInv'
    BY <1>0 DEF DataInv, GensInv
  <1>7. RecordsInv'
    BY <1>0 DEF DataInv, RecordsInv, Exists
  <1>8. MarkerInv'
    BY <1>0, <1>1, <1>2, <1>5 DEF MarkerInv, Intact
  <1>9. PlaceInv' /\ PublishInv'
    BY <1>0, <1>4 DEF PlaceInv, PublishInv, Unmarked, Finishing, Moved, Preparing
  <1>10. CopyInv'
    BY <1>0, <1>1 DEF CopyInv, OfOperator, Preparing
  <1>11. PromotionLeavesReceipt'
    BY <1>4 DEF PromotionLeavesReceipt
  <1>. QED  BY <1>6, <1>7, <1>8, <1>9, <1>10, <1>11 DEF DataInv

\* The pointer moves to the marked generation (generations.py recover_pending_promotion).
LEMMA MoveStep ==
    ASSUME NoneAssumption, DataInv, NEW who \in {"daemon", "operator"}, MovePointer(who)
    PROVE  /\ DataInv' /\ pending # None /\ cands[pending.candidate].approved
           /\ pointer'.data = cands[pending.candidate].new
  <1>0. /\ UNCHANGED <<gens, cands, pending, receipts, audited, work>>
        /\ pc = Recovering(who) /\ pc' = Receipting(who) /\ MayFinish
        /\ pointer' = [id |-> pending.new, data |-> Gen(pending.new).members]
    BY DEF MovePointer
  <1>1. pc \in {"recover-daemon", "recover-operator"} /\ pc' \in {"receipt-daemon", "receipt-operator"}
        /\ (pc' \in OfOperator => pc \in OfOperator)
    BY <1>0 DEF Recovering, Receipting, OfOperator, Preparing
  <1>2. pending # None
    BY <1>1 DEF DataInv, PlaceInv, Finishing
  <1>3. /\ pending \in [candidate : DOMAIN cands, prev : Content, new : Content]
        /\ cands[pending.candidate].approved /\ pending.new = cands[pending.candidate].new
        /\ Intact(pending.prev) /\ Intact(pending.new)
    BY <1>2 DEF DataInv, MarkerInv
  <1>4. Gen(pending.new).members = pending.new /\ Exists(pending.new) /\ pending.new \in Content
    BY <1>3, LoadsIntact DEF DataInv
  <1>5. /\ pointer' \in [id : Content, data : Content]
        /\ pointer'.id = pending.new /\ pointer'.data = pending.new
    BY <1>0, <1>4
  <1>6. GensInv'
    BY <1>0 DEF DataInv, GensInv
  <1>7. RecordsInv'
    BY <1>0, <1>4, <1>5 DEF DataInv, RecordsInv, Exists
  <1>8. pointer' # None
    BY <1>0, <1>4 DEF NoneAssumption
  <1>9. MarkerInv'
    BY <1>0, <1>3, <1>5, <1>8 DEF MarkerInv, Intact
  <1>10. PlaceInv' /\ PublishInv'
    BY <1>0, <1>1, <1>2, <1>5 DEF PlaceInv, PublishInv, Unmarked, Finishing, Moved, Preparing
  <1>11. CopyInv'
    BY <1>0, <1>1 DEF DataInv, CopyInv, OfOperator, Preparing
  <1>12. PromotionLeavesReceipt'
    BY <1>0, <1>2 DEF PromotionLeavesReceipt
  <1>. QED  BY <1>2, <1>3, <1>5, <1>6, <1>7, <1>9, <1>10, <1>11, <1>12 DEF DataInv

\* Receipt, then removal of the marker, then the audit event (generations.py
\* recover_pending_promotion, operations.py).
LEMMA FinishSteps ==
    ASSUME DataInv, Audit \/ \E who \in {"daemon", "operator"} : Receipt(who) \/ Unlink(who)
    PROVE  DataInv'
  <1>1. ASSUME NEW who \in {"daemon", "operator"}, Receipt(who) PROVE DataInv'
    <2>0. /\ UNCHANGED <<gens, pointer, cands, pending, audited, work>>
          /\ pc = Receipting(who) /\ pc' = Unlinking(who)
          /\ receipts' = receipts \cup {pending.candidate}
      BY <1>1 DEF Receipt
    <2>1. /\ pc \in {"receipt-daemon", "receipt-operator"}
          /\ pc' \in {"unlink-daemon", "unlink-operator"}
          /\ (pc' \in OfOperator => pc \in OfOperator)
      BY <2>0 DEF Receipting, Unlinking, OfOperator, Preparing
    <2>2. pending # None /\ pointer.id = pending.new
      BY <2>1 DEF DataInv, PlaceInv, Finishing, Moved
    <2>3. pending.candidate \in DOMAIN cands
      BY <2>2 DEF DataInv, MarkerInv
    <2>4. GensInv' /\ RecordsInv'
      BY <2>0, <2>3 DEF DataInv, GensInv, RecordsInv, Exists
    <2>5. MarkerInv'
      BY <2>0 DEF DataInv, MarkerInv, Intact
    <2>6. PlaceInv' /\ PublishInv'
      BY <2>0, <2>1, <2>2 DEF PlaceInv, PublishInv, Unmarked, Finishing, Moved, Preparing
    <2>7. CopyInv'
      BY <2>0, <2>1 DEF DataInv, CopyInv, OfOperator, Preparing
    <2>8. PromotionLeavesReceipt'
      BY <2>0, <2>2 DEF PromotionLeavesReceipt
    <2>. QED  BY <2>4, <2>5, <2>6, <2>7, <2>8 DEF DataInv
  <1>2. ASSUME NEW who \in {"daemon", "operator"}, Unlink(who) PROVE DataInv'
    <2>0. /\ UNCHANGED <<gens, pointer, cands, receipts, audited, work>>
          /\ pc = Unlinking(who) /\ pc' \in {"load-active", "audit"} /\ pending' = None
          /\ pc' = "audit" => pc = "unlink-operator"
      BY <1>2 DEF Unlink, Unlinking
    <2>1. pc \in {"unlink-daemon", "unlink-operator"}
      BY <2>0 DEF Unlinking
    <2>2. pending # None /\ pointer.id = pending.new /\ pending.candidate \in receipts
      BY <2>1 DEF DataInv, PlaceInv, Finishing, Moved
    <2>3. pending.new = cands[pending.candidate].new
      BY <2>2 DEF DataInv, MarkerInv
    <2>4. GensInv' /\ RecordsInv'
      BY <2>0 DEF DataInv, GensInv, RecordsInv, Exists
    <2>5. MarkerInv' /\ PlaceInv' /\ PublishInv'
      BY <2>0 DEF MarkerInv, PlaceInv, PublishInv, Unmarked, Finishing, Moved, Preparing
    <2>6. CopyInv'
      BY <2>0 DEF DataInv, CopyInv, OfOperator, Preparing
    <2>7. PromotionLeavesReceipt'
      BY <2>0, <2>2, <2>3 DEF PromotionLeavesReceipt
    <2>. QED  BY <2>4, <2>5, <2>6, <2>7 DEF DataInv
  <1>3. CASE Audit
    <2>0. Kept /\ pc = "audit" /\ pc' = "down" /\ audited' = audited \cup {work.candidate}
      BY <1>3 DEF Audit, Kept
    <2>1. work.candidate \in DOMAIN cands
      BY <2>0, CandidateInWork DEF OfOperator
    <2>2. GensInv' /\ MarkerInv' /\ PromotionLeavesReceipt'
      BY <2>0, KeptParts DEF DataInv
    <2>3. RecordsInv'
      BY <2>0, <2>1, KeptRecords DEF DataInv, RecordsInv
    <2>4. PlaceInv' /\ CopyInv' /\ PublishInv'
      BY <2>0 DEF PlaceInv, CopyInv, PublishInv, OfOperator, Unmarked, Finishing, Moved, Preparing
    <2>. QED  BY <2>2, <2>3, <2>4 DEF DataInv
  <1>. QED  BY <1>1, <1>2, <1>3

-----------------------------------------------------------------------------
(* Theorems.                                                               *)

LEMMA DataInit ==
    ASSUME DataAssumption, Init
    PROVE  DataInv
  <1>1. GensInv /\ RecordsInv /\ MarkerInv /\ PromotionLeavesReceipt
    BY DEF Init, DataAssumption, GensInv, RecordsInv, MarkerInv, PromotionLeavesReceipt
  <1>2. PlaceInv /\ CopyInv /\ PublishInv
    BY DEF Init, PlaceInv, CopyInv, PublishInv, OfOperator, Unmarked, Finishing, Moved, Preparing
  <1>. QED  BY <1>1, <1>2 DEF DataInv

LEMMA DataStep ==
    ASSUME DataAssumption, NoneAssumption, DataInv, [Next]_vars
    PROVE  DataInv'
  <1>1. CASE Crash \/ Stop \/ Daemon
    BY <1>1, Moves, StartStep, SeedSteps, LoadSeedStep, PublishStep DEF Daemon
  <1>2. CASE Operator
    BY <1>2, Moves, PromoteStep, CopySteps, MarkStep, FinishSteps DEF Operator
  <1>3. CASE Recovery
    BY <1>3, Moves, MoveStep, FinishSteps DEF Recovery
  <1>4. CASE \E raw \in Content : Update(raw)
    BY <1>4, UpdateStep
  <1>5. CASE \E c \in 1..MaxCandidates : Approve(c)
    BY <1>5, ApproveStep
  <1>6. CASE UNCHANGED vars
    <2>1. Kept /\ UNCHANGED <<audited, pc, work>>
      BY <1>6 DEF vars, Kept
    <2>2. GensInv' /\ MarkerInv' /\ PromotionLeavesReceipt'
      BY <2>1, KeptParts DEF DataInv
    <2>3. RecordsInv'
      BY <2>1, KeptRecords DEF DataInv, RecordsInv
    <2>4. PlaceInv'
      BY <2>1 DEF DataInv, PlaceInv, Kept
    <2>5. CopyInv'
      BY <2>1 DEF DataInv, CopyInv, Kept, Absent, Exists, Unfinished, Intact
    <2>6. PublishInv'
      BY <2>1 DEF DataInv, PublishInv, Kept
    <2>. QED  BY <2>2, <2>3, <2>4, <2>5, <2>6 DEF DataInv
  <1>. QED  BY <1>1, <1>2, <1>3, <1>4, <1>5, <1>6 DEF Next

\* The invariant of the generations and of the process that works on them.
THEOREM DataInvariant ==
    ASSUME DataAssumption, NoneAssumption
    PROVE  Spec => []DataInv
  BY DataInit, DataStep, PTL DEF Spec

\* Generations, pointer, candidates and receipts stay well formed.
THEOREM DataTypes ==
    ASSUME DataAssumption, NoneAssumption
    PROVE  Spec => []TypeOK
  <1>1. DataInv => TypeOK
    BY DEF DataInv, GensInv, RecordsInv, Generation, TypeOK
  <1>. QED  BY <1>1, DataInvariant, PTL

\* Wherever a promotion dies, the pointer names one of its two generations and both load, and an
\* active generation other than the seed is pending or has its receipt (generations.py).
THEOREM PromotionsRecover ==
    ASSUME DataAssumption, NoneAssumption
    PROVE  Spec => []PromotionIsRecoverable
  <1>1. DataInv => PendingIsSound /\ PromotionLeavesReceipt
    BY LoadsIntact DEF DataInv, MarkerInv, PendingIsSound
  <1>. QED  BY <1>1, DataInvariant, DataTypes, PTL DEF PromotionIsRecoverable

-----------------------------------------------------------------------------
(* What a step does to bars that were active.                              *)

\* A series continues itself.
LEMMA PrefixOfItself ==
    ASSUME NEW x
    PROVE  Len(x) \in Nat => IsPrefix(x, x)
  BY DEF IsPrefix

LEMMA SeriesContinuesItself ==
    ASSUME NEW x \in Content, NEW s \in Symbol
    PROVE  IsPrefix(x[s], x[s])
  <1>1. PICK n \in 1..MaxRows : x[s] \in [1..n -> Version]
    BY DEF Content, Series
  <1>2. Len(x[s]) = n
    BY <1>1
  <1>. QED  BY <1>1, <1>2, PrefixOfItself

LEMMA ActiveBefore ==
    ASSUME GensInv, NEW g \in gens, g.id = pointer.id
    PROVE  Active = g
  BY GenFound DEF Active

LEMMA ActiveAfter ==
    ASSUME GensInv', NEW g \in gens', g.id = pointer'.id
    PROVE  Active' = g
  BY DEF GensInv, Active, Gen

\* Steps that change no generation and leave the pointer.
LEMMA SameGenerations ==
    ASSUME [Next]_vars, ~SeedBegins, ~SeedEnds, ~LoadSeed, ~CopyBegins, ~CopyEnds,
           \A s \in Symbol : ~Publish(s),
           \A who \in {"daemon", "operator"} : ~MovePointer(who)
    PROVE  UNCHANGED <<gens, pointer>>
  <1>1. CASE Crash \/ Stop \/ Daemon
    BY <1>1
       DEF Crash, Stop, Daemon, Start, LoadActive, StartRefused, Refresh, RefreshRefused, Leave, disk
  <1>2. CASE Operator
    BY <1>2 DEF Operator, Promote, PromoteRefused, MarkPending, MarkRefused, Audit, Leave, disk
  <1>3. CASE Recovery
    BY <1>3 DEF Recovery, RecoverRefused, Receipt, Unlink, Leave, disk
  <1>4. CASE \E raw \in Content : Update(raw)
    BY <1>4 DEF Update
  <1>5. CASE \E c \in 1..MaxCandidates : Approve(c)
    BY <1>5 DEF Approve
  <1>6. CASE UNCHANGED vars
    BY <1>6 DEF vars
  <1>. QED  BY <1>1, <1>2, <1>3, <1>4, <1>5, <1>6 DEF Next

\* A copy never replaces a generation that was copied whole (generations.py promote_candidate).
LEMMA CopyReplacesNothing ==
    ASSUME DataInv, CopyBegins \/ CopyEnds
    PROVE  /\ \A g \in gens : g.whole => g \in gens'
           /\ pointer # None /\ Intact(pointer.id) /\ pointer' = pointer
  <1>. PICK new \in Content : new = cands[work.candidate].new
    BY CandidateInWork DEF CopyBegins, CopyEnds, OfOperator, Preparing
  <1>1. Unfinished(new)
    BY DEF CopyBegins, CopyEnds, DataInv, CopyInv, Absent, Exists, Unfinished
  <1>2. Copied(new, FALSE) \/ Copied(new, TRUE)
    BY DEF CopyBegins, CopyEnds, BeginCopy, EndCopy, Copied
  <1>3. \A g \in gens : g.whole => g \in gens'
    BY <1>1, <1>2, CopyKeeps DEF DataInv
  <1>4. pointer # None /\ Intact(pointer.id) /\ pointer' = pointer
    BY DEF CopyBegins, CopyEnds, DataInv, CopyInv, Preparing
  <1>. QED  BY <1>3, <1>4

LEMMA SeedHasNoPointer ==
    ASSUME DataInv, SeedBegins \/ SeedEnds \/ LoadSeed
    PROVE  pointer = None
  BY DEF DataInv, CopyInv, SeedBegins, SeedEnds, LoadSeed

OldKept == \A g \in gens : g.whole /\ pointer # None /\ g.id # pointer.id => g \in gens'

LEMMA OldKeptStep ==
    ASSUME DataInv, [Next]_vars
    PROVE  OldKept
  <1>1. CASE SeedBegins \/ SeedEnds \/ LoadSeed
    BY <1>1, SeedHasNoPointer DEF OldKept
  <1>2. CASE CopyBegins \/ CopyEnds
    BY <1>2, CopyReplacesNothing DEF OldKept
  <1>3. CASE \E s \in Symbol : Publish(s)
    BY <1>3, PublishStep DEF OldKept
  <1>4. CASE gens' = gens
    BY <1>4 DEF OldKept
  <1>5. CASE \E who \in {"daemon", "operator"} : MovePointer(who)
    BY <1>5 DEF MovePointer, OldKept
  <1>. QED  BY <1>1, <1>2, <1>3, <1>4, <1>5, SameGenerations

NoRewrite ==
    pointer # None =>
        /\ pointer'.id = pointer.id =>
             \A s \in Symbol : IsPrefix(Active.members[s], Active'.members[s])
        /\ pointer'.id # pointer.id =>
             pending # None /\ cands[pending.candidate].approved
             /\ pointer'.data = cands[pending.candidate].new

LEMMA NoRewriteStep ==
    ASSUME DataInv, DataInv', NoneAssumption, [Next]_vars
    PROVE  NoRewrite
  <1>. SUFFICES ASSUME pointer # None PROVE NoRewrite
    BY DEF NoRewrite
  <1>0. GensInv /\ GensInv' /\ Exists(pointer.id)
    BY DEF DataInv, RecordsInv
  <1>. PICK act \in gens : act.id = pointer.id
    BY <1>0 DEF Exists
  <1>1. Active = act /\ act.members \in Content
    BY <1>0, ActiveBefore DEF GensInv, Generation
  <1>2. \A s \in Symbol : IsPrefix(act.members[s], act.members[s])
    BY <1>1, SeriesContinuesItself
  <1>3. ASSUME act \in gens', pointer'.id = pointer.id PROVE NoRewrite
    <2>1. Active' = act
      BY <1>0, <1>3, ActiveAfter
    <2>. QED  BY <1>1, <1>2, <1>3, <2>1 DEF NoRewrite
  <1>4. CASE SeedBegins \/ SeedEnds \/ LoadSeed
    BY <1>4, SeedHasNoPointer
  <1>5. CASE CopyBegins \/ CopyEnds
    <2>1. act.whole
      BY <1>0, <1>5, CopyReplacesNothing DEF Intact, GensInv
    <2>. QED  BY <1>3, <1>5, <2>1, CopyReplacesNothing
  <1>6. ASSUME NEW s \in Symbol, Publish(s) PROVE NoRewrite
    <2>1. PICK h \in gens' : /\ h.id = act.id /\ h.members[s] = work.raw[s]
                             /\ \A t \in Symbol \ {s} : h.members[t] = act.members[t]
      BY <1>6, PublishStep
    <2>2. pointer' = pointer /\ pc = "publish" /\ s \in work.todo
      BY <1>6 DEF Publish
    <2>3. IsPrefix(act.members[s], work.raw[s])
      BY <2>2 DEF DataInv, PublishInv
    <2>4. Active' = h
      BY <1>0, <2>1, <2>2, ActiveAfter
    <2>5. \A t \in Symbol : IsPrefix(act.members[t], h.members[t])
      BY <1>2, <2>1, <2>3
    <2>. QED  BY <1>1, <2>2, <2>4, <2>5 DEF NoRewrite
  <1>7. ASSUME NEW who \in {"daemon", "operator"}, MovePointer(who) PROVE NoRewrite
    <2>1. act \in gens'
      BY <1>7 DEF MovePointer
    <2>. QED  BY <1>3, <1>7, <2>1, MoveStep DEF NoRewrite
  <1>8. CASE UNCHANGED <<gens, pointer>>
    BY <1>3, <1>8
  <1>. QED  BY <1>4, <1>5, <1>6, <1>7, <1>8, SameGenerations

\* Bars that were active change only by an approved promotion, and a whole generation that is not
\* active is never touched (xtquant_daily.py update, generations.py promote_candidate).
THEOREM DataHistoryIsKept ==
    ASSUME DataAssumption, NoneAssumption
    PROVE  Spec => HistoryIsKept
  <1>1. DataInv /\ [Next]_vars => [OldKept]_vars
    BY OldKeptStep
  <1>2. DataInv /\ DataInv' /\ [Next]_vars => [NoRewrite]_vars
    BY NoRewriteStep
  <1>3. Spec => [][OldKept]_vars
    BY <1>1, DataInvariant, PTL DEF Spec
  <1>4. Spec => [][NoRewrite]_vars
    BY <1>2, DataInvariant, PTL DEF Spec
  <1>. QED  BY <1>3, <1>4 DEF HistoryIsKept, OldGenerationsKept, NoRewriteWithoutApproval, OldKept, NoRewrite

-----------------------------------------------------------------------------
(* The first session.                                                      *)

\* A set of days that is not empty has a first one.
LEMMA HasMin ==
    ASSUME NEW S, S \subseteq Nat, S # {}
    PROVE  /\ Min(S) \in S
           /\ \A y \in S : Min(S) <= y
  <1>1. \E x \in S : \A y \in S : x <= y
    BY LeastNumber
  <1>. QED  BY <1>1 DEF Min

-----------------------------------------------------------------------------
(* The command.                                                            *)

\* What the command and the daemon keep between any two steps: used sessions are sessions of
\* the published calendar, what is about to be published was validated against the published
\* one, and that one is archived by then.
CalendarInv ==
    /\ calendar \in Calendar /\ history \cup replaced \subseteq Calendar
    /\ used \subseteq calendar.sessions
    /\ step \in {"idle", "archive", "publish", "audit"}
    /\ step \in {"archive", "publish"} => proposed \in Calendar /\ Valid(proposed)
    /\ step = "publish" => calendar \in history
    /\ ReplacedIsArchived

\* The fields of a calendar (calendar_manifest.py TradingCalendarManifest).
LEMMA CalendarFields ==
    ASSUME CalendarAssumption, NEW c \in Calendar
    PROVE  /\ c.from \in Nat /\ c.through \in Nat /\ c.from <= c.through
           /\ c.sessions \subseteq Nat /\ c.sessions \subseteq 0..LastDay /\ LastDay \in Nat
           /\ \A s \in c.sessions : c.from <= s /\ s <= c.through
  <1>1. LastDay \in Nat
    BY DEF CalendarAssumption
  <1>2. \A s \in c.sessions : s \in Nat /\ c.from <= s /\ s <= c.through /\ s <= LastDay
    BY <1>1 DEF Calendar, Day
  <1>3. c.from \in Nat /\ c.through \in Nat /\ c.from <= c.through
    BY <1>1 DEF Calendar, Day
  <1>. QED  BY <1>1, <1>2, <1>3

\* The last used session is one, and no used session is later (data_calendar_control.py
\* _used_through).
LEMMA UsedThroughIsLast ==
    ASSUME CalendarAssumption, calendar \in Calendar, used \subseteq calendar.sessions
    PROVE  /\ UsedThrough \in Nat
           /\ \A d \in used : d <= UsedThrough
           /\ used # {} => UsedThrough \in used
  <1>1. CASE used = {}
    BY <1>1, CalendarFields DEF UsedThrough
  <1>2. CASE used # {}
    <2>1. used \subseteq 0..LastDay /\ LastDay \in Nat
      BY CalendarFields
    <2>. DEFINE m == Max(used)
    <2>2. m \in used /\ \A d \in used : d <= m
      BY <1>2, <2>1, BoundedMax
    <2>3. UsedThrough = m
      BY <1>2 DEF UsedThrough
    <2>. HIDE DEF m
    <2>4. m \in Nat
      <3>1. m \in 0..LastDay
        BY <2>1, <2>2, Zenon
      <3>. QED  BY <2>1, <3>1
    <2>. QED  BY <2>2, <2>3, <2>4
  <1>. QED  BY <1>1, <1>2

\* A valid update keeps every session up to a used one (calendar_manifest.py
\* validate_calendar_update).
LEMMA ValidKeepsUsed ==
    ASSUME CalendarAssumption, calendar \in Calendar, used \subseteq calendar.sessions,
           NEW new \in Calendar, Valid(new), NEW d \in used
    PROVE  /\ d \in new.sessions
           /\ {s \in new.sessions : s <= d} = {s \in calendar.sessions : s <= d}
  <1>. DEFINE u == UsedThrough
  <1>1. u \in Nat /\ d <= u /\ d \in calendar.sessions
    BY UsedThroughIsLast
  <1>2. {s \in new.sessions : s <= u} = {s \in calendar.sessions : s <= u}
    BY DEF Valid
  <1>3. new.sessions \subseteq Nat /\ calendar.sessions \subseteq Nat
    BY CalendarFields
  <1>. HIDE DEF u
  <1>4. \A s \in Nat : s <= d => (s \in new.sessions <=> s \in calendar.sessions)
    <2>. SUFFICES ASSUME NEW s \in Nat, s <= d
                  PROVE  s \in new.sessions <=> s \in calendar.sessions
      OBVIOUS
    <2>1. s <= u
      BY <1>1, <1>3
    <2>. QED  BY <1>2, <2>1
  <1>. QED  BY <1>1, <1>3, <1>4

-----------------------------------------------------------------------------
LEMMA CalendarStarts ==
    ASSUME CalendarInit
    PROVE  CalendarInv
  BY DEF CalendarInit, CalendarInv, ReplacedIsArchived

\* Every step of the daemon and of the command preserves it (data_calendar_control.py).
LEMMA CalendarStep ==
    ASSUME CalendarAssumption, CalendarInv, [CalendarNext]_calendarVars
    PROVE  CalendarInv'
  <1>1. CASE \E d \in Day : Use(d)
    BY <1>1 DEF CalendarInv, Use, ReplacedIsArchived
  <1>2. ASSUME NEW c \in Calendar, Begin(c) PROVE CalendarInv'
    <2>1. proposed' = c /\ Valid(c) /\ UNCHANGED <<calendar, used>>
      BY <1>2 DEF Begin
    <2>2. Valid(proposed)'
      BY <2>1 DEF Valid, UsedThrough, Covers
    <2>. QED  BY <1>2, <2>1, <2>2 DEF CalendarInv, Begin, ReplacedIsArchived
  <1>3. CASE Archive
    <2>1. Valid(proposed) => Valid(proposed)'
      BY <1>3 DEF Archive, Valid, UsedThrough, Covers
    <2>. QED  BY <1>3, <2>1 DEF CalendarInv, Archive, ReplacedIsArchived
  <1>4. CASE PublishManifest
    <2>1. proposed \in Calendar /\ Valid(proposed) /\ calendar \in history
      BY <1>4 DEF CalendarInv, PublishManifest
    <2>2. \A d \in used : d \in proposed.sessions
      BY <2>1, ValidKeepsUsed DEF CalendarInv
    <2>. QED  BY <1>4, <2>1, <2>2 DEF CalendarInv, PublishManifest, ReplacedIsArchived
  <1>5. CASE AuditUpdate
    BY <1>5 DEF CalendarInv, AuditUpdate, ReplacedIsArchived
  <1>6. CASE CommandDies
    BY <1>6 DEF CalendarInv, CommandDies, ReplacedIsArchived
  <1>7. CASE UNCHANGED calendarVars
    <2>1. Valid(proposed) => Valid(proposed)'
      BY <1>7 DEF calendarVars, Valid, UsedThrough, Covers
    <2>. QED  BY <1>7, <2>1 DEF CalendarInv, calendarVars, ReplacedIsArchived
  <1>. QED  BY <1>1, <1>2, <1>3, <1>4, <1>5, <1>6, <1>7 DEF CalendarNext

\* The invariant of the calendar and of the command that replaces it.
THEOREM CalendarInvariant ==
    ASSUME CalendarAssumption
    PROVE  CalendarSpec => []CalendarInv
  BY CalendarStarts, CalendarStep, PTL DEF CalendarSpec

\* A calendar's next session after one of its sessions looks back to it (calendar.py
\* next_session, previous_session).
LEMMA NextAndPrevious ==
    ASSUME CalendarAssumption, calendar \in Calendar
    PROVE  NextLooksBack
  <1>. SUFFICES ASSUME NEW d \in calendar.sessions, \E s \in calendar.sessions : s > d
                PROVE  /\ NextSession(calendar, d) > d
                       /\ PreviousSession(calendar, NextSession(calendar, d)) = d
    BY DEF NextLooksBack
  <1>. DEFINE later == {s \in calendar.sessions : s > d}
              n == NextSession(calendar, d)
              earlier == {s \in calendar.sessions : s < n}
              p == PreviousSession(calendar, n)
  <1>0. calendar.sessions \subseteq Nat /\ calendar.sessions \subseteq 0..LastDay /\ LastDay \in Nat
    BY CalendarFields
  <1>1. n \in later /\ \A y \in later : n <= y
    BY <1>0, HasMin DEF NextSession
  <1>2. d \in earlier /\ earlier \subseteq 0..LastDay
    BY <1>0, <1>1
  <1>3. p \in earlier /\ \A y \in earlier : y <= p
    BY <1>0, <1>2, BoundedMax DEF PreviousSession
  <1>4. p \in calendar.sessions /\ p < n /\ d <= p /\ n > d /\ {p, d, n} \subseteq Nat
    BY <1>0, <1>1, <1>2, <1>3
  <1>5. ~(p > d)
    <2>. SUFFICES ASSUME p > d PROVE FALSE
      OBVIOUS
    <2>1. p \in later
      BY <1>4
    <2>. QED  BY <1>1, <1>4, <2>1
  <1>. QED  BY <1>4, <1>5

\* The published calendar and the archive stay well formed, and what was used is covered.
THEOREM CalendarTypes ==
    ASSUME CalendarAssumption
    PROVE  CalendarSpec => []CalendarTypeOK
  <1>1. CalendarInv => CalendarTypeOK
    <2>. SUFFICES ASSUME CalendarInv, NEW d \in used
                  PROVE  Covers(calendar, d) /\ CoverageState(calendar, d) # "EXPIRED"
      BY DEF CalendarInv, CalendarTypeOK
    <2>1. d \in Nat /\ calendar.from \in Nat /\ calendar.through \in Nat
          /\ calendar.from <= d /\ d <= calendar.through
      BY CalendarFields DEF CalendarInv
    <2>2. Covers(calendar, d) /\ ~(d < calendar.from \/ calendar.through < d)
      BY <2>1 DEF Covers
    <2>. QED  BY <2>2 DEF CoverageState
  <1>. QED  BY <1>1, CalendarInvariant, PTL

\* No update removes a used session or puts another one before it, over any number of updates
\* and crashes (calendar_manifest.py validate_calendar_update).
THEOREM UsedSessionsStay ==
    ASSUME CalendarAssumption
    PROVE  CalendarSpec => UsedSessionsKept
  <1>. DEFINE SamePast == \A d \in used :
                {s \in calendar'.sessions : s <= d} = {s \in calendar.sessions : s <= d}
  <1>1. ASSUME CalendarInv, CalendarNext PROVE SamePast
    <2>1. CASE PublishManifest
      <3>1. proposed \in Calendar /\ Valid(proposed) /\ calendar' = proposed
        BY <1>1, <2>1 DEF CalendarInv, PublishManifest
      <3>. QED  BY <1>1, <3>1, ValidKeepsUsed DEF CalendarInv
    <2>2. CASE calendar' = calendar
      BY <2>2
    <2>. QED  BY <1>1, <2>1, <2>2 DEF CalendarNext, Use, Begin, Archive, AuditUpdate, CommandDies
  <1>2. CalendarInv /\ [CalendarNext]_calendarVars => [SamePast]_calendarVars
    BY <1>1
  <1>. QED  BY <1>2, CalendarInvariant, PTL DEF CalendarSpec, UsedSessionsKept

\* However many updates are made and wherever one dies: every replaced manifest is archived,
\* next and previous session are inverse on the published calendar, and the sessions up to one
\* that was used never change (data_calendar_control.py, calendar.py, calendar_manifest.py).
THEOREM CalendarStaysSound ==
    ASSUME CalendarAssumption
    PROVE  CalendarSpec => CalendarIsSound
  <1>1. CalendarInv => ReplacedIsArchived /\ NextLooksBack
    BY NextAndPrevious DEF CalendarInv
  <1>. QED  BY <1>1, CalendarInvariant, CalendarTypes, UsedSessionsStay, PTL DEF CalendarIsSound

-----------------------------------------------------------------------------
(* The paper broker: its books.                                            *)

Reasons ==
    {"none", "MARKET", "TRADING_UNIT_INVALID", "POSITION_INSUFFICIENT", "T1_SELLABLE_EXCEEDED",
     "PRICE", "CASH_OR_VOLUME", "ACKNOWLEDGED", "PARTIALLY_FILLED"} \cup CLOSED_STATUSES
Statuses == {"none", "ACKNOWLEDGED", "PARTIALLY_FILLED"} \cup CLOSED_STATUSES
OrderRecord ==
    [status : Statuses, side : Side, requested : Nat, filled : Nat, reason : Reasons]
FillRecord == [order : Order, shares : Nat]
Book ==
    [cash : Nat, total : Nat, sellable : Nat, orders : [Order -> OrderRecord],
     fills : Seq(FillRecord), consumed : Nat, seq : Nat, lost : Nat]

\* An order as its record says it is.
OrderInv(c) ==
    /\ c.status = "none" => c = NoOrder
    /\ c.status # "none" => c.requested > 0
    /\ c.filled <= c.requested /\ c.requested <= MaxShares
    /\ c.status = "FILLED" <=> (c.requested > 0 /\ c.filled = c.requested)
    /\ c.status \in CLOSED_STATUSES => c.reason # "none"

\* Records, account and consumed volume against the fills.
SumsInv(b) ==
    /\ \A o \in Order : b.orders[o].filled = FilledOf(b, o)
    /\ b.total = InitialShares + Traded(b, "BUY") - Traded(b, "SELL") - b.lost
    /\ b.sellable = InitialSellable - Traded(b, "SELL") - b.lost
    /\ b.consumed = Traded(b, "BUY") + Traded(b, "SELL")

BookInv(b) ==
    /\ b \in Book /\ b.sellable <= b.total
    /\ \A o \in Order : OrderInv(b.orders[o])
    /\ \A i \in 1..Len(b.fills) : b.orders[b.fills[i].order].status # "none"
    /\ SumsInv(b)
    /\ \E v \in Volumes : b.consumed <= v \div Participation

QuoteInv ==
    /\ quote \in [price : Prices, volume : Volumes, open : BOOLEAN]

\* What is kept for the sink is a sequence, and nothing is missing.
DeliveryInv ==
    /\ (\E T : callbacks \in Seq(T)) /\ connected \in BOOLEAN /\ sink \in BOOLEAN /\ degraded \in BOOLEAN
    /\ NoCallbackLost

PaperInv == BookInv(book) /\ QuoteInv /\ DeliveryInv

-----------------------------------------------------------------------------
(* Sums over the fills.                                                    *)

\* What a fill counts for in a sum.
LEMMA FillFields ==
    ASSUME NEW b \in Book
    PROVE  /\ Len(b.fills) \in Nat /\ DOMAIN b.fills = 1..Len(b.fills)
           /\ \A i \in 1..Len(b.fills) : b.fills[i].order \in Order /\ b.fills[i].shares \in Nat
           /\ \A o \in Order : b.orders[o] \in OrderRecord
  <1>1. b.fills \in Seq(FillRecord) /\ b.orders \in [Order -> OrderRecord]
    BY DEF Book
  <1>2. \A i \in 1..Len(b.fills) : b.fills[i] \in FillRecord
    BY <1>1
  <1> QED
    BY <1>1, <1>2 DEF FillRecord

\* What was traded is a number.
LEMMA TradedIsInt ==
    ASSUME NEW b \in Book, NEW side
    PROVE  Traded(b, side) \in Int
  <1> DEFINE v == [i \in DOMAIN b.fills |->
                     IF b.orders[b.fills[i].order].side = side THEN b.fills[i].shares ELSE 0]
  <1>1. /\ Len(b.fills) \in Nat /\ DOMAIN b.fills = 1..Len(b.fills)
        /\ \A i \in 1..Len(b.fills) : b.fills[i].shares \in Nat
    BY FillFields
  <1>2. IsFiniteSet(DOMAIN b.fills)
    BY <1>1, FS_Interval
  <1>3. DOMAIN v = DOMAIN b.fills /\ \A i \in DOMAIN b.fills : v[i] \in Int
    BY <1>1
  <1>4. Traded(b, side) = SumFunction(v)
    BY DEF Traded
  <1> HIDE DEF v
  <1> QED
    BY <1>2, <1>3, <1>4, SumIsInt

\* One more fill.
LEMMA FilledGrows ==
    ASSUME NEW b \in Book, NEW d \in Book, NEW f \in FillRecord, NEW o \in Order,
           d.fills = Append(b.fills, f)
    PROVE  /\ FilledOf(b, o) \in Int
           /\ FilledOf(d, o) = FilledOf(b, o) + (IF f.order = o THEN f.shares ELSE 0)
  <1> DEFINE n == Len(b.fills)
             v == [i \in DOMAIN b.fills |-> IF b.fills[i].order = o THEN b.fills[i].shares ELSE 0]
             w == [i \in DOMAIN d.fills |-> IF d.fills[i].order = o THEN d.fills[i].shares ELSE 0]
  <1>1. /\ n \in Nat /\ DOMAIN b.fills = 1..n
        /\ \A i \in 1..n : b.fills[i].order \in Order /\ b.fills[i].shares \in Nat
    BY FillFields
  <1>2. /\ Len(d.fills) = n + 1 /\ DOMAIN d.fills = 1..(n + 1) /\ d.fills[n + 1] = f
        /\ \A i \in 1..n : d.fills[i] = b.fills[i]
    <2>1. b.fills \in Seq(FillRecord)
      BY DEF Book
    <2> QED
      BY <2>1, AppendProperties
  <1>3. f.shares \in Nat
    BY DEF FillRecord
  <1> HIDE DEF n
  <1>4. DOMAIN v = 1..n /\ \A i \in 1..n : v[i] \in Int
    BY <1>1
  <1>5. /\ DOMAIN w = 1..(n + 1) /\ w[n + 1] \in Int
        /\ w[n + 1] = (IF f.order = o THEN f.shares ELSE 0)
        /\ \A i \in 1..n : w[i] = v[i]
    BY <1>1, <1>2, <1>3
  <1>6. FilledOf(b, o) = SumFunction(v) /\ FilledOf(d, o) = SumFunction(w)
    BY DEF FilledOf
  <1> HIDE DEF v, w
  <1>7. SumFunction(v) \in Int /\ SumFunction(w) = SumFunction(v) + w[n + 1]
    BY <1>1, <1>4, <1>5, SumOfLonger
  <1> QED
    BY <1>5, <1>6, <1>7

LEMMA TradedGrows ==
    ASSUME NEW b \in Book, NEW d \in Book, NEW f \in FillRecord, NEW side,
           d.fills = Append(b.fills, f), \A o \in Order : d.orders[o].side = b.orders[o].side
    PROVE  /\ Traded(b, side) \in Int
           /\ Traded(d, side) = Traded(b, side)
                                + (IF b.orders[f.order].side = side THEN f.shares ELSE 0)
  <1> DEFINE n == Len(b.fills)
             v == [i \in DOMAIN b.fills |->
                     IF b.orders[b.fills[i].order].side = side THEN b.fills[i].shares ELSE 0]
             w == [i \in DOMAIN d.fills |->
                     IF d.orders[d.fills[i].order].side = side THEN d.fills[i].shares ELSE 0]
  <1>1. /\ n \in Nat /\ DOMAIN b.fills = 1..n
        /\ \A i \in 1..n : b.fills[i].order \in Order /\ b.fills[i].shares \in Nat
    BY FillFields
  <1>2. /\ Len(d.fills) = n + 1 /\ DOMAIN d.fills = 1..(n + 1) /\ d.fills[n + 1] = f
        /\ \A i \in 1..n : d.fills[i] = b.fills[i]
    <2>1. b.fills \in Seq(FillRecord)
      BY DEF Book
    <2> QED
      BY <2>1, AppendProperties
  <1>3. f.shares \in Nat /\ f.order \in Order
    BY DEF FillRecord
  <1> HIDE DEF n
  <1>4. DOMAIN v = 1..n /\ \A i \in 1..n : v[i] \in Int
    BY <1>1
  <1>5. /\ DOMAIN w = 1..(n + 1) /\ w[n + 1] \in Int
        /\ w[n + 1] = (IF b.orders[f.order].side = side THEN f.shares ELSE 0)
        /\ \A i \in 1..n : w[i] = v[i]
    BY <1>1, <1>2, <1>3
  <1>6. Traded(b, side) = SumFunction(v) /\ Traded(d, side) = SumFunction(w)
    BY DEF Traded
  <1> HIDE DEF v, w
  <1>7. SumFunction(v) \in Int /\ SumFunction(w) = SumFunction(v) + w[n + 1]
    BY <1>1, <1>4, <1>5, SumOfLonger
  <1> QED
    BY <1>5, <1>6, <1>7

\* Without a new fill, and with the sides of the filled orders unchanged, nothing was traded.
LEMMA TradedStays ==
    ASSUME NEW b \in Book, NEW d \in Book, d.fills = b.fills,
           \A i \in 1..Len(b.fills) :
              d.orders[b.fills[i].order].side = b.orders[b.fills[i].order].side
    PROVE  /\ \A side : Traded(d, side) = Traded(b, side)
           /\ \A o : FilledOf(d, o) = FilledOf(b, o)
  <1>1. DOMAIN b.fills = 1..Len(b.fills)
    BY FillFields
  <1>2. ASSUME NEW side PROVE Traded(d, side) = Traded(b, side)
    <2>1. [i \in DOMAIN d.fills |->
             IF d.orders[d.fills[i].order].side = side THEN d.fills[i].shares ELSE 0]
          = [i \in DOMAIN b.fills |->
             IF b.orders[b.fills[i].order].side = side THEN b.fills[i].shares ELSE 0]
      BY <1>1
    <2> QED
      BY <2>1 DEF Traded
  <1>3. ASSUME NEW o PROVE FilledOf(d, o) = FilledOf(b, o)
    BY DEF FilledOf
  <1> QED
    BY <1>2, <1>3

\* Before the first fill.
LEMMA NothingTraded ==
    ASSUME NEW b, b.fills = <<>>
    PROVE  /\ \A side : Traded(b, side) = 0
           /\ \A o : FilledOf(b, o) = 0
  <1>1. DOMAIN b.fills = {}
    OBVIOUS
  <1>2. ASSUME NEW side PROVE Traded(b, side) = 0
    <2> DEFINE v == [i \in DOMAIN b.fills |->
                       IF b.orders[b.fills[i].order].side = side THEN b.fills[i].shares ELSE 0]
    <2>1. DOMAIN v = {}
      BY <1>1
    <2> HIDE DEF v
    <2>2. SumFunction(v) = 0
      BY <2>1, SumOfNothing
    <2> QED
      BY <2>2 DEF Traded, v
  <1>3. ASSUME NEW o PROVE FilledOf(b, o) = 0
    <2> DEFINE v == [i \in DOMAIN b.fills |-> IF b.fills[i].order = o THEN b.fills[i].shares ELSE 0]
    <2>1. DOMAIN v = {}
      BY <1>1
    <2> HIDE DEF v
    <2>2. SumFunction(v) = 0
      BY <2>1, SumOfNothing
    <2> QED
      BY <2>2 DEF FilledOf, v
  <1> QED
    BY <1>2, <1>3

-----------------------------------------------------------------------------
(* Quantities and fees.                                                    *)

LEMMA FeesAreNat ==
    ASSUME PaperAssumption, NEW side, NEW g \in Nat
    PROVE  Fees(side, g) \in Nat
  <1>1. MinCommission \in Nat /\ TaxDivisor \in Nat \ {0}
    BY DEF PaperAssumption
  <1>2. g \div TaxDivisor \in Nat
    BY <1>1
  <1> QED
    BY <1>1, <1>2 DEF Fees, Larger

LEMMA RoundedDown ==
    ASSUME PaperAssumption, NEW n \in Nat
    PROVE  RoundDown(n) \in Nat /\ RoundDown(n) <= n
  <1>1. Unit \in Nat \ {0}
    BY DEF PaperAssumption
  <1> QED
    BY <1>1 DEF RoundDown

\* What cash pays for.
LEMMA AffordableIsPaid ==
    ASSUME PaperAssumption, QuoteInv, NEW b \in Book, NEW k \in Nat
    PROVE  /\ Affordable(b, k) \in Nat /\ Affordable(b, k) <= k
           /\ Affordable(b, k) > 0 =>
                Affordable(b, k) * quote.price + Fees("BUY", Affordable(b, k) * quote.price) <= b.cash
  <1> DEFINE Paid(q) == q % Unit = 0 /\ q * quote.price + Fees("BUY", q * quote.price) <= b.cash
             S == {0} \cup {q \in 1..k : Paid(q)}
  <1>1. S \subseteq 0..k /\ S # {}
    OBVIOUS
  <1>2. Affordable(b, k) = Max(S)
    BY DEF Affordable
  <1>3. Max(S) \in S
    <2> HIDE DEF S
    <2> QED
      BY <1>1, BoundedMax
  <1> DEFINE a == Max(S)
  <1>4. a \in 0..k /\ (a > 0 => Paid(a))
    <2>1. a \in S
      BY <1>3
    <2> HIDE DEF a, Paid
    <2> QED
      BY <2>1
  <1> HIDE DEF S
  <1> QED
    BY <1>2, <1>4

\* The quantity of a match: what is left of order, volume, and sellable shares or cash.
LEMMA QuantityFits ==
    ASSUME PaperAssumption, QuoteInv, NEW b, BookInv(b), NEW o \in Order, Quantity(b, o) > 0
    PROVE  LET c == b.orders[o]
               q == Quantity(b, o)
           IN  /\ q \in Nat \ {0} /\ q <= c.requested - c.filled
               /\ b.consumed + q <= quote.volume \div Participation
               /\ c.side = "SELL" => q <= b.sellable
               /\ c.side = "BUY" => q * quote.price + Fees("BUY", q * quote.price) <= b.cash
  <1> DEFINE c == b.orders[o]
             left == c.requested - c.filled
             slice == quote.volume \div Participation
             taken == Smaller(left, Capacity(b))
             candidate == IF c.side = "SELL" THEN Smaller(taken, b.sellable) ELSE taken
             r == RoundFill(b, o, candidate)
             q == Quantity(b, o)
  <1>1. /\ b \in Book /\ c \in OrderRecord /\ c.filled <= c.requested
        /\ b.total \in Nat /\ b.sellable \in Nat /\ b.consumed \in Nat
    BY FillFields DEF BookInv, OrderInv, Book
  <1>2. left \in Nat
    BY <1>1 DEF OrderRecord
  <1>3. slice \in Nat
    <2>1. quote.volume \in Nat /\ Participation \in Nat \ {0}
      BY DEF QuoteInv, PaperAssumption
    <2> QED
      BY <2>1
  <1>4. Capacity(b) = Larger(0, slice - b.consumed)
    BY DEF Capacity
  <1> HIDE DEF left, slice, c
  <1>5. Capacity(b) \in Nat /\ (Capacity(b) > 0 => Capacity(b) = slice - b.consumed)
    BY <1>1, <1>3, <1>4 DEF Larger
  <1>6. taken \in Nat /\ taken <= left /\ taken <= Capacity(b)
    BY <1>2, <1>5 DEF Smaller
  <1> HIDE DEF taken
  <1>7. /\ candidate \in Nat /\ candidate <= taken
        /\ c.side = "SELL" => candidate <= b.sellable
    BY <1>1, <1>6 DEF Smaller
  <1> HIDE DEF candidate
  <1>8. r \in Nat /\ r <= candidate
    <2>1. RoundDown(candidate) \in Nat /\ RoundDown(candidate) <= candidate
      BY <1>7, RoundedDown
    <2> QED
      BY <1>1, <1>7, <2>1 DEF RoundFill
  <1>9. q = IF c.side = "BUY" THEN Affordable(b, r) ELSE r
    BY DEF Quantity, candidate, taken, left, c
  <1> HIDE DEF r, q
  <1>10. /\ Affordable(b, r) \in Nat /\ Affordable(b, r) <= r
         /\ Affordable(b, r) > 0 =>
              Affordable(b, r) * quote.price + Fees("BUY", Affordable(b, r) * quote.price) <= b.cash
    BY <1>1, <1>8, AffordableIsPaid
  <1>11. q \in Nat /\ q <= r /\ q > 0
    BY <1>8, <1>9, <1>10 DEF q
  <1>12. q <= left /\ (c.side = "SELL" => q <= b.sellable) /\ q <= Capacity(b)
    BY <1>1, <1>2, <1>5, <1>6, <1>7, <1>8, <1>11
  <1>13. b.consumed + q <= slice
    BY <1>1, <1>3, <1>5, <1>11, <1>12
  <1>14. c.side = "BUY" => q * quote.price + Fees("BUY", q * quote.price) <= b.cash
    BY <1>9, <1>10, <1>11
  <1> QED
    BY <1>11, <1>12, <1>13, <1>14 DEF q, c, left, slice

\* Why a match fills something: the order is open, the price is one, and there is a quantity.
LEMMA MatchFills ==
    ASSUME QuoteInv, NEW b, BookInv(b), NEW o \in Order, MatchReason(b, o) = "none"
    PROVE  /\ b.orders[o].status \notin CLOSED_STATUSES /\ quote.price # 0
           /\ Quantity(b, o) > 0
  <1>1. b.orders[o].status \in CLOSED_STATUSES => b.orders[o].reason # "none"
    BY DEF BookInv, OrderInv
  <1> QED
    BY <1>1 DEF MatchReason

LEMMA ReasonIsOne ==
    ASSUME NEW b \in Book, NEW o \in Order
    PROVE  MatchReason(b, o) \in Reasons
  <1>1. b.orders[o].reason \in Reasons
    BY FillFields DEF OrderRecord
  <1>2. \A side, n : SubmissionReason(b, side, n) \in Reasons
    BY DEF SubmissionReason, Reasons
  <1> QED
    BY <1>1, <1>2 DEF MatchReason, Reasons

-----------------------------------------------------------------------------
(* What an operation does to the books.                                    *)

\* Recording an order changes that record and nothing else.
LEMMA RecordFields ==
    ASSUME NEW b \in Book, NEW o \in Order, NEW status \in Statuses, NEW n \in Nat
    PROVE  LET d == RecordOrder(b, o, status, n)
           IN  /\ d \in Book /\ d.cash = b.cash /\ d.total = b.total /\ d.sellable = b.sellable
               /\ d.fills = b.fills /\ d.consumed = b.consumed /\ d.lost = b.lost /\ d.seq = b.seq + 1
               /\ \A x \in Order \ {o} : d.orders[x] = b.orders[x]
               /\ d.orders[o].status = status /\ d.orders[o].filled = n
               /\ d.orders[o].reason = status /\ d.orders[o].side = b.orders[o].side
               /\ d.orders[o].requested = b.orders[o].requested
  <1> DEFINE d == RecordOrder(b, o, status, n)
             c == [b.orders[o] EXCEPT !.status = status, !.filled = n, !.reason = status]
  <1>1. b.orders \in [Order -> OrderRecord] /\ b.orders[o] \in OrderRecord /\ b.seq \in Nat
    BY DEF Book
  <1>2. status \in Reasons
    BY DEF Statuses, Reasons
  <1>3. /\ c \in OrderRecord /\ c.status = status /\ c.filled = n /\ c.reason = status
        /\ c.side = b.orders[o].side /\ c.requested = b.orders[o].requested
    BY <1>1, <1>2 DEF OrderRecord
  <1>4. d = [b EXCEPT !.orders = [b.orders EXCEPT ![o] = c], !.seq = b.seq + 1]
    BY <1>1 DEF RecordOrder, Book
  <1> HIDE DEF c
  <1> DEFINE m == [b.orders EXCEPT ![o] = c]
  <1>5. m \in [Order -> OrderRecord] /\ m[o] = c /\ \A x \in Order \ {o} : m[x] = b.orders[x]
    BY <1>1, <1>3
  <1> HIDE DEF m
  <1>6. d = [b EXCEPT !.orders = m, !.seq = b.seq + 1]
    BY <1>4 DEF m
  <1> HIDE DEF d
  <1>7. /\ d.cash = b.cash /\ d.total = b.total /\ d.sellable = b.sellable
        /\ d.fills = b.fills /\ d.consumed = b.consumed /\ d.lost = b.lost /\ d.seq = b.seq + 1 /\ d.orders = m
    BY <1>6 DEF Book
  <1>8. d \in Book
    <2>1. b.seq + 1 \in Nat
      BY <1>1
    <2> DEFINE k == b.seq + 1
    <2>2. d = [b EXCEPT !.orders = m, !.seq = k] /\ k \in Nat
      BY <1>6, <2>1
    <2> HIDE DEF k
    <2> QED
      BY <1>5, <2>2 DEF Book
  <1> QED
    BY <1>3, <1>5, <1>7, <1>8 DEF d

\* An order that ends or is refused, as long as its record says so.
LEMMA RecordKeeps ==
    ASSUME NEW b, BookInv(b), NEW o \in Order, NEW status \in Statuses \ {"none"},
           status # "FILLED", b.orders[o].status \notin CLOSED_STATUSES, b.orders[o].requested > 0
    PROVE  BookInv(RecordOrder(b, o, status, b.orders[o].filled))
  <1> DEFINE c == b.orders[o]
             n == c.filled
             d == RecordOrder(b, o, status, n)
  <1>1. b \in Book /\ c \in OrderRecord /\ OrderInv(c)
    BY FillFields DEF BookInv
  <1>2. n \in Nat
    BY <1>1 DEF OrderRecord
  <1> HIDE DEF n
  <1>3. /\ d \in Book /\ d.cash = b.cash /\ d.total = b.total /\ d.sellable = b.sellable
        /\ d.fills = b.fills /\ d.consumed = b.consumed /\ d.lost = b.lost
        /\ \A x \in Order \ {o} : d.orders[x] = b.orders[x]
        /\ d.orders[o].status = status /\ d.orders[o].filled = n
        /\ d.orders[o].reason = status /\ d.orders[o].side = c.side
        /\ d.orders[o].requested = c.requested
    BY <1>1, <1>2, RecordFields
  <1> HIDE DEF d
  <1>4. \A x \in Order : d.orders[x].side = b.orders[x].side /\ d.orders[x].filled = b.orders[x].filled
    BY <1>3 DEF n
  <1>5. \A i \in 1..Len(b.fills) : b.fills[i].order \in Order
    BY <1>1, FillFields
  <1>6. /\ \A side : Traded(d, side) = Traded(b, side)
        /\ \A x : FilledOf(d, x) = FilledOf(b, x)
    BY <1>1, <1>3, <1>4, <1>5, TradedStays
  <1>7. SumsInv(d)
    BY <1>3, <1>4, <1>6 DEF BookInv, SumsInv
  <1>8. OrderInv(d.orders[o])
    <2>1. ~(c.requested > 0 /\ c.filled = c.requested)
      BY <1>1 DEF OrderInv, CLOSED_STATUSES
    <2> QED
      BY <1>1, <1>3, <2>1 DEF OrderInv, n
  <1>9. \A x \in Order : OrderInv(d.orders[x])
    BY <1>3, <1>8 DEF BookInv
  <1>10. \A i \in 1..Len(d.fills) : d.orders[d.fills[i].order].status # "none"
    BY <1>3, <1>5 DEF BookInv
  <1>11. d.sellable <= d.total /\ \E v \in Volumes : d.consumed <= v \div Participation
    BY <1>3 DEF BookInv
  <1>12. BookInv(d)
    BY <1>3, <1>7, <1>9, <1>10, <1>11 DEF BookInv
  <1> QED
    BY <1>12 DEF d, n

\* A new order.
LEMMA AcceptedKeeps ==
    ASSUME PaperAssumption, NEW b, BookInv(b), NEW o \in Order, b.orders[o].status = "none",
           NEW side \in Side, NEW k \in 1..MaxShares
    PROVE  LET d == Accepted(b, o, side, k)
           IN  BookInv(d) /\ d.orders[o].status \in {"ACKNOWLEDGED", "REJECTED"}
  <1> DEFINE new == [status |-> "none", side |-> side, requested |-> k, filled |-> 0, reason |-> "none"]
             e == [b EXCEPT !.orders[o] = new]
             status == IF SubmissionReason(b, side, k) = "none" THEN "ACKNOWLEDGED" ELSE "REJECTED"
             d == Accepted(b, o, side, k)
  <1>1. b \in Book /\ b.orders \in [Order -> OrderRecord]
    BY DEF BookInv, Book
  <1>2. k \in Nat /\ k <= MaxShares /\ k > 0
    BY DEF PaperAssumption
  <1>3. new.side = side /\ new.requested = k
    OBVIOUS
  <1>4. new \in OrderRecord
    BY <1>2, <1>3 DEF OrderRecord, Statuses, Reasons
  <1>5. /\ e \in Book /\ e.cash = b.cash /\ e.total = b.total /\ e.sellable = b.sellable
        /\ e.fills = b.fills /\ e.consumed = b.consumed /\ e.lost = b.lost /\ e.seq = b.seq
        /\ e.orders[o] = new /\ \A x \in Order \ {o} : e.orders[x] = b.orders[x]
    <2> HIDE DEF new
    <2> DEFINE m == [b.orders EXCEPT ![o] = new]
    <2>1. m \in [Order -> OrderRecord] /\ m[o] = new /\ \A x \in Order \ {o} : m[x] = b.orders[x]
      BY <1>1, <1>4
    <2>2. e = [b EXCEPT !.orders = m]
      BY <1>1 DEF Book
    <2> HIDE DEF m, e
    <2>3. /\ e \in Book /\ e.cash = b.cash /\ e.total = b.total /\ e.sellable = b.sellable
          /\ e.fills = b.fills /\ e.consumed = b.consumed /\ e.lost = b.lost /\ e.seq = b.seq /\ e.orders = m
      BY <1>1, <2>1, <2>2 DEF Book
    <2> QED
      BY <2>1, <2>3
  <1>6. d = RecordOrder(e, o, status, 0)
    BY DEF Accepted
  <1> HIDE DEF e, new
  <1>7. status \in {"ACKNOWLEDGED", "REJECTED"} /\ status \in Statuses /\ 0 \in Nat
    BY DEF Statuses, CLOSED_STATUSES
  <1> HIDE DEF status
  <1>8. /\ d \in Book /\ d.cash = b.cash /\ d.total = b.total /\ d.sellable = b.sellable
        /\ d.fills = b.fills /\ d.consumed = b.consumed /\ d.lost = b.lost
        /\ \A x \in Order \ {o} : d.orders[x] = b.orders[x]
        /\ d.orders[o].status = status /\ d.orders[o].filled = 0
        /\ d.orders[o].reason = status /\ d.orders[o].side = side
        /\ d.orders[o].requested = k
    <2>1. /\ d \in Book /\ d.cash = e.cash /\ d.total = e.total /\ d.sellable = e.sellable
          /\ d.fills = e.fills /\ d.consumed = e.consumed /\ d.lost = e.lost
          /\ \A x \in Order \ {o} : d.orders[x] = e.orders[x]
          /\ d.orders[o].status = status /\ d.orders[o].filled = 0
          /\ d.orders[o].reason = status /\ d.orders[o].side = e.orders[o].side
          /\ d.orders[o].requested = e.orders[o].requested
      BY <1>5, <1>6, <1>7, RecordFields
    <2> QED
      BY <1>3, <1>5, <2>1
  <1> HIDE DEF d
  <1>9. b.orders[o] = NoOrder
    BY DEF BookInv, OrderInv
  <1>10. \A i \in 1..Len(b.fills) : b.fills[i].order \in Order \ {o}
    BY <1>1, FillFields DEF BookInv
  <1>11. /\ \A s : Traded(d, s) = Traded(b, s)
         /\ \A x : FilledOf(d, x) = FilledOf(b, x)
    BY <1>1, <1>8, <1>10, TradedStays
  <1>12. \A x \in Order : d.orders[x].filled = b.orders[x].filled
    BY <1>8, <1>9 DEF NoOrder
  <1>13. SumsInv(d)
    BY <1>8, <1>11, <1>12 DEF BookInv, SumsInv
  <1>14. OrderInv(d.orders[o])
    BY <1>2, <1>7, <1>8 DEF OrderInv
  <1>15. \A x \in Order : OrderInv(d.orders[x])
    BY <1>8, <1>14 DEF BookInv
  <1>16. \A i \in 1..Len(d.fills) : d.orders[d.fills[i].order].status # "none"
    BY <1>8, <1>10 DEF BookInv
  <1>17. d.sellable <= d.total /\ \E v \in Volumes : d.consumed <= v \div Participation
    BY <1>8 DEF BookInv
  <1>18. BookInv(d)
    BY <1>8, <1>13, <1>15, <1>16, <1>17 DEF BookInv
  <1> QED
    BY <1>7, <1>8, <1>18 DEF d

\* What a fill does to cash and shares: both stay nonnegative.
LEMMA EconomicsFields ==
    ASSUME PaperAssumption, QuoteInv, NEW b, BookInv(b), NEW o \in Order,
           Quantity(b, o) > 0, ~Overdraws(b, o, Quantity(b, o))
    PROVE  LET q == Quantity(b, o)
               e == ApplyEconomics(b, o, q)
               c == b.orders[o]
           IN  /\ e \in Book
               /\ e.total = (IF c.side = "BUY" THEN b.total + q ELSE b.total - q)
               /\ e.sellable = (IF c.side = "BUY" THEN b.sellable ELSE b.sellable - q)
               /\ e.sellable <= e.total
               /\ e.orders = b.orders /\ e.fills = b.fills /\ e.consumed = b.consumed /\ e.lost = b.lost /\ e.seq = b.seq
  <1> DEFINE c == b.orders[o]
             q == Quantity(b, o)
             g == q * quote.price
             fees == Fees(c.side, g)
             e == ApplyEconomics(b, o, q)
  <1>1. /\ b \in Book /\ c \in OrderRecord /\ c.requested <= MaxShares
        /\ b.cash \in Nat /\ b.total \in Nat /\ b.sellable \in Nat /\ b.sellable <= b.total
    BY FillFields DEF BookInv, OrderInv, Book
  <1>2. /\ q \in Nat \ {0} /\ q <= c.requested - c.filled
        /\ c.side = "SELL" => q <= b.sellable
        /\ c.side = "BUY" => g + Fees("BUY", g) <= b.cash
    BY QuantityFits
  <1>3. quote.price \in Nat
    BY DEF QuoteInv, PaperAssumption
  <1> HIDE DEF q
  <1>4. g \in Nat
    BY <1>2, <1>3
  <1>5. c.side = "SELL" => ~(b.cash + g < fees)
    BY DEF Overdraws, q
  <1> HIDE DEF g
  <1>6. fees \in Nat
    BY <1>4, FeesAreNat
  <1>7. c.side \in {"BUY", "SELL"}
    BY <1>1 DEF OrderRecord, Side
  <1>8. CASE c.side = "BUY"
    <2> DEFINE cash == b.cash - g - fees
               total == b.total + q
    <2>1. e = [b EXCEPT !.cash = cash, !.total = total]
      BY <1>8 DEF ApplyEconomics, g
    <2>2. cash \in Nat
      <3>1. fees = Fees("BUY", g)
        BY <1>8
      <3> HIDE DEF fees, c
      <3> QED
        BY <1>1, <1>2, <1>4, <1>6, <1>8, <3>1
    <2>3. total \in Nat /\ b.sellable <= total
      BY <1>1, <1>2
    <2> HIDE DEF cash, e
    <2>4. e.total = total /\ e.sellable = b.sellable /\ e.orders = b.orders /\ e.fills = b.fills
          /\ e.consumed = b.consumed /\ e.seq = b.seq /\ e.lost = b.lost
      BY <1>1, <2>1 DEF Book
    <2>5. e \in Book
      <3> HIDE DEF total
      <3> QED
        BY <1>1, <2>1, <2>2, <2>3 DEF Book
    <2>6. total = b.total + q
      OBVIOUS
    <2> HIDE DEF total
    <2> QED
      BY <1>8, <2>3, <2>4, <2>5, <2>6 DEF e, q
  <1>9. CASE c.side = "SELL"
    <2> DEFINE cash == b.cash + g - fees
               total == b.total - q
               sellable == b.sellable - q
    <2>1. e = [ReducePosition(b, q) EXCEPT !.cash = @ + g - fees]
      BY <1>9 DEF ApplyEconomics, g
    <2>2. ReducePosition(b, q) = [b EXCEPT !.total = total, !.sellable = sellable]
      BY DEF ReducePosition
    <2>3. cash \in Nat
      <3> HIDE DEF fees, c
      <3> QED
        BY <1>1, <1>4, <1>5, <1>6, <1>9
    <2>4. total \in Nat /\ sellable \in Nat /\ sellable <= total
      <3> HIDE DEF c
      <3> QED
        BY <1>1, <1>2, <1>9
    <2>5. total = b.total - q /\ sellable = b.sellable - q
      OBVIOUS
    <2> DEFINE r == ReducePosition(b, q)
    <2>6. r.cash = b.cash /\ r.total = total /\ r.sellable = sellable /\ r.orders = b.orders
          /\ r.fills = b.fills /\ r.consumed = b.consumed /\ r.seq = b.seq /\ r.lost = b.lost
      BY <1>1, <2>2 DEF Book
    <2>7. r \in Book
      <3> HIDE DEF total, sellable, r
      <3> QED
        BY <1>1, <2>2, <2>4 DEF Book, r
    <2>8. e = [r EXCEPT !.cash = cash]
      BY <2>1, <2>6
    <2> HIDE DEF cash, e, r, total, sellable
    <2>9. e.total = total /\ e.sellable = sellable /\ e.orders = b.orders /\ e.fills = b.fills
          /\ e.consumed = b.consumed /\ e.seq = b.seq /\ e.lost = b.lost
      BY <2>6, <2>7, <2>8 DEF Book
    <2>10. e \in Book
      BY <2>3, <2>7, <2>8 DEF Book
    <2> QED
      BY <1>9, <2>4, <2>5, <2>9, <2>10 DEF e, q
  <1> QED
    BY <1>7, <1>8, <1>9

\* What a fill does to the rest of the books.
LEMMA FilledFields ==
    ASSUME PaperAssumption, QuoteInv, NEW b, BookInv(b), NEW o \in Order,
           Quantity(b, o) > 0, ~Overdraws(b, o, Quantity(b, o))
    PROVE  LET q == Quantity(b, o)
               d == Filled(b, o, q)
               c == b.orders[o]
               n == c.filled + q
           IN  /\ d \in Book
               /\ d.total = (IF c.side = "BUY" THEN b.total + q ELSE b.total - q)
               /\ d.sellable = (IF c.side = "BUY" THEN b.sellable ELSE b.sellable - q)
               /\ d.sellable <= d.total
               /\ d.fills = Append(b.fills, [order |-> o, shares |-> q])
               /\ d.consumed = b.consumed + q /\ d.lost = b.lost
               /\ \A x \in Order \ {o} : d.orders[x] = b.orders[x]
               /\ d.orders[o].status = (IF n = c.requested THEN "FILLED" ELSE "PARTIALLY_FILLED")
               /\ d.orders[o].reason = d.orders[o].status /\ d.orders[o].filled = n
               /\ d.orders[o].side = c.side /\ d.orders[o].requested = c.requested
  <1> DEFINE c == b.orders[o]
             q == Quantity(b, o)
             n == c.filled + q
             e == ApplyEconomics(b, o, q)
             f == [order |-> o, shares |-> q]
             fills == Append(b.fills, f)
             consumed == b.consumed + q
             seq == b.seq + 1
             r == [e EXCEPT !.fills = fills, !.consumed = consumed, !.seq = seq]
             status == IF n = c.requested THEN "FILLED" ELSE "PARTIALLY_FILLED"
             d == Filled(b, o, q)
  <1>1. /\ b \in Book /\ c \in OrderRecord /\ b.consumed \in Nat /\ b.seq \in Nat
        /\ b.fills \in Seq(FillRecord)
    BY FillFields DEF BookInv, Book
  <1>2. q \in Nat \ {0}
    BY QuantityFits
  <1>3. /\ e \in Book
        /\ e.total = (IF c.side = "BUY" THEN b.total + q ELSE b.total - q)
        /\ e.sellable = (IF c.side = "BUY" THEN b.sellable ELSE b.sellable - q)
        /\ e.sellable <= e.total
        /\ e.orders = b.orders /\ e.fills = b.fills /\ e.consumed = b.consumed /\ e.lost = b.lost /\ e.seq = b.seq
    BY EconomicsFields
  <1>4. d = RecordOrder(r, o, status, n)
    <2>1. r = [e EXCEPT !.fills = Append(@, f), !.consumed = @ + q, !.seq = @ + 1]
      BY <1>3
    <2> QED
      BY <2>1 DEF Filled
  <1> HIDE DEF q, e
  <1>5. f \in FillRecord
    BY <1>2 DEF FillRecord
  <1> HIDE DEF f
  <1>6. fills \in Seq(FillRecord) /\ consumed \in Nat /\ seq \in Nat
    BY <1>1, <1>2, <1>5
  <1>7. n \in Nat
    <2>1. c.filled \in Nat
      BY <1>1 DEF OrderRecord
    <2> QED
      BY <1>2, <2>1
  <1>8. status \in Statuses
    BY DEF Statuses, CLOSED_STATUSES
  <1> HIDE DEF n, status
  <1>9. r \in Book
    <2> HIDE DEF fills, consumed, seq
    <2> QED
      BY <1>3, <1>6 DEF Book
  <1>10. /\ r.total = e.total /\ r.sellable = e.sellable /\ r.orders = b.orders
         /\ r.fills = fills /\ r.consumed = consumed /\ r.seq = seq /\ r.lost = b.lost
    <2> HIDE DEF fills, consumed, seq
    <2> QED
      BY <1>3 DEF Book
  <1> HIDE DEF r, d
  <1>11. /\ d \in Book /\ d.total = r.total /\ d.sellable = r.sellable
         /\ d.fills = r.fills /\ d.consumed = r.consumed /\ d.lost = r.lost
         /\ \A x \in Order \ {o} : d.orders[x] = r.orders[x]
         /\ d.orders[o].status = status /\ d.orders[o].filled = n
         /\ d.orders[o].reason = status /\ d.orders[o].side = r.orders[o].side
         /\ d.orders[o].requested = r.orders[o].requested
    BY <1>4, <1>7, <1>8, <1>9, RecordFields
  <1>12. /\ d.total = e.total /\ d.sellable = e.sellable
         /\ d.fills = fills /\ d.consumed = consumed /\ d.lost = b.lost
         /\ \A x \in Order \ {o} : d.orders[x] = b.orders[x]
         /\ d.orders[o].side = c.side /\ d.orders[o].requested = c.requested
    BY <1>10, <1>11
  <1> QED
    BY <1>3, <1>11, <1>12 DEF d, q, n, status, f

\* A fill keeps the books.
LEMMA FilledKeeps ==
    ASSUME PaperAssumption, QuoteInv, NEW b, BookInv(b), NEW o \in Order,
           b.orders[o].status # "none", Quantity(b, o) > 0, ~Overdraws(b, o, Quantity(b, o))
    PROVE  BookInv(Filled(b, o, Quantity(b, o)))
  <1> DEFINE c == b.orders[o]
             q == Quantity(b, o)
             n == c.filled + q
             f == [order |-> o, shares |-> q]
             d == Filled(b, o, q)
  <1>1. /\ b \in Book /\ c \in OrderRecord /\ OrderInv(c) /\ SumsInv(b)
        /\ b.total \in Nat /\ b.sellable \in Nat /\ b.consumed \in Nat
    BY FillFields DEF BookInv, Book
  <1>2. /\ q \in Nat \ {0} /\ q <= c.requested - c.filled
        /\ b.consumed + q <= quote.volume \div Participation
    BY QuantityFits
  <1>3. /\ d \in Book
        /\ d.total = (IF c.side = "BUY" THEN b.total + q ELSE b.total - q)
        /\ d.sellable = (IF c.side = "BUY" THEN b.sellable ELSE b.sellable - q)
        /\ d.sellable <= d.total
        /\ d.fills = Append(b.fills, f)
        /\ d.consumed = b.consumed + q /\ d.lost = b.lost
        /\ \A x \in Order \ {o} : d.orders[x] = b.orders[x]
        /\ d.orders[o].status = (IF n = c.requested THEN "FILLED" ELSE "PARTIALLY_FILLED")
        /\ d.orders[o].reason = d.orders[o].status /\ d.orders[o].filled = n
        /\ d.orders[o].side = c.side /\ d.orders[o].requested = c.requested
    BY FilledFields
  <1> HIDE DEF q, d
  <1>4. c.side \in {"BUY", "SELL"} /\ c.requested \in Nat /\ c.filled \in Nat
    BY <1>1 DEF OrderRecord, Side
  <1>5. f \in FillRecord /\ f.order = o /\ f.shares = q
    BY <1>2 DEF FillRecord
  <1> HIDE DEF f
  <1>6. \A x \in Order : d.orders[x].side = b.orders[x].side
    BY <1>3
  <1>7. \A x \in Order : /\ FilledOf(b, x) \in Int
                        /\ FilledOf(d, x) = FilledOf(b, x) + (IF f.order = x THEN f.shares ELSE 0)
    BY <1>1, <1>3, <1>5, FilledGrows
  <1>8. /\ Traded(b, "BUY") \in Int /\ Traded(b, "SELL") \in Int
        /\ Traded(d, "BUY") = Traded(b, "BUY") + (IF c.side = "BUY" THEN q ELSE 0)
        /\ Traded(d, "SELL") = Traded(b, "SELL") + (IF c.side = "SELL" THEN q ELSE 0)
    BY <1>1, <1>3, <1>5, <1>6, TradedGrows
  <1>9. \A x \in Order : d.orders[x].filled = FilledOf(d, x)
    <2>1. \A x \in Order : b.orders[x].filled = FilledOf(b, x)
      BY <1>1 DEF SumsInv
    <2>2. \A x \in Order \ {o} : d.orders[x].filled = FilledOf(d, x)
      BY <1>3, <1>5, <1>7, <2>1
    <2>3. FilledOf(d, o) = c.filled + q
      BY <1>5, <1>7, <2>1
    <2> QED
      BY <1>3, <2>2, <2>3
  <1>10. SumsInv(d)
    <2>1. /\ b.total = InitialShares + Traded(b, "BUY") - Traded(b, "SELL") - b.lost
          /\ b.sellable = InitialSellable - Traded(b, "SELL") - b.lost
          /\ b.consumed = Traded(b, "BUY") + Traded(b, "SELL")
      BY <1>1 DEF SumsInv
    <2>2. InitialShares \in Nat /\ InitialSellable \in Nat /\ b.lost \in Nat
      BY <1>1 DEF PaperAssumption, Book
    <2> HIDE DEF c
    <2>3. CASE c.side = "BUY"
      <3>1. /\ d.total = b.total + q /\ d.sellable = b.sellable /\ d.consumed = b.consumed + q
            /\ d.lost = b.lost
            /\ Traded(d, "BUY") = Traded(b, "BUY") + q /\ Traded(d, "SELL") = Traded(b, "SELL")
        BY <1>3, <1>8, <2>3
      <3>2. /\ d.total = InitialShares + Traded(d, "BUY") - Traded(d, "SELL") - d.lost
            /\ d.sellable = InitialSellable - Traded(d, "SELL") - d.lost
            /\ d.consumed = Traded(d, "BUY") + Traded(d, "SELL")
        BY <1>2, <1>8, <2>1, <2>2, <3>1
      <3> QED
        BY <1>9, <3>2 DEF SumsInv
    <2>4. CASE c.side = "SELL"
      <3>1. /\ d.total = b.total - q /\ d.sellable = b.sellable - q /\ d.consumed = b.consumed + q
            /\ d.lost = b.lost
            /\ Traded(d, "BUY") = Traded(b, "BUY") /\ Traded(d, "SELL") = Traded(b, "SELL") + q
        BY <1>3, <1>8, <2>4
      <3>2. /\ d.total = InitialShares + Traded(d, "BUY") - Traded(d, "SELL") - d.lost
            /\ d.sellable = InitialSellable - Traded(d, "SELL") - d.lost
            /\ d.consumed = Traded(d, "BUY") + Traded(d, "SELL")
        BY <1>2, <1>8, <2>1, <2>2, <3>1
      <3> QED
        BY <1>9, <3>2 DEF SumsInv
    <2> QED
      BY <1>4, <2>3, <2>4
  <1>11. OrderInv(d.orders[o])
    <2>1. c.requested <= MaxShares /\ c.requested > 0
      BY <1>1 DEF OrderInv
    <2>2. n <= c.requested
      BY <1>2, <1>4
    <2> HIDE DEF n
    <2> QED
      BY <1>3, <2>1, <2>2 DEF OrderInv
  <1>12. \A x \in Order : OrderInv(d.orders[x])
    BY <1>3, <1>11 DEF BookInv
  <1>13. \A i \in 1..Len(d.fills) : d.orders[d.fills[i].order].status # "none"
    <2>1. \A x \in Order : b.orders[x].status # "none" => d.orders[x].status # "none"
      BY <1>3
    <2>2. b.fills \in Seq(FillRecord)
      BY <1>1 DEF Book
    <2>3. \A i \in 1..Len(b.fills) :
             b.fills[i].order \in Order /\ b.orders[b.fills[i].order].status # "none"
      BY <1>1, FillFields DEF BookInv
    <2>4. d.orders[f.order].status # "none"
      BY <1>5, <2>1
    <2> QED
      BY <1>3, <1>5, <2>1, <2>2, <2>3, <2>4, AppendProperties
  <1>14. \E v \in Volumes : d.consumed <= v \div Participation
    <2>1. quote.volume \in Volumes
      BY DEF QuoteInv
    <2> QED
      BY <1>2, <1>3, <2>1
  <1>15. BookInv(d)
    BY <1>3, <1>10, <1>12, <1>13, <1>14 DEF BookInv
  <1> QED
    BY <1>3, <1>15 DEF d, q

\* A SELL that ends in the error keeps the books, but for the shares it loses.
LEMMA OverdrawnKeeps ==
    ASSUME PaperAssumption, QuoteInv, NEW b, BookInv(b), NEW o \in Order,
           Quantity(b, o) > 0, Overdraws(b, o, Quantity(b, o))
    PROVE  BookInv(Overdrawn(b, Quantity(b, o)))
  <1> DEFINE q == Quantity(b, o)
             total == b.total - q
             sellable == b.sellable - q
             lost == b.lost + q
             r == ReducePosition(b, q)
             d == Overdrawn(b, q)
  <1>1. /\ b \in Book /\ SumsInv(b) /\ b.sellable <= b.total
        /\ b.total \in Nat /\ b.sellable \in Nat /\ b.lost \in Nat
    BY DEF BookInv, Book
  <1>2. b.orders[o].side = "SELL"
    BY DEF Overdraws
  <1>3. q \in Nat \ {0} /\ q <= b.sellable
    BY <1>2, QuantityFits
  <1> HIDE DEF q
  <1>4. total \in Nat /\ sellable \in Nat /\ lost \in Nat /\ sellable <= total
    BY <1>1, <1>3
  <1>5. r = [b EXCEPT !.total = total, !.sellable = sellable]
    BY DEF ReducePosition
  <1>6. r.lost = b.lost
    BY <1>1, <1>5 DEF Book
  <1>7. d = [r EXCEPT !.lost = lost]
    BY <1>6 DEF Overdrawn
  <1>8. total = b.total - q /\ sellable = b.sellable - q /\ lost = b.lost + q
    OBVIOUS
  <1> HIDE DEF total, sellable, lost, r, d
  <1>9. /\ r \in Book /\ r.total = total /\ r.sellable = sellable /\ r.fills = b.fills
        /\ r.consumed = b.consumed /\ r.orders = b.orders
    BY <1>1, <1>4, <1>5 DEF Book
  <1>10. /\ d \in Book /\ d.total = total /\ d.sellable = sellable /\ d.fills = b.fills
         /\ d.consumed = b.consumed /\ d.orders = b.orders /\ d.lost = lost
    BY <1>4, <1>7, <1>9 DEF Book
  <1>11. /\ \A side : Traded(d, side) = Traded(b, side)
         /\ \A x : FilledOf(d, x) = FilledOf(b, x)
    BY <1>1, <1>10, TradedStays
  <1>12. SumsInv(d)
    <2>1. /\ b.total = InitialShares + Traded(b, "BUY") - Traded(b, "SELL") - b.lost
          /\ b.sellable = InitialSellable - Traded(b, "SELL") - b.lost
          /\ b.consumed = Traded(b, "BUY") + Traded(b, "SELL")
          /\ \A x \in Order : b.orders[x].filled = FilledOf(b, x)
      BY <1>1 DEF SumsInv
    <2>2. InitialShares \in Nat /\ InitialSellable \in Nat
      BY DEF PaperAssumption
    <2>3. Traded(b, "BUY") \in Int /\ Traded(b, "SELL") \in Int
      BY <1>1, TradedIsInt
    <2>4. /\ total = InitialShares + Traded(b, "BUY") - Traded(b, "SELL") - lost
          /\ sellable = InitialSellable - Traded(b, "SELL") - lost
      BY <1>1, <1>3, <1>8, <2>1, <2>2, <2>3
    <2> QED
      BY <1>10, <1>11, <2>1, <2>4 DEF SumsInv
  <1>13. BookInv(d)
    BY <1>4, <1>10, <1>12 DEF BookInv
  <1> QED
    BY <1>13 DEF d, q

\* A match that fills nothing.
LEMMA ReasonKeeps ==
    ASSUME NEW b, BookInv(b), NEW o \in Order, b.orders[o].status # "none",
           NEW r \in Reasons \ {"none"}
    PROVE  BookInv([b EXCEPT !.orders[o].reason = r])
  <1> DEFINE c == b.orders[o]
             new == [c EXCEPT !.reason = r]
             m == [b.orders EXCEPT ![o] = new]
             d == [b EXCEPT !.orders = m]
  <1>1. b \in Book /\ b.orders \in [Order -> OrderRecord] /\ c \in OrderRecord /\ OrderInv(c)
    BY FillFields DEF BookInv, Book
  <1>2. [b EXCEPT !.orders[o].reason = r] = d
    BY <1>1 DEF Book
  <1>3. /\ new \in OrderRecord /\ new.status = c.status /\ new.side = c.side
        /\ new.requested = c.requested /\ new.filled = c.filled /\ new.reason = r
    BY <1>1 DEF OrderRecord
  <1> HIDE DEF new
  <1>4. m \in [Order -> OrderRecord] /\ m[o] = new /\ \A x \in Order \ {o} : m[x] = b.orders[x]
    BY <1>1, <1>3
  <1> HIDE DEF m
  <1>5. /\ d \in Book /\ d.total = b.total /\ d.sellable = b.sellable /\ d.fills = b.fills
        /\ d.consumed = b.consumed /\ d.orders = m /\ d.lost = b.lost
    BY <1>1, <1>4 DEF Book
  <1> HIDE DEF d
  <1>6. \A x \in Order : /\ d.orders[x].side = b.orders[x].side
                        /\ d.orders[x].filled = b.orders[x].filled
                        /\ d.orders[x].status = b.orders[x].status
    BY <1>3, <1>4, <1>5
  <1>7. \A i \in 1..Len(b.fills) : b.fills[i].order \in Order
    BY <1>1, FillFields
  <1>8. /\ \A side : Traded(d, side) = Traded(b, side)
        /\ \A x : FilledOf(d, x) = FilledOf(b, x)
    BY <1>1, <1>5, <1>6, <1>7, TradedStays
  <1>9. SumsInv(d)
    BY <1>5, <1>6, <1>8 DEF BookInv, SumsInv
  <1>10. OrderInv(d.orders[o])
    BY <1>1, <1>3, <1>4, <1>5 DEF OrderInv
  <1>11. \A x \in Order : OrderInv(d.orders[x])
    BY <1>4, <1>5, <1>10 DEF BookInv
  <1>12. \A i \in 1..Len(d.fills) : d.orders[d.fills[i].order].status # "none"
    BY <1>5, <1>6, <1>7 DEF BookInv
  <1>13. d.sellable <= d.total /\ \E v \in Volumes : d.consumed <= v \div Participation
    BY <1>5 DEF BookInv
  <1>14. BookInv(d)
    BY <1>5, <1>9, <1>11, <1>12, <1>13 DEF BookInv
  <1> QED
    BY <1>2, <1>14

\* Whatever a match comes to, the books are kept.
LEMMA MatchedKeeps ==
    ASSUME PaperAssumption, QuoteInv, NEW b, BookInv(b), NEW o \in Order,
           b.orders[o].status # "none"
    PROVE  BookInv(Matched(b, o))
  <1>1. CASE MatchReason(b, o) # "none"
    <2>1. MatchReason(b, o) \in Reasons \ {"none"}
      BY <1>1, ReasonIsOne DEF BookInv
    <2>2. Matched(b, o) = [b EXCEPT !.orders[o].reason = MatchReason(b, o)]
      BY <1>1 DEF Matched
    <2> QED
      BY <2>1, <2>2, ReasonKeeps
  <1>2. CASE MatchReason(b, o) = "none"
    <2>1. Quantity(b, o) > 0
      BY <1>2, MatchFills
    <2>2. CASE Overdraws(b, o, Quantity(b, o))
      BY <1>2, <2>1, <2>2, OverdrawnKeeps DEF Matched
    <2>3. CASE ~Overdraws(b, o, Quantity(b, o))
      BY <1>2, <2>1, <2>3, FilledKeeps DEF Matched
    <2> QED
      BY <2>2, <2>3
  <1> QED
    BY <1>1, <1>2

-----------------------------------------------------------------------------
(* What is kept for the sink.                                              *)

\* Two members of a set of numbers have different numbers of smaller ones.
LEMMA RanksDiffer ==
    ASSUME NEW S, IsFiniteSet(S), S \subseteq Nat, NEW x \in S, NEW y \in S, x < y
    PROVE  Cardinality({m \in S : m < x}) < Cardinality({m \in S : m < y})
  <1> DEFINE X == {m \in S : m < x}
             Y == {m \in S : m < y}
  <1>1. IsFiniteSet(X) /\ IsFiniteSet(Y) /\ x \in Nat /\ y \in Nat
    BY FS_Subset
  <1>2. X \subseteq Y
    <2>1. \A m \in S : m < x => m < y
      <3> SUFFICES ASSUME NEW m \in S, m < x PROVE m < y
        OBVIOUS
      <3>1. m \in Nat
        OBVIOUS
      <3> QED
        BY <1>1, <3>1
    <2> QED
      BY <2>1
  <1>3. x \in Y /\ x \notin X
    BY <1>1
  <1> HIDE DEF X, Y
  <1>4. X # Y
    BY <1>3
  <1>5. Cardinality(X) < Cardinality(Y)
    BY <1>1, <1>2, <1>4, FS_Subset, FS_CardinalityType
  <1> QED
    BY <1>5 DEF X, Y

\* Every member of a set is in its ordering.
LEMMA InOrderHasAll ==
    ASSUME NEW S, IsFiniteSet(S), S \subseteq Nat, NEW x \in S
    PROVE  \E i \in 1..Cardinality(S) : InOrder(S)[i] = x
  <1> DEFINE Rank(n) == Cardinality({m \in S : m < n})
             X == {m \in S : m < x}
             k == Cardinality(X)
             i == k + 1
  <1>1. \A n \in S : IsFiniteSet({m \in S : m < n})
    BY FS_Subset
  <1>2. \A n \in S : Rank(n) \in Nat
    BY <1>1, FS_CardinalityType
  <1>3. Cardinality(S) \in Nat /\ k \in Nat /\ k < Cardinality(S)
    <2>1. X \subseteq S /\ x \notin X
      OBVIOUS
    <2>2. X # S
      BY <2>1
    <2> HIDE DEF X
    <2>3. IsFiniteSet(X)
      BY <2>1, FS_Subset
    <2>4. Cardinality(X) \in Nat /\ Cardinality(S) \in Nat
      BY <2>3, FS_CardinalityType
    <2>5. Cardinality(X) <= Cardinality(S) /\ (Cardinality(X) = Cardinality(S) => X = S)
      BY <2>1, FS_Subset
    <2> QED
      BY <2>2, <2>4, <2>5
  <1>4. \A n \in S : Rank(n) = k => n = x
    <2> SUFFICES ASSUME NEW n \in S, n # x PROVE Rank(n) # Rank(x)
      OBVIOUS
    <2>1. n \in Nat /\ x \in Nat /\ (n < x \/ x < n)
      OBVIOUS
    <2>2. CASE n < x
      <3>1. Rank(n) < Rank(x)
        BY <2>2, RanksDiffer
      <3> QED
        BY <1>2, <3>1
    <2>3. CASE x < n
      <3>1. Rank(x) < Rank(n)
        BY <2>3, RanksDiffer
      <3> QED
        BY <1>2, <3>1
    <2> QED
      BY <2>1, <2>2, <2>3
  <1>5. i \in 1..Cardinality(S) /\ i - 1 = k
    <2> HIDE DEF k
    <2> QED
      BY <1>3
  <1>6. InOrder(S)[i] = CHOOSE n \in S : Rank(n) = i - 1
    BY <1>5 DEF InOrder
  <1>7. Rank(x) = i - 1
    BY <1>5
  <1>8. (CHOOSE n \in S : Rank(n) = i - 1) = x
    <2> HIDE DEF Rank, k, i
    <2>1. \A n \in S : Rank(n) = i - 1 => n = x
      BY <1>4, <1>5
    <2> QED
      BY <1>7, <2>1
  <1> HIDE DEF i
  <1> QED
    BY <1>5, <1>6, <1>8

LEMMA InOrderIsSeq ==
    ASSUME NEW S, IsFiniteSet(S)
    PROVE  \E T : InOrder(S) \in Seq(T) /\ Len(InOrder(S)) = Cardinality(S)
  <1> DEFINE n == Cardinality(S)
             At(i) == CHOOSE x \in S : Cardinality({m \in S : m < x}) = i - 1
             s == InOrder(S)
             T == {At(i) : i \in 1..n}
  <1>1. n \in Nat
    BY FS_CardinalityType
  <1>2. s = [i \in 1..n |-> At(i)]
    BY DEF InOrder
  <1> HIDE DEF n, s, At
  <1>3. s \in [1..n -> T]
    BY <1>2
  <1> HIDE DEF T
  <1>4. s \in Seq(T) /\ Len(s) = n
    BY <1>1, <1>3
  <1> QED
    BY <1>4 DEF s, n

\* What an operation emits is delivered or kept.
LEMMA EmitKeeps ==
    ASSUME PaperInv, NEW b, BookInv(b), NEW fails \in Failures(b), Emit(b, fails)
    PROVE  /\ BookInv(book') /\ degraded' \in BOOLEAN
           /\ \E T : callbacks' \in Seq(T)
           /\ NoCallbackLost'
  <1> DEFINE new == (book.seq + 1)..b.seq
             kept == IF sink THEN fails ELSE new
             s == InOrder(kept)
  <1>1. /\ book' = b /\ delivered' = (IF sink THEN delivered \cup (new \ fails) ELSE delivered)
        /\ callbacks' = callbacks \o s
        /\ degraded' = (degraded \/ (sink /\ fails # {}))
    BY DEF Emit
  <1>2. book.seq \in Nat /\ b.seq \in Nat /\ sink \in BOOLEAN /\ degraded \in BOOLEAN
    BY DEF PaperInv, BookInv, DeliveryInv, Book
  <1>3. IsFiniteSet(new) /\ new \subseteq Nat
    <2> DEFINE first == book.seq + 1
    <2>1. first \in Int /\ b.seq \in Int
      BY <1>2
    <2>2. new \subseteq Nat
      BY <1>2
    <2> HIDE DEF first
    <2>3. IsFiniteSet(first..b.seq)
      BY <2>1, FS_Interval
    <2> QED
      BY <2>2, <2>3 DEF first
  <1>4. fails \subseteq new
    BY DEF Failures
  <1> HIDE DEF new
  <1>5. kept \subseteq new /\ (sink => kept = fails) /\ (~sink => kept = new)
    BY <1>2, <1>4
  <1>6. IsFiniteSet(kept) /\ kept \subseteq Nat
    BY <1>3, <1>5, FS_Subset
  <1> HIDE DEF kept
  <1>7. PICK T : callbacks \in Seq(T)
    BY DEF PaperInv, DeliveryInv
  <1>8. PICK U : s \in Seq(U) /\ Len(s) = Cardinality(kept)
    BY <1>6, InOrderIsSeq
  <1>9. \A n \in kept : \E i \in 1..Cardinality(kept) : s[i] = n
    BY <1>6, InOrderHasAll
  <1> HIDE DEF s
  <1> DEFINE W == T \cup U
             j == Len(callbacks)
             k == Len(s)
  <1>10. callbacks \in Seq(W) /\ s \in Seq(W)
    BY <1>7, <1>8
  <1> HIDE DEF W
  <1>11. /\ callbacks \o s \in Seq(W) /\ j \in Nat /\ k \in Nat /\ Len(callbacks \o s) = j + k
         /\ \A i \in 1..(j + k) :
               (callbacks \o s)[i] = IF i <= j THEN callbacks[i] ELSE s[i - j]
    BY <1>10
  <1> HIDE DEF j, k
  <1>12. \A i \in 1..j : i \in 1..(j + k) /\ (callbacks \o s)[i] = callbacks[i]
    BY <1>11
  <1>13. \A i \in 1..k : (j + i) \in 1..(j + k) /\ (callbacks \o s)[j + i] = s[i]
    BY <1>11
  <1>14. Len(callbacks') = j + k
    BY <1>1, <1>11
  <1>15. NoCallbackLost'
    <2> SUFFICES ASSUME NEW n \in 1..b.seq, n \notin delivered'
                 PROVE  \E i \in 1..(j + k) : callbacks'[i] = n
      BY <1>1, <1>14 DEF NoCallbackLost
    <2>1. CASE n \in 1..book.seq
      <3>1. n \notin delivered
        BY <1>1
      <3>2. PICK i \in 1..j : callbacks[i] = n
        BY <2>1, <3>1 DEF PaperInv, DeliveryInv, NoCallbackLost, j
      <3>3. i \in 1..(j + k) /\ callbacks'[i] = n
        BY <1>1, <1>12, <3>2
      <3> QED
        BY <3>3
    <2>2. CASE n \notin 1..book.seq
      <3>1. n \in new
        BY <1>2, <2>2 DEF new
      <3>2. n \in kept
        BY <1>1, <1>2, <1>5, <3>1
      <3>3. PICK i \in 1..k : s[i] = n
        BY <1>8, <1>9, <3>2 DEF k
      <3>4. (j + i) \in 1..(j + k) /\ callbacks'[j + i] = n
        BY <1>1, <1>13, <3>3
      <3> QED
        BY <3>4
    <2> QED
      BY <2>1, <2>2
  <1>16. degraded' \in BOOLEAN
    BY <1>1, <1>2
  <1>17. callbacks' \in Seq(W)
    BY <1>1, <1>11
  <1> QED
    BY <1>1, <1>15, <1>16, <1>17

-----------------------------------------------------------------------------
(* The invariant.                                                          *)

LEMMA PaperInvInit ==
    ASSUME PaperAssumption, PaperInit
    PROVE  PaperInv
  <1>1. QuoteInv
    BY DEF PaperInit, QuoteInv
  <1>2. book = InitBook
    BY DEF PaperInit
  <1>3. /\ InitialCash \in Nat /\ InitialShares \in Nat /\ InitialSellable \in Nat
        /\ MaxShares \in Nat /\ InitialSellable <= InitialShares
    BY DEF PaperAssumption
  <1>4. NoOrder \in OrderRecord
    BY DEF NoOrder, OrderRecord, Statuses, Reasons, Side
  <1>5. /\ book.total = InitialShares /\ book.sellable = InitialSellable /\ book.cash = InitialCash
        /\ book.fills = <<>> /\ book.consumed = 0 /\ book.seq = 0 /\ book.lost = 0
        /\ book.orders = [o \in Order |-> NoOrder]
    BY <1>2 DEF InitBook
  <1>6. book \in Book
    <2>1. <<>> \in Seq(FillRecord)
      OBVIOUS
    <2>2. [o \in Order |-> NoOrder] \in [Order -> OrderRecord]
      BY <1>4
    <2> QED
      BY <1>2, <1>3, <2>1, <2>2 DEF InitBook, Book
  <1>7. /\ \A side : Traded(book, side) = 0
        /\ \A o : FilledOf(book, o) = 0
    BY <1>5, NothingTraded
  <1>8. SumsInv(book)
    <2>1. \A o \in Order : book.orders[o].filled = FilledOf(book, o)
      BY <1>5, <1>7 DEF NoOrder
    <2>2. Traded(book, "BUY") = 0 /\ Traded(book, "SELL") = 0
      BY <1>7
    <2> QED
      BY <1>3, <1>5, <2>1, <2>2 DEF SumsInv
  <1>9. \A o \in Order : OrderInv(book.orders[o])
    BY <1>3, <1>5 DEF OrderInv, NoOrder, CLOSED_STATUSES
  <1>10. \E v \in Volumes : book.consumed <= v \div Participation
    <2>1. quote.volume \in Volumes /\ quote.volume \in Nat /\ Participation \in Nat \ {0}
      BY <1>1 DEF QuoteInv, PaperAssumption
    <2>2. 0 <= quote.volume \div Participation
      BY <2>1
    <2> QED
      BY <1>5, <2>1, <2>2
  <1>11. BookInv(book)
    BY <1>3, <1>5, <1>6, <1>8, <1>9, <1>10 DEF BookInv
  <1>12. DeliveryInv
    <2>1. callbacks = <<>> /\ connected \in BOOLEAN /\ sink \in BOOLEAN /\ degraded \in BOOLEAN
      BY DEF PaperInit
    <2>2. callbacks \in Seq({})
      BY <2>1
    <2>3. NoCallbackLost
      BY <1>5 DEF NoCallbackLost
    <2> QED
      BY <2>1, <2>2, <2>3 DEF DeliveryInv
  <1> QED
    BY <1>1, <1>11, <1>12 DEF PaperInv

\* The sink takes what waits, all of it or up to the one that raises.
LEMMA SubscribeKeeps ==
    ASSUME PaperInv, NEW k \in Nat, k <= Len(callbacks), book' = book,
           delivered' = delivered \cup {callbacks[j] : j \in 1..k},
           callbacks' = callbacks \/ k = Len(callbacks)
    PROVE  NoCallbackLost'
  <1>1. PICK T : callbacks \in Seq(T)
    BY DEF PaperInv, DeliveryInv
  <1>2. \A n \in 1..book.seq : n \in delivered \/ \E i \in 1..Len(callbacks) : callbacks[i] = n
    BY DEF PaperInv, DeliveryInv, NoCallbackLost
  <1>3. CASE callbacks' = callbacks
    BY <1>2, <1>3 DEF NoCallbackLost
  <1>4. CASE k = Len(callbacks)
    BY <1>2, <1>4 DEF NoCallbackLost
  <1> QED
    BY <1>3, <1>4

\* A step that leaves books, quote and callbacks alone.
LEMMA LeftAlone ==
    ASSUME PaperInv, connected' \in BOOLEAN, UNCHANGED <<book, sink, callbacks, delivered, degraded>>,
           QuoteInv'
    PROVE  PaperInv'
  <1>1. BookInv(book')
    BY DEF PaperInv
  <1>2. (\E T : callbacks' \in Seq(T)) /\ sink' \in BOOLEAN /\ degraded' \in BOOLEAN
    BY DEF PaperInv, DeliveryInv
  <1>3. NoCallbackLost'
    BY DEF PaperInv, DeliveryInv, NoCallbackLost
  <1> QED
    BY <1>1, <1>2, <1>3 DEF PaperInv, DeliveryInv

\* A step that writes the books.
LEMMA WriteKeeps ==
    ASSUME PaperInv, NEW b, BookInv(b), NEW fails \in Failures(b), Emit(b, fails),
           UNCHANGED <<quote, quotes, connected, sink>>
    PROVE  PaperInv'
  <1>1. /\ BookInv(book') /\ degraded' \in BOOLEAN
        /\ \E T : callbacks' \in Seq(T)
        /\ NoCallbackLost'
    BY EmitKeeps
  <1>2. connected' \in BOOLEAN /\ sink' \in BOOLEAN
    BY DEF PaperInv, DeliveryInv
  <1>3. QuoteInv'
    BY DEF PaperInv, QuoteInv
  <1> QED
    BY <1>1, <1>2, <1>3 DEF PaperInv, DeliveryInv

LEMMA PaperInvNext ==
    ASSUME PaperAssumption, PaperInv, [PaperNext]_paperVars
    PROVE  PaperInv'
  <1>1. /\ BookInv(book) /\ QuoteInv
        /\ connected \in BOOLEAN /\ sink \in BOOLEAN /\ degraded \in BOOLEAN
    BY DEF PaperInv, DeliveryInv
  <1>2. UNCHANGED quote => QuoteInv'
    BY <1>1 DEF QuoteInv
  <1>3. ASSUME Connect \/ Disconnect \/ UNCHANGED paperVars PROVE PaperInv'
    <2>1. /\ connected' \in BOOLEAN /\ UNCHANGED <<book, sink, callbacks, delivered, degraded>>
          /\ UNCHANGED quote
      BY <1>1, <1>3 DEF Connect, Disconnect, paperVars
    <2> QED
      BY <1>2, <2>1, LeftAlone
  <1>4. ASSUME Subscribe PROVE PaperInv'
    <2>1. PICK T : callbacks \in Seq(T)
      BY DEF PaperInv, DeliveryInv
    <2>2. Len(callbacks) \in Nat
      BY <2>1
    <2> DEFINE k == Len(callbacks)
    <2>3. book' = book /\ delivered' = delivered \cup {callbacks[j] : j \in 1..k}
      BY <1>4 DEF Subscribe
    <2>4. NoCallbackLost'
      <3>1. k \in Nat /\ k <= Len(callbacks) /\ k = Len(callbacks)
        BY <2>2
      <3> HIDE DEF k
      <3> QED
        BY <2>3, <3>1, SubscribeKeeps
    <2>5. callbacks' \in Seq({})
      BY <1>4 DEF Subscribe
    <2>6. connected' \in BOOLEAN /\ sink' \in BOOLEAN /\ degraded' \in BOOLEAN /\ UNCHANGED quote
      BY <1>1, <1>4 DEF Subscribe
    <2> QED
      BY <1>1, <1>2, <2>3, <2>4, <2>5, <2>6 DEF PaperInv, DeliveryInv
  <1>5. ASSUME NEW i \in 1..Len(callbacks), SubscribeFails(i) PROVE PaperInv'
    <2>1. PICK T : callbacks \in Seq(T)
      BY DEF PaperInv, DeliveryInv
    <2>2. Len(callbacks) \in Nat
      BY <2>1
    <2> DEFINE k == i - 1
    <2>3. book' = book /\ delivered' = delivered \cup {callbacks[j] : j \in 1..k}
          /\ callbacks' = callbacks
      BY <1>5 DEF SubscribeFails
    <2>4. NoCallbackLost'
      <3>1. k \in Nat /\ k <= Len(callbacks)
        BY <2>2
      <3> HIDE DEF k
      <3> QED
        BY <2>3, <3>1, SubscribeKeeps
    <2>5. connected' \in BOOLEAN /\ sink' \in BOOLEAN /\ degraded' \in BOOLEAN /\ UNCHANGED quote
      BY <1>1, <1>5 DEF SubscribeFails
    <2> QED
      BY <1>1, <1>2, <2>1, <2>3, <2>4, <2>5 DEF PaperInv, DeliveryInv
  <1>6. ASSUME NEW q \in [price : Prices, volume : Volumes, open : BOOLEAN], SetQuote(q)
        PROVE  PaperInv'
    <2>1. QuoteInv'
      BY <1>6 DEF SetQuote, QuoteInv
    <2>2. connected' \in BOOLEAN /\ UNCHANGED <<book, sink, callbacks, delivered, degraded>>
      BY <1>1, <1>6 DEF SetQuote
    <2> QED
      BY <2>1, <2>2, LeftAlone
  <1>7. ASSUME NEW o \in Order, Match(o) PROVE PaperInv'
    <2>1. BookInv(Matched(book, o))
      BY <1>1, <1>7, MatchedKeeps DEF Match
    <2>2. PICK fails \in Failures(Matched(book, o)) : Emit(Matched(book, o), fails)
      BY <1>7 DEF Match
    <2>3. UNCHANGED <<quote, quotes, connected, sink>>
      BY <1>7 DEF Match
    <2> QED
      BY <2>1, <2>2, <2>3, WriteKeeps
  <1>8. ASSUME NEW o \in Order, CancelOrder(o) PROVE PaperInv'
    <2> DEFINE b == RecordOrder(book, o, "CANCELLED", book.orders[o].filled)
    <2>1. book.orders[o].status \notin CLOSED_STATUSES /\ book.orders[o].status # "none"
      BY <1>8 DEF CancelOrder
    <2>2. book.orders[o].requested > 0
      BY <1>1, <2>1 DEF BookInv, OrderInv
    <2>3. "CANCELLED" \in Statuses \ {"none"} /\ "CANCELLED" # "FILLED"
      BY DEF Statuses, CLOSED_STATUSES
    <2>4. BookInv(b)
      BY <1>1, <2>1, <2>2, <2>3, RecordKeeps
    <2>5. PICK fails \in Failures(b) : Emit(b, fails)
      BY <1>8 DEF CancelOrder
    <2>6. UNCHANGED <<quote, quotes, connected, sink>>
      BY <1>8 DEF CancelOrder
    <2> HIDE DEF b
    <2> QED
      BY <2>4, <2>5, <2>6, WriteKeeps
  <1>9. ASSUME NEW o \in Order, NEW side \in Side, NEW n \in 1..MaxShares, SubmitOrder(o, side, n)
        PROVE  PaperInv'
    <2> DEFINE b1 == Accepted(book, o, side, n)
               b2 == IF b1.orders[o].status = "REJECTED" THEN b1 ELSE Matched(b1, o)
    <2>1. BookInv(b1) /\ b1.orders[o].status \in {"ACKNOWLEDGED", "REJECTED"}
      BY <1>1, <1>9, AcceptedKeeps DEF SubmitOrder
    <2>2. \/ \E fails \in Failures(b1) : Emit(b1, fails)
          \/ \E fails \in Failures(b2) : Emit(b2, fails)
      BY <1>9 DEF SubmitOrder
    <2>3. UNCHANGED <<quote, quotes, connected, sink>>
      BY <1>9 DEF SubmitOrder
    <2> HIDE DEF b1
    <2>4. BookInv(Matched(b1, o))
      BY <1>1, <2>1, MatchedKeeps
    <2>5. BookInv(b2)
      BY <2>1, <2>4
    <2> HIDE DEF b2
    <2> QED
      BY <2>1, <2>2, <2>3, <2>5, WriteKeeps
  <1> QED
    BY <1>3, <1>4, <1>5, <1>6, <1>7, <1>8, <1>9 DEF PaperNext

\* What the broker's books come to, from what they are kept by.
LEMMA PaperInvSays ==
    ASSUME PaperAssumption, PaperInv
    PROVE  BooksBalance
  <1>1. /\ BookInv(book) /\ book \in Book /\ book.sellable <= book.total
        /\ SumsInv(book) /\ DeliveryInv
    BY DEF PaperInv, BookInv
  <1>2. /\ book.cash \in Nat /\ book.total \in Nat /\ book.sellable \in Nat
        /\ book.consumed \in Nat /\ book.seq \in Nat /\ book.lost \in Nat
    BY <1>1 DEF Book
  <1>3. \A o \in Order : book.orders[o].status \in Statuses
    BY <1>1, FillFields DEF OrderRecord
  <1>4. PaperTypeOK
    <2>1. book.sellable \in 0..book.total
      BY <1>1, <1>2
    <2>2. {connected, sink, degraded} \subseteq BOOLEAN
      BY <1>1 DEF DeliveryInv
    <2> QED
      BY <1>2, <1>3, <2>1, <2>2 DEF PaperTypeOK, Statuses
  <1>5. FillsAddUp
    BY <1>1 DEF FillsAddUp, BookInv, OrderInv, SumsInv
  <1>6. SharesConserved
    BY <1>1 DEF SharesConserved, SumsInv
  <1>7. Traded(book, "SELL") \in Int
    BY <1>1, TradedIsInt
  <1>8. SoldWasSellable
    <2>1. book.sellable = InitialSellable - Traded(book, "SELL") - book.lost /\ InitialSellable \in Nat
      BY <1>1 DEF SumsInv, PaperAssumption
    <2>2. Traded(book, "SELL") + book.lost <= InitialSellable
      BY <1>2, <1>7, <2>1
    <2> QED
      BY <2>2 DEF SoldWasSellable
  <1>9. ParticipationKept
    BY <1>1 DEF ParticipationKept, BookInv, SumsInv
  <1>10. NoCallbackLost
    BY <1>1 DEF DeliveryInv
  <1> QED
    BY <1>4, <1>5, <1>6, <1>8, <1>9, <1>10 DEF BooksBalance

\* The invariant of the simulated broker's books, its quote and its callbacks.
THEOREM PaperInvariant ==
    ASSUME PaperAssumption
    PROVE  PaperSpec => []PaperInv
  <1>1. PaperInit => PaperInv
    BY PaperInvInit
  <1>2. PaperInv /\ [PaperNext]_paperVars => PaperInv'
    BY PaperInvNext
  <1> QED
    BY <1>1, <1>2, PTL DEF PaperSpec

\* The paper broker's books balance (paper.py match, _apply_economics, _emit), whatever the number
\* of orders and quotes.
THEOREM BooksStayBalanced ==
    ASSUME PaperAssumption
    PROVE  PaperSpec => []BooksBalance
  <1>1. PaperInv => BooksBalance
    BY PaperInvSays
  <1> QED
    BY <1>1, PaperInvariant, PTL
=============================================================================
