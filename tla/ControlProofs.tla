---------------------------- MODULE ControlProofs ----------------------------
(***************************************************************************)
(* Proofs about what moves the daemon's loop.                              *)
(*                                                                         *)
(* RuntimeControl, for every set of requests, in a production mode and in  *)
(* a rehearsal, and wherever the holder dies: its remaining transactions   *)
(* are run in thought, RunsTo says that they lead from one configuration   *)
(* to another with every guard met.                                        *)
(*                                                                         *)
(* SessionWorkflow, for every number of sessions and every set of outcomes,*)
(* with crashes at any step, failing services and a frozen decision that   *)
(* is replaced at any time; and BrokerEvents, for any callbacks in any     *)
(* number and order.                                                       *)
(***************************************************************************)
EXTENDS RuntimeControl, SessionWorkflow, BrokerEvents, FiniteSetTheorems, SequenceTheorems, TLAPS

-----------------------------------------------------------------------------
(* Transactions, run in thought.                                           *)

RuntimeRow == [state : States, blockers : SUBSET Blockers]
Step ==
    [op : {"save", "hook"}, state : States, blockers : SUBSET Blockers]
    \cup [op : {"revoke", "reset"}]
    \cup [op : {"trip"}, req : Req \cup {NoReq}]
    \cup [op : {"receipt"}, req : Req, status : {"COMPLETED", "REJECTED"}]
    \cup [op : {"unlink"}, req : Req]
    \cup [op : {"reconcile"}, kind : {"resume", "reconcile"}, ks : BOOLEAN, halted : BOOLEAN]

BlockerSets == SUBSET Blockers
Commanded == [Req -> Commands \cup {"none"}]
Marks == {"armed", "stale", "daemon"}

\* What transactions change and depend on: the row's state, the daemon's copy of it, whether
\* there is an arm lease and a stale copy, the evidence and the receipts.
Config ==
    [row : States, copy : States, marks : SUBSET Marks, done : SUBSET Req, answered : SUBSET Req]

Now ==
    [row |-> rt.state, copy |-> mem.state,
     marks |-> {m \in Marks : \/ m = "armed" /\ armed
                              \/ m = "stale" /\ stale
                              \/ m = "daemon" /\ holder = "daemon"},
     done |-> evidence, answered |-> {r \in Req : receipt[r] # "none"}]

InService == {"RECONCILING", "READY", "EXECUTING"}

\* A save that must not find an arm lease; HALTED revokes it itself.
Disarms(s) == s \notin InService \cup {"HALTED"}

\* A save of the hooks whose copy is stale is refused.
Commits(x, c) == x.op = "save" \/ (x.op = "hook" /\ "stale" \notin c.marks)

\* What must hold when a transaction's turn comes.
Guard(cmd, x, c) ==
    /\ x.op = "save" => Legal(c.row, x.state)
    /\ x.op = "hook" => "daemon" \in c.marks /\ ("stale" \notin c.marks => Legal(c.copy, x.state))
    /\ Commits(x, c) /\ Disarms(x.state) => "armed" \notin c.marks
    /\ x.op = "trip" => "armed" \notin c.marks
    /\ x.op = "receipt" =>
        /\ cmd[x.req] # "none"
        /\ x.status = "COMPLETED" /\ cmd[x.req] = "HALT" => x.req \in c.done
    /\ x.op = "unlink" => x.req \in c.answered
    /\ x.op = "reconcile" => c.row = "RECONCILING" /\ "daemon" \notin c.marks

After(x, c) ==
    [row |-> IF Commits(x, c) THEN x.state ELSE c.row,
     copy |-> IF x.op = "hook" /\ Commits(x, c) THEN x.state ELSE c.copy,
     marks |-> {m \in Marks :
                    CASE m = "armed" -> /\ m \in c.marks /\ x.op # "revoke"
                                        /\ ~(Commits(x, c) /\ x.state = "HALTED")
                      [] m = "stale" -> IF x.op = "save" THEN "daemon" \in c.marks ELSE m \in c.marks
                      [] OTHER -> m \in c.marks},
     done |-> IF x.op = "trip" THEN c.done \cup ({x.req} \cap Req) ELSE c.done,
     answered |-> IF x.op = "receipt" THEN c.answered \cup {x.req} ELSE c.answered]

RunsTo(cmd, s, c, d) ==
    \E cs \in [0..Len(s) -> Config] :
        /\ cs[0] = c /\ cs[Len(s)] = d
        /\ \A i \in 1..Len(s) : Guard(cmd, s[i], cs[i - 1]) /\ cs[i] = After(s[i], cs[i - 1])

\* A transaction leads to a configuration.
LEMMA AfterIsConfig ==
    ASSUME NEW x \in Step, NEW c \in Config
    PROVE  After(x, c) \in Config
  <1>1. Commits(x, c) => x.state \in States
    BY DEF Commits, Step
  <1>2. x.op = "receipt" => x.req \in Req
    BY DEF Step
  <1>. QED  BY <1>1, <1>2 DEF After, Config

LEMMA RunsEmpty ==
    ASSUME NEW cmd, NEW c \in Config
    PROVE  RunsTo(cmd, <<>>, c, c)
  <1>. DEFINE cs == [i \in 0..0 |-> c]
  <1>1. Len(<<>>) = 0 /\ cs \in [0..0 -> Config] /\ cs[0] = c
    OBVIOUS
  <1>. HIDE DEF cs
  <1>2. \A i \in 1..0 : Guard(cmd, <<>>[i], cs[i - 1]) /\ cs[i] = After(<<>>[i], cs[i - 1])
    OBVIOUS
  <1>. QED  BY <1>1, <1>2 DEF RunsTo

LEMMA RunsOne ==
    ASSUME NEW cmd, NEW x \in Step, NEW c \in Config, Guard(cmd, x, c)
    PROVE  RunsTo(cmd, <<x>>, c, After(x, c)) /\ After(x, c) \in Config
  <1>. DEFINE cs == [i \in 0..1 |-> IF i = 0 THEN c ELSE After(x, c)]
  <1>0. After(x, c) \in Config
    BY AfterIsConfig
  <1>1. Len(<<x>>) = 1 /\ cs \in [0..1 -> Config] /\ cs[0] = c /\ cs[1] = After(x, c) /\ <<x>>[1] = x
    BY <1>0
  <1>. HIDE DEF cs
  <1>2. \A i \in 1..1 : Guard(cmd, <<x>>[i], cs[i - 1]) /\ cs[i] = After(<<x>>[i], cs[i - 1])
    BY <1>1
  <1>. QED  BY <1>0, <1>1, <1>2 DEF RunsTo

\* Transactions one after the other.
LEMMA RunsConcat ==
    ASSUME NEW cmd, NEW a \in Seq(Step), NEW b \in Seq(Step),
           NEW c, NEW d, NEW e, RunsTo(cmd, a, c, d), RunsTo(cmd, b, d, e)
    PROVE  RunsTo(cmd, a \o b, c, e)
  <1>. DEFINE m == Len(a)
              n == Len(b)
              s == a \o b
  <1>0. m \in Nat /\ n \in Nat /\ Len(s) = m + n
        /\ (\A i \in 1..m : s[i] = a[i]) /\ (\A i \in (m + 1)..(m + n) : s[i] = b[i - m])
    OBVIOUS
  <1>. PICK ca \in [0..m -> Config] :
            /\ ca[0] = c /\ ca[m] = d
            /\ \A i \in 1..m : Guard(cmd, a[i], ca[i - 1]) /\ ca[i] = After(a[i], ca[i - 1])
    BY DEF RunsTo
  <1>. PICK ct \in [0..n -> Config] :
            /\ ct[0] = d /\ ct[n] = e
            /\ \A i \in 1..n : Guard(cmd, b[i], ct[i - 1]) /\ ct[i] = After(b[i], ct[i - 1])
    BY DEF RunsTo
  <1>. HIDE DEF m, n, s
  <1>. DEFINE cs == [i \in 0..(m + n) |-> IF i <= m THEN ca[i] ELSE ct[i - m]]
  <1>1. cs \in [0..(m + n) -> Config] /\ cs[0] = c
    BY <1>0
  <1>2. cs[m + n] = e
    BY <1>0
  <1>a. \A i \in 0..(m + n) : (i <= m => cs[i] = ca[i]) /\ (i > m => cs[i] = ct[i - m])
    BY <1>0
  <1>. HIDE DEF cs
  <1>3. ASSUME NEW i \in 1..(m + n)
        PROVE  Guard(cmd, s[i], cs[i - 1]) /\ cs[i] = After(s[i], cs[i - 1])
    <2>1. CASE i <= m
      <3>1. i \in 1..m /\ cs[i] = ca[i] /\ cs[i - 1] = ca[i - 1] /\ s[i] = a[i]
        BY <1>0, <1>a, <2>1
      <3>. QED  BY <3>1
    <2>2. CASE i = m + 1
      <3>0. /\ 1 \in 1..n /\ i - m = 1 /\ i - 1 = m /\ i \in 0..(m + n) /\ m \in 0..(m + n)
            /\ i \in (m + 1)..(m + n) /\ i > m /\ m <= m
        BY <1>0, <2>2
      <3>1. cs[i] = ct[1] /\ cs[i - 1] = ct[0] /\ s[i] = b[1]
        <4>1. cs[i] = ct[i - m] /\ cs[m] = ca[m] /\ s[i] = b[i - m]
          BY <1>0, <1>a, <3>0
        <4>. QED  BY <3>0, <4>1
      <3>2. Guard(cmd, b[1], ct[1 - 1]) /\ ct[1] = After(b[1], ct[1 - 1])
        BY <3>0
      <3>. QED  BY <3>1, <3>2
    <2>3. CASE i > m + 1
      <3>0. /\ i - m \in 1..n /\ i \in 0..(m + n) /\ i - 1 \in 0..(m + n) /\ (i - 1) - m = (i - m) - 1
            /\ i \in (m + 1)..(m + n) /\ i > m /\ i - 1 > m
        BY <1>0, <2>3
      <3>1. cs[i] = ct[i - m] /\ cs[i - 1] = ct[(i - m) - 1] /\ s[i] = b[i - m]
        <4>1. cs[i] = ct[i - m] /\ cs[i - 1] = ct[(i - 1) - m] /\ s[i] = b[i - m]
          BY <1>0, <1>a, <3>0
        <4>. QED  BY <3>0, <4>1
      <3>. QED  BY <3>0, <3>1
    <2>. QED  BY <1>0, <2>1, <2>2, <2>3
  <1>4. RunsTo(cmd, s, c, e)
    BY <1>0, <1>1, <1>2, <1>3 DEF RunsTo
  <1>. QED  BY <1>4 DEF s

\* The first transaction, and the rest.
LEMMA RunsTail ==
    ASSUME NEW cmd, NEW s \in Seq(Step), s # <<>>, NEW c, NEW d, RunsTo(cmd, s, c, d)
    PROVE  /\ Head(s) \in Step /\ Tail(s) \in Seq(Step)
           /\ Guard(cmd, Head(s), c)
           /\ RunsTo(cmd, Tail(s), After(Head(s), c), d)
  <1>. DEFINE n == Len(s)
              t == Tail(s)
  <1>0. /\ n \in Nat /\ 1 \in 1..n /\ Head(s) = s[1] /\ s[1] \in Step /\ t \in Seq(Step)
        /\ Len(t) = n - 1 /\ \A i \in 1..(n - 1) : t[i] = s[i + 1]
    OBVIOUS
  <1>. PICK cs \in [0..n -> Config] :
            /\ cs[0] = c /\ cs[n] = d
            /\ \A i \in 1..n : Guard(cmd, s[i], cs[i - 1]) /\ cs[i] = After(s[i], cs[i - 1])
    BY DEF RunsTo
  <1>1. Guard(cmd, s[1], cs[1 - 1]) /\ cs[1] = After(s[1], cs[1 - 1])
    BY <1>0
  <1>2. Guard(cmd, s[1], c) /\ cs[1] = After(s[1], c)
    BY <1>1
  <1>. HIDE DEF n, t
  <1>. DEFINE ct == [i \in 0..(n - 1) |-> cs[i + 1]]
  <1>3. ct \in [0..(n - 1) -> Config] /\ ct[0] = cs[1] /\ ct[n - 1] = d
    BY <1>0
  <1>4. ASSUME NEW i \in 1..(n - 1)
        PROVE  Guard(cmd, t[i], ct[i - 1]) /\ ct[i] = After(t[i], ct[i - 1])
    <2>1. i + 1 \in 1..n /\ ct[i] = cs[i + 1] /\ ct[i - 1] = cs[(i + 1) - 1] /\ t[i] = s[i + 1]
      BY <1>0
    <2>. QED  BY <2>1
  <1>. HIDE DEF ct
  <1>5. RunsTo(cmd, t, cs[1], d)
    BY <1>0, <1>3, <1>4 DEF RunsTo
  <1>. QED  BY <1>0, <1>2, <1>5 DEF t

-----------------------------------------------------------------------------
(* The inductive invariant.                                                *)

OfDaemon == {"startup", "recover", "top", "work", "cycle", "disconnect"}
Phases == {"none", "list", "load", "failed", "leave"} \cup OfDaemon

\* Who does what; the daemon's copy is the row unless it is stale.
HolderInv ==
    /\ phase \in Phases
    /\ holder = "none" => todo = <<>> /\ phase = "none" /\ entries = {} /\ pending = {}
    /\ phase = "none" => holder = "none"
    /\ phase \in OfDaemon => holder = "daemon"
    /\ holder = "daemon" /\ ~stale => mem = rt

\* Where the daemon's copy is once a startup or a cycle has begun.
EndInv(d) ==
    /\ phase = "recover" /\ "stale" \notin d.marks => d.copy = "RECONCILING"
    /\ phase = "cycle" /\ "stale" \notin d.marks => d.copy \in {"EXECUTING", "RECONCILING"}

\* What remains to be done can be done, as things are now.
TodoInv ==
    /\ todo \in Seq(Step)
    /\ \E d \in Config : RunsTo(command, todo, Now, d) /\ EndInv(d)

\* A request that is known anywhere has its command.
RequestInv ==
    \A r \in Req :
        inbox[r] # "none" \/ receipt[r] # "none" \/ r \in pending \/ (\E s : <<r, s>> \in entries)
            => command[r] # "none"

ControlInv ==
    /\ TypeOK /\ HolderInv /\ TodoInv /\ RequestInv
    /\ ArmedOnlyWhileRunning /\ ArmedIsUntripped /\ HaltReceiptIsEvidence

-----------------------------------------------------------------------------
(* What each transaction asks for and leads to.                            *)

Leads(cmd, s, c, d) == s \in Seq(Step) /\ c \in Config /\ d \in Config /\ RunsTo(cmd, s, c, d)

LEMMA LeadsNowhere ==
    ASSUME NEW cmd, NEW c \in Config
    PROVE  Leads(cmd, <<>>, c, c)
  BY RunsEmpty DEF Leads

LEMMA LeadsThrough ==
    ASSUME NEW cmd, NEW a, NEW b, NEW c, NEW d, NEW e, Leads(cmd, a, c, d), Leads(cmd, b, d, e)
    PROVE  Leads(cmd, a \o b, c, e)
  <1>1. RunsTo(cmd, a \o b, c, e)
    BY RunsConcat DEF Leads
  <1>2. a \o b \in Seq(Step)
    BY DEF Leads
  <1>. QED  BY <1>1, <1>2 DEF Leads

\* Tuples of transactions.
LEMMA OneTuple ==
    ASSUME NEW x \in Step
    PROVE  \E p \in Seq(Step) : p = <<x>> /\ Len(p) = 1 /\ p[1] = x
  <1>1. <<x>> \in Seq(Step) /\ Len(<<x>>) = 1 /\ <<x>>[1] = x
    OBVIOUS
  <1>. QED  BY <1>1, Zenon

LEMMA PairTuple ==
    ASSUME NEW x \in Step, NEW y \in Step
    PROVE  \E p \in Seq(Step) : p = <<x, y>> /\ Len(p) = 2 /\ p[1] = x /\ p[2] = y
  <1>1. <<x, y>> \in Seq(Step) /\ Len(<<x, y>>) = 2 /\ <<x, y>>[1] = x /\ <<x, y>>[2] = y
    OBVIOUS
  <1>. QED  BY <1>1, Zenon

LEMMA TripleTuple ==
    ASSUME NEW x \in Step, NEW y \in Step, NEW z \in Step
    PROVE  \E p \in Seq(Step) : p = <<x, y, z>> /\ Len(p) = 3 /\ p[1] = x /\ p[2] = y /\ p[3] = z
  <1>1. /\ <<x, y, z>> \in Seq(Step) /\ Len(<<x, y, z>>) = 3
        /\ <<x, y, z>>[1] = x /\ <<x, y, z>>[2] = y /\ <<x, y, z>>[3] = z
    OBVIOUS
  <1>. QED  BY <1>1, Zenon

\* Two transactions written as one tuple.
LEMMA LeadsPair ==
    ASSUME NEW cmd, NEW x \in Step, NEW y \in Step, NEW c, NEW d, NEW e,
           Leads(cmd, <<x>>, c, d), Leads(cmd, <<y>>, d, e)
    PROVE  Leads(cmd, <<x, y>>, c, e)
  <1>1. PICK p \in Seq(Step) : p = <<x>> /\ Len(p) = 1 /\ p[1] = x
    BY OneTuple
  <1>2. PICK q \in Seq(Step) : q = <<y>> /\ Len(q) = 1 /\ q[1] = y
    BY OneTuple
  <1>3. PICK b \in Seq(Step) : b = <<x, y>> /\ Len(b) = 2 /\ b[1] = x /\ b[2] = y
    BY PairTuple
  <1>4. p \o q \in Seq(Step) /\ Len(p \o q) = 2 /\ (p \o q)[1] = x /\ (p \o q)[2] = y
    BY <1>1, <1>2
  <1>5. PICK a \in Seq(Step) : a = p \o q /\ Len(a) = 2 /\ a[1] = x /\ a[2] = y
    BY <1>4, Zenon
  <1>6. \A i \in 1..2 : a[i] = b[i]
    BY <1>3, <1>5
  <1>7. a = b
    BY <1>3, <1>5, <1>6, SeqEqual
  <1>8. Leads(cmd, p \o q, c, e)
    BY <1>1, <1>2, LeadsThrough, Zenon
  <1>. QED  BY <1>3, <1>5, <1>7, <1>8, Zenon

LEMMA LeadsTriple ==
    ASSUME NEW cmd, NEW x \in Step, NEW y \in Step, NEW z \in Step, NEW c, NEW d, NEW e, NEW f,
           Leads(cmd, <<x>>, c, d), Leads(cmd, <<y>>, d, e), Leads(cmd, <<z>>, e, f)
    PROVE  Leads(cmd, <<x, y, z>>, c, f)
  <1>1. PICK p \in Seq(Step) : p = <<x, y>> /\ Len(p) = 2 /\ p[1] = x /\ p[2] = y
    BY PairTuple
  <1>2. PICK q \in Seq(Step) : q = <<z>> /\ Len(q) = 1 /\ q[1] = z
    BY OneTuple
  <1>3. PICK b \in Seq(Step) : b = <<x, y, z>> /\ Len(b) = 3 /\ b[1] = x /\ b[2] = y /\ b[3] = z
    BY TripleTuple
  <1>4. /\ p \o q \in Seq(Step) /\ Len(p \o q) = 3
        /\ (p \o q)[1] = x /\ (p \o q)[2] = y /\ (p \o q)[3] = z
    BY <1>1, <1>2
  <1>5. PICK a \in Seq(Step) : a = p \o q /\ Len(a) = 3 /\ a[1] = x /\ a[2] = y /\ a[3] = z
    BY <1>4, Zenon
  <1>6. \A i \in 1..3 : a[i] = b[i]
    BY <1>3, <1>5
  <1>7. a = b
    BY <1>3, <1>5, <1>6, SeqEqual
  <1>8. Leads(cmd, p, c, e)
    BY <1>1, LeadsPair, Zenon
  <1>9. Leads(cmd, p \o q, c, f)
    BY <1>2, <1>8, LeadsThrough, Zenon
  <1>. QED  BY <1>3, <1>5, <1>7, <1>9, Zenon

\* The transactions are steps.
LEMMA Steps ==
    ASSUME ReqAssumption
    PROVE  /\ \A s \in States, b \in BlockerSets : Save(s, b) \in Step /\ HookSave(s, b) \in Step
           /\ Revoke \in Step /\ Reset \in Step
           /\ \A r \in Req \cup {NoReq} : Trip(r) \in Step
           /\ \A r \in Req : /\ Receipt(r, "COMPLETED") \in Step /\ Receipt(r, "REJECTED") \in Step
                             /\ Unlink(r) \in Step
           /\ \A k \in {"resume", "reconcile"}, ks, h \in BOOLEAN : Reconcile(k, ks, h) \in Step
  <1>1. \A s \in States, b \in BlockerSets : Save(s, b) \in Step /\ HookSave(s, b) \in Step
    BY DEF Step, Save, HookSave, BlockerSets
  <1>2. Revoke \in Step /\ Reset \in Step
    BY DEF Step, Revoke, Reset
  <1>3. \A r \in Req \cup {NoReq} : Trip(r) \in Step
    BY DEF Step, Trip
  <1>4. \A r \in Req : /\ Receipt(r, "COMPLETED") \in Step /\ Receipt(r, "REJECTED") \in Step
                       /\ Unlink(r) \in Step
    BY DEF Step, Receipt, Unlink
  <1>5. ASSUME NEW k \in {"resume", "reconcile"}, NEW ks \in BOOLEAN, NEW h \in BOOLEAN
        PROVE  Reconcile(k, ks, h) \in Step
    BY DEF Step, Reconcile
  <1>. QED  BY <1>1, <1>2, <1>3, <1>4, <1>5

\* Where a save of a handler or of a command leads; it leaves the daemon's copy stale.
Saved(s, b, c) == After(Save(s, b), c)

LEMMA DoesSave ==
    ASSUME ReqAssumption, NEW cmd \in Commanded, NEW s \in States, NEW b \in BlockerSets,
           NEW c \in Config, Legal(c.row, s), Disarms(s) => "armed" \notin c.marks
    PROVE  /\ Saved(s, b, c) \in Config /\ Leads(cmd, <<Save(s, b)>>, c, Saved(s, b, c))
           /\ Saved(s, b, c).row = s /\ Saved(s, b, c).copy = c.copy
           /\ Saved(s, b, c).done = c.done /\ Saved(s, b, c).answered = c.answered
           /\ "armed" \in Saved(s, b, c).marks => "armed" \in c.marks /\ s # "HALTED"
           /\ "daemon" \in Saved(s, b, c).marks <=> "daemon" \in c.marks
           /\ "stale" \in Saved(s, b, c).marks <=> "daemon" \in c.marks
  <1>. PICK x \in Step : x = Save(s, b)
    BY Steps
  <1>0. x.op = "save" /\ x.state = s
    BY DEF Save
  <1>1. Guard(cmd, x, c)
    BY <1>0 DEF Guard
  <1>2. RunsTo(cmd, <<x>>, c, After(x, c)) /\ After(x, c) \in Config
    BY <1>1, RunsOne
  <1>. PICK d \in Config : d = After(x, c)
    BY <1>2
  <1>3. Leads(cmd, <<x>>, c, d)
    BY <1>2 DEF Leads
  <1>4. /\ d.row = s /\ d.copy = c.copy /\ d.done = c.done /\ d.answered = c.answered
        /\ "armed" \in d.marks => "armed" \in c.marks /\ s # "HALTED"
        /\ "daemon" \in d.marks <=> "daemon" \in c.marks
        /\ "stale" \in d.marks <=> "daemon" \in c.marks
    BY <1>0 DEF After, Commits, Marks, Config
  <1>5. d = Saved(s, b, c)
    BY DEF Saved
  <1>. QED  BY <1>3, <1>4, <1>5

\* Where a save of the hooks leads; with a stale copy it does nothing.
Hooked(s, b, c) == After(HookSave(s, b), c)

LEMMA DoesHook ==
    ASSUME ReqAssumption, NEW cmd \in Commanded, NEW s \in States, NEW b \in BlockerSets,
           NEW c \in Config, "daemon" \in c.marks,
           "stale" \notin c.marks => Legal(c.copy, s),
           "stale" \notin c.marks /\ Disarms(s) => "armed" \notin c.marks
    PROVE  /\ Hooked(s, b, c) \in Config /\ Leads(cmd, <<HookSave(s, b)>>, c, Hooked(s, b, c))
           /\ "stale" \notin c.marks => Hooked(s, b, c).row = s /\ Hooked(s, b, c).copy = s
           /\ Hooked(s, b, c).done = c.done /\ Hooked(s, b, c).answered = c.answered
           /\ "armed" \in Hooked(s, b, c).marks => "armed" \in c.marks
           /\ "daemon" \in Hooked(s, b, c).marks
           /\ "stale" \in Hooked(s, b, c).marks <=> "stale" \in c.marks
  <1>. PICK x \in Step : x = HookSave(s, b)
    BY Steps
  <1>0. x.op = "hook" /\ x.state = s
    BY DEF HookSave
  <1>1. Guard(cmd, x, c)
    BY <1>0 DEF Guard, Commits
  <1>2. RunsTo(cmd, <<x>>, c, After(x, c)) /\ After(x, c) \in Config
    BY <1>1, RunsOne
  <1>. PICK d \in Config : d = After(x, c)
    BY <1>2
  <1>3. Leads(cmd, <<x>>, c, d)
    BY <1>2 DEF Leads
  <1>4. /\ "stale" \notin c.marks => d.row = s /\ d.copy = s
        /\ d.done = c.done /\ d.answered = c.answered
        /\ "armed" \in d.marks => "armed" \in c.marks
        /\ "daemon" \in d.marks
        /\ "stale" \in d.marks <=> "stale" \in c.marks
    BY <1>0 DEF After, Commits, Marks, Config
  <1>5. d = Hooked(s, b, c)
    BY DEF Hooked
  <1>. QED  BY <1>3, <1>4, <1>5

\* The arm lease is revoked.
LEMMA DoesRevoke ==
    ASSUME ReqAssumption, NEW cmd \in Commanded, NEW c \in Config
    PROVE  \E d \in Config :
             /\ Leads(cmd, <<Revoke>>, c, d)
             /\ d.row = c.row /\ d.copy = c.copy /\ d.done = c.done /\ d.answered = c.answered
             /\ "armed" \notin d.marks
             /\ "daemon" \in d.marks <=> "daemon" \in c.marks
             /\ "stale" \in d.marks <=> "stale" \in c.marks
  <1>. PICK x \in Step : x = Revoke
    BY Steps
  <1>0. x.op = "revoke"
    BY DEF Revoke
  <1>1. Guard(cmd, x, c)
    BY <1>0 DEF Guard, Commits
  <1>2. RunsTo(cmd, <<x>>, c, After(x, c)) /\ After(x, c) \in Config
    BY <1>1, RunsOne
  <1>. PICK d \in Config : d = After(x, c)
    BY <1>2
  <1>3. Leads(cmd, <<x>>, c, d)
    BY <1>2 DEF Leads
  <1>4. /\ d.row = c.row /\ d.copy = c.copy /\ d.done = c.done /\ d.answered = c.answered
        /\ "armed" \notin d.marks
        /\ "daemon" \in d.marks <=> "daemon" \in c.marks
        /\ "stale" \in d.marks <=> "stale" \in c.marks
    BY <1>0 DEF After, Commits, Marks, Config
  <1>. QED  BY <1>3, <1>4

\* The kill switch is tripped, for a request or by the operator.
LEMMA DoesTrip ==
    ASSUME ReqAssumption, NEW cmd \in Commanded, NEW r \in Req \cup {NoReq}, NEW c \in Config,
           "armed" \notin c.marks
    PROVE  \E d \in Config :
             Leads(cmd, <<Trip(r)>>, c, d) /\ (r \in Req => r \in d.done)
  <1>. PICK x \in Step : x = Trip(r)
    BY Steps
  <1>0. x.op = "trip" /\ x.req = r
    BY DEF Trip
  <1>1. Guard(cmd, x, c)
    BY <1>0 DEF Guard, Commits
  <1>2. RunsTo(cmd, <<x>>, c, After(x, c)) /\ After(x, c) \in Config
    BY <1>1, RunsOne
  <1>3. r \in Req => r \in After(x, c).done
    BY <1>0 DEF After
  <1>. QED  BY <1>2, <1>3 DEF Leads

\* A receipt, and the removal of the file it answers.
LEMMA DoesAnswer ==
    ASSUME ReqAssumption, NEW cmd \in Commanded, NEW r \in Req, NEW s \in {"COMPLETED",
           "REJECTED"}, NEW c \in Config,
           cmd[r] # "none", s = "COMPLETED" /\ cmd[r] = "HALT" => r \in c.done
    PROVE  \E d \in Config : Leads(cmd, <<Receipt(r, s), Unlink(r)>>, c, d)
  <1>. PICK x \in Step : x = Receipt(r, s)
    BY Steps
  <1>. PICK y \in Step : y = Unlink(r)
    BY Steps
  <1>0. x.op = "receipt" /\ x.req = r /\ x.status = s /\ y.op = "unlink" /\ y.req = r
    BY DEF Receipt, Unlink
  <1>1. Guard(cmd, x, c)
    BY <1>0 DEF Guard, Commits
  <1>2. RunsTo(cmd, <<x>>, c, After(x, c)) /\ After(x, c) \in Config
    BY <1>1, RunsOne
  <1>. PICK d \in Config : d = After(x, c)
    BY <1>2
  <1>3. r \in d.answered
    BY <1>0 DEF After
  <1>4. Guard(cmd, y, d)
    BY <1>0, <1>3 DEF Guard, Commits
  <1>5. RunsTo(cmd, <<y>>, d, After(y, d)) /\ After(y, d) \in Config
    BY <1>4, RunsOne
  <1>6. Leads(cmd, <<x>>, c, d) /\ Leads(cmd, <<y>>, d, After(y, d))
    BY <1>2, <1>5 DEF Leads
  <1>. QED  BY <1>5, <1>6, LeadsPair

LEMMA DoesUnlink ==
    ASSUME ReqAssumption, NEW cmd \in Commanded, NEW r \in Req, NEW c \in Config, r \in c.answered
    PROVE  \E d \in Config : Leads(cmd, <<Unlink(r)>>, c, d)
  <1>. PICK y \in Step : y = Unlink(r)
    BY Steps
  <1>0. y.op = "unlink" /\ y.req = r
    BY DEF Unlink
  <1>1. Guard(cmd, y, c)
    BY <1>0 DEF Guard, Commits
  <1>. QED  BY <1>1, RunsOne DEF Leads

LEMMA DoesReconcile ==
    ASSUME ReqAssumption, NEW cmd \in Commanded, NEW k \in {"resume", "reconcile"},
           NEW ks \in BOOLEAN, NEW h \in BOOLEAN,
           NEW c \in Config, c.row = "RECONCILING", "daemon" \notin c.marks
    PROVE  \E d \in Config : Leads(cmd, <<Reconcile(k, ks, h)>>, c, d)
  <1>. PICK x \in Step : x = Reconcile(k, ks, h)
    BY Steps
  <1>0. x.op = "reconcile"
    BY DEF Reconcile
  <1>1. Guard(cmd, x, c)
    BY <1>0 DEF Guard, Commits
  <1>. QED  BY <1>1, RunsOne DEF Leads

LEMMA DoesReset ==
    ASSUME ReqAssumption, NEW cmd \in Commanded, NEW c \in Config
    PROVE  \E d \in Config : /\ Leads(cmd, <<Reset>>, c, d)
                             /\ d.row = c.row /\ ("armed" \in d.marks => "armed" \in c.marks)
  <1>. PICK x \in Step : x = Reset
    BY Steps
  <1>0. x.op = "reset"
    BY DEF Reset
  <1>1. Guard(cmd, x, c)
    BY <1>0 DEF Guard, Commits
  <1>2. RunsTo(cmd, <<x>>, c, After(x, c)) /\ After(x, c) \in Config
    BY <1>1, RunsOne
  <1>3. After(x, c).row = c.row /\ ("armed" \in After(x, c).marks => "armed" \in c.marks)
    BY <1>0 DEF After, Commits
  <1>. QED  BY <1>2, <1>3 DEF Leads

-----------------------------------------------------------------------------
(* What the handlers, hooks and commands do, run in thought.               *)

\* The transitions they use (runtime_state.py RUNTIME_TRANSITIONS).
LEMMA LegalMoves ==
    /\ \A s \in States \ {"DISARMED", "STOPPING"} : Legal(s, "HALTED") /\ Legal(s, "RECONCILING")
    /\ \A s \in States \ {"DISARMED"} : Legal(s, "STOPPING")
    /\ Legal("STOPPING", "DISARMED") /\ Legal("DISARMED", "STARTING")
    /\ Legal("RECONCILING", "READY") /\ Legal("EXECUTING", "READY")
    /\ Legal("READY", "EXECUTING")
  BY DEF Legal, States, RUNTIME_TRANSITIONS

\* To HALTED from anywhere, once no arm lease is left (operations.py _halt).
LEMMA ToHaltedLeads ==
    ASSUME ReqAssumption, NEW cmd \in Commanded, NEW s \in RuntimeRow, NEW b \in BlockerSets,
           NEW c \in Config,
           c.row = s.state, "armed" \notin c.marks
    PROVE  \E d \in Config : Leads(cmd, ToHalted(s, b), c, d) /\ "armed" \notin d.marks
  <1>. DEFINE one == IF s.state = "STOPPING" THEN <<Save("DISARMED", {})>> ELSE <<>>
              two == IF s.state \in {"STOPPING", "DISARMED"} THEN <<Save("STARTING", {})>> ELSE <<>>
  <1>0. s.state \in States /\ {} \in BlockerSets
    BY DEF RuntimeRow, BlockerSets
  <1>s. {"DISARMED", "STARTING", "HALTED"} \subseteq States
    BY DEF States
  <1>1. PICK d1 \in Config : /\ Leads(cmd, one, c, d1) /\ "armed" \notin d1.marks
                             /\ d1.row = IF s.state = "STOPPING" THEN "DISARMED" ELSE s.state
    <2>1. CASE s.state = "STOPPING"
      BY <1>0, <1>s, <2>1, LegalMoves, DoesSave
    <2>2. CASE s.state # "STOPPING"
      BY <2>2, LeadsNowhere
    <2>. QED  BY <2>1, <2>2
  <1>2. PICK d2 \in Config : /\ Leads(cmd, two, d1, d2) /\ "armed" \notin d2.marks
                             /\ d2.row \in States \ {"STOPPING", "DISARMED"}
    <2>1. CASE s.state \in {"STOPPING", "DISARMED"}
      <3>1. d1.row = "DISARMED"
        BY <1>1, <2>1
      <3>2. PICK d \in Config : /\ Leads(cmd, <<Save("STARTING", {})>>, d1, d) /\ d.row = "STARTING"
                                /\ "armed" \in d.marks => "armed" \in d1.marks /\ "STARTING" # "HALTED"
        <4>1. Legal(d1.row, "STARTING") /\ "armed" \notin d1.marks /\ "STARTING" \in States
          BY <1>1, <1>s, <3>1, LegalMoves
        <4>. QED  BY <1>0, <4>1, DoesSave, Zenon
      <3>. QED  BY <1>1, <1>s, <2>1, <3>2
    <2>2. CASE s.state \notin {"STOPPING", "DISARMED"}
      BY <1>0, <1>1, <2>2, LeadsNowhere
    <2>. QED  BY <2>1, <2>2
  <1>3. PICK d3 \in Config : Leads(cmd, <<Save("HALTED", b)>>, d2, d3) /\ "armed" \notin d3.marks
    <2>1. Legal(d2.row, "HALTED") /\ "armed" \notin d2.marks /\ "HALTED" \in States
      BY <1>2, <1>s, LegalMoves
    <2>. QED  BY <2>1, DoesSave
  <1>4. Leads(cmd, one \o two, c, d2)
    BY <1>1, <1>2, LeadsThrough
  <1>5. Leads(cmd, (one \o two) \o <<Save("HALTED", b)>>, c, d3)
    BY <1>3, <1>4, LeadsThrough
  <1>. QED  BY <1>3, <1>5 DEF ToHalted, ToStarting

\* To DISARMED from anywhere, once no arm lease is left (operations.py _disarm).
LEMMA ToDisarmedLeads ==
    ASSUME ReqAssumption, NEW cmd \in Commanded, NEW s \in RuntimeRow, NEW b \in BlockerSets,
           NEW c \in Config,
           c.row = s.state, "armed" \notin c.marks
    PROVE  \E d \in Config : Leads(cmd, ToDisarmed(s, b), c, d)
  <1>. DEFINE one == IF s.state = "STOPPING" THEN <<>> ELSE <<Save("STOPPING", s.blockers)>>
  <1>0. s.state \in States /\ s.blockers \in BlockerSets
    BY DEF RuntimeRow, BlockerSets
  <1>s. {"DISARMED", "STOPPING"} \subseteq States
    BY DEF States
  <1>1. CASE s.state = "DISARMED"
    BY <1>1, LeadsNowhere DEF ToDisarmed
  <1>2. CASE s.state # "DISARMED"
    <2>1. PICK d1 \in Config : Leads(cmd, one, c, d1) /\ "armed" \notin d1.marks /\ d1.row = "STOPPING"
      <3>1. CASE s.state = "STOPPING"
        BY <3>1, LeadsNowhere
      <3>2. CASE s.state # "STOPPING"
        <4>1. Legal(c.row, "STOPPING") /\ "armed" \notin c.marks /\ "STOPPING" \in States
          BY <1>0, <1>2, <1>s, LegalMoves
        <4>2. PICK d \in Config : /\ Leads(cmd, <<Save("STOPPING", s.blockers)>>, c, d)
                                  /\ d.row = "STOPPING" /\ "armed" \notin d.marks
          BY <1>0, <4>1, DoesSave, Zenon
        <4>. QED  BY <3>2, <4>2
      <3>. QED  BY <3>1, <3>2
    <2>2. PICK d2 \in Config : Leads(cmd, <<Save("DISARMED", b)>>, d1, d2)
      <3>1. Legal(d1.row, "DISARMED") /\ "armed" \notin d1.marks /\ "DISARMED" \in States
        BY <2>1, <1>s, LegalMoves
      <3>. QED  BY <3>1, DoesSave
    <2>3. Leads(cmd, one \o <<Save("DISARMED", b)>>, c, d2)
      BY <2>1, <2>2, LeadsThrough
    <2>. QED  BY <1>2, <2>2, <2>3 DEF ToDisarmed
  <1>. QED  BY <1>1, <1>2

\* Facts about the configuration things are in.
LEMMA NowIs ==
    ASSUME TypeOK
    PROVE  /\ Now \in Config /\ Now.row = rt.state /\ Now.copy = mem.state
           /\ "armed" \in Now.marks <=> armed
           /\ "stale" \in Now.marks <=> stale
           /\ "daemon" \in Now.marks <=> holder = "daemon"
           /\ Now.done = evidence /\ \A r \in Req : r \in Now.answered <=> receipt[r] # "none"
           /\ rt \in RuntimeRow /\ mem \in RuntimeRow
  <1>1. rt \in RuntimeRow /\ mem \in RuntimeRow
    BY DEF TypeOK, RuntimeRow
  <1>2. armed \in BOOLEAN /\ stale \in BOOLEAN /\ evidence \subseteq Req
    BY DEF TypeOK
  <1>3. Now \in Config
    BY <1>1, <1>2 DEF Now, Config, RuntimeRow
  <1>4. Now.row = rt.state /\ Now.copy = mem.state /\ Now.done = evidence
    BY DEF Now
  <1>5. \A r \in Req : r \in Now.answered <=> receipt[r] # "none"
    BY DEF Now
  <1>6. /\ "armed" \in Now.marks <=> armed
        /\ "stale" \in Now.marks <=> stale
        /\ "daemon" \in Now.marks <=> holder = "daemon"
    BY DEF Now, Marks
  <1>. QED  BY <1>1, <1>2, <1>3, <1>4, <1>5, <1>6

\* STOP (runtime_control.py stop handler): unless the runtime is already STOPPING the daemon's
\* copy is stale afterwards.
LEMMA StopLeads ==
    ASSUME ReqAssumption, TypeOK, NEW cmd \in Commanded
    PROVE  \E d \in Config :
             /\ Leads(cmd, StopSteps, Now, d)
             /\ d.copy = mem.state /\ "armed" \notin d.marks
             /\ holder = "daemon" => "daemon" \in d.marks
             /\ holder = "daemon" /\ "stale" \notin d.marks => ~stale /\ rt.state = "STOPPING"
  <1>. DEFINE one == IF rt.state = "DISARMED" THEN <<Save("STARTING", {})>> ELSE <<>>
              b == IF rt.state = "DISARMED" THEN {} ELSE rt.blockers
              two == IF rt.state = "STOPPING" THEN <<>> ELSE <<Save("STOPPING", b)>>
  <1>0. rt.state \in States /\ b \in BlockerSets /\ {} \in BlockerSets
    BY NowIs DEF RuntimeRow, BlockerSets
  <1>s. {"STARTING", "STOPPING"} \subseteq States
    BY DEF States
  <1>1. PICK d0 \in Config : /\ Leads(cmd, <<Revoke>>, Now, d0) /\ "armed" \notin d0.marks
                             /\ d0.row = rt.state /\ d0.copy = mem.state
                             /\ "daemon" \in d0.marks <=> holder = "daemon"
                             /\ "stale" \in d0.marks <=> stale
    BY NowIs, DoesRevoke
  <1>2. PICK d1 \in Config : /\ Leads(cmd, one, d0, d1) /\ "armed" \notin d1.marks
                             /\ d1.row = IF rt.state = "DISARMED" THEN "STARTING" ELSE rt.state
                             /\ d1.copy = mem.state
                             /\ "daemon" \in d1.marks <=> holder = "daemon"
                             /\ rt.state # "DISARMED" => d1 = d0
    <2>1. CASE rt.state = "DISARMED"
      BY <1>0, <1>1, <1>s, <2>1, LegalMoves, DoesSave
    <2>2. CASE rt.state # "DISARMED"
      BY <1>1, <2>2, LeadsNowhere
    <2>. QED  BY <2>1, <2>2
  <1>. HIDE DEF b
  <1>3. PICK d2 \in Config : /\ Leads(cmd, two, d1, d2) /\ "armed" \notin d2.marks
                             /\ d2.copy = mem.state
                             /\ "daemon" \in d2.marks <=> holder = "daemon"
                             /\ rt.state # "STOPPING" => ("stale" \in d2.marks <=> holder = "daemon")
                             /\ rt.state = "STOPPING" => d2 = d1
    <2>1. CASE rt.state = "STOPPING"
      BY <1>2, <2>1, LeadsNowhere
    <2>2. CASE rt.state # "STOPPING"
      <3>1. d1.row \in States \ {"DISARMED"}
        BY <1>0, <1>2, <1>s
      <3>2. Legal(d1.row, "STOPPING")
        BY <3>1, LegalMoves
      <3>3. PICK d \in Config : /\ Leads(cmd, <<Save("STOPPING", b)>>, d1, d) /\ d.copy = d1.copy
                                /\ "armed" \in d.marks => "armed" \in d1.marks /\ "STOPPING" # "HALTED"
                                /\ "daemon" \in d.marks <=> "daemon" \in d1.marks
                                /\ "stale" \in d.marks <=> "daemon" \in d1.marks
        <4>1. "armed" \notin d1.marks /\ "STOPPING" \in States
          BY <1>2, <1>s
        <4>. QED  BY <1>0, <3>2, <4>1, DoesSave
      <3>. QED  BY <1>2, <2>2, <3>3
    <2>. QED  BY <2>1, <2>2
  <1>4. Leads(cmd, <<Revoke>> \o one, Now, d1)
    BY <1>1, <1>2, LeadsThrough
  <1>5. Leads(cmd, (<<Revoke>> \o one) \o two, Now, d2)
    BY <1>3, <1>4, LeadsThrough
  <1>6. Leads(cmd, StopSteps, Now, d2)
    BY <1>5 DEF StopSteps, b
  <1>7. holder = "daemon" /\ "stale" \notin d2.marks => ~stale /\ rt.state = "STOPPING"
    BY <1>1, <1>2, <1>3
  <1>. QED  BY <1>3, <1>6, <1>7

\* hooks.halt (production_services.py halt), from any configuration with the daemon's copy.
LEMMA HooksHaltLeads ==
    ASSUME ReqAssumption, TypeOK, NEW cmd \in Commanded, NEW b \in Blockers, NEW c \in Config,
           c.copy = mem.state, "daemon" \in c.marks,
           "stale" \notin c.marks /\ mem.state = "DISARMED" => "armed" \notin c.marks
    PROVE  \E d \in Config : Leads(cmd, HooksHaltSteps(b), c, d)
  <1>0. mem.state \in States /\ {b} \in BlockerSets /\ {} \in BlockerSets
    BY NowIs DEF RuntimeRow, BlockerSets
  <1>s. {"STARTING", "HALTED"} \subseteq States
    BY DEF States
  <1>1. CASE mem.state \in {"HALTED", "STOPPING"}
    BY <1>1, LeadsNowhere DEF HooksHaltSteps
  <1>2. CASE mem.state = "DISARMED"
    <2>1. PICK d1 \in Config : /\ Leads(cmd, <<HookSave("STARTING", {})>>, c, d1)
                               /\ "stale" \notin c.marks => d1.copy = "STARTING"
                               /\ "daemon" \in d1.marks
                               /\ "stale" \in d1.marks <=> "stale" \in c.marks
      BY <1>0, <1>2, <1>s, LegalMoves, DoesHook
    <2>2. PICK d2 \in Config : Leads(cmd, <<HookSave("HALTED", {b})>>, d1, d2)
      <3>1. "stale" \notin d1.marks => Legal(d1.copy, "HALTED")
        BY <1>s, <2>1, LegalMoves
      <3>2. ~Disarms("HALTED")
        BY DEF Disarms
      <3>3. "HALTED" \in States /\ "daemon" \in d1.marks
        BY <1>s, <2>1
      <3>. QED  BY <1>0, <3>1, <3>2, <3>3, DoesHook
    <2>3. HookSave("STARTING", {}) \in Step /\ HookSave("HALTED", {b}) \in Step
      BY <1>0, <1>s, Steps
    <2>4. Leads(cmd, <<HookSave("STARTING", {}), HookSave("HALTED", {b})>>, c, d2)
      BY <2>1, <2>2, <2>3, LeadsPair
    <2>. QED  BY <1>2, <2>2, <2>4 DEF HooksHaltSteps
  <1>3. CASE mem.state \notin {"HALTED", "STOPPING", "DISARMED"}
    <2>1. Legal(mem.state, "HALTED") /\ ~Disarms("HALTED")
      BY <1>0, <1>3, LegalMoves DEF Disarms
    <2>2. PICK d \in Config : Leads(cmd, <<HookSave("HALTED", {b})>>, c, d)
      BY <1>0, <1>s, <2>1, DoesHook
    <2>. QED  BY <1>3, <2>2 DEF HooksHaltSteps
  <1>. QED  BY <1>1, <1>2, <1>3

LEMMA CommandIs ==
    ASSUME TypeOK
    PROVE  command \in Commanded
  BY DEF TypeOK, Commanded

\* HALT (runtime_control.py halt handler): the evidence is there afterwards.
LEMMA HaltLeads ==
    ASSUME ReqAssumption, TypeOK, NEW cmd \in Commanded, NEW r \in Req
    PROVE  \E d \in Config : Leads(cmd, HaltSteps(r), Now, d) /\ r \in d.done
  <1>. DEFINE b == {"KILL_SWITCH"} \cup IF rt.state \in {"STOPPING", "DISARMED"} THEN {} ELSE rt.blockers
  <1>0. rt \in RuntimeRow /\ b \in BlockerSets
    BY NowIs DEF RuntimeRow, BlockerSets, Blockers
  <1>. HIDE DEF b
  <1>1. PICK d0 \in Config : /\ Leads(cmd, <<Revoke>>, Now, d0) /\ "armed" \notin d0.marks
                             /\ d0.row = rt.state
    BY NowIs, DoesRevoke
  <1>2. PICK d1 \in Config : Leads(cmd, ToHalted(rt, b), d0, d1) /\ "armed" \notin d1.marks
    BY <1>0, <1>1, ToHaltedLeads
  <1>3. PICK d2 \in Config : Leads(cmd, <<Trip(r)>>, d1, d2) /\ r \in d2.done
    BY <1>2, DoesTrip
  <1>4. Leads(cmd, <<Revoke>> \o ToHalted(rt, b), Now, d1)
    BY <1>1, <1>2, LeadsThrough
  <1>5. Leads(cmd, (<<Revoke>> \o ToHalted(rt, b)) \o <<Trip(r)>>, Now, d2)
    BY <1>3, <1>4, LeadsThrough
  <1>. QED  BY <1>3, <1>5 DEF HaltSteps, b

\* The operator's halt (operations.py _halt).
LEMMA OperatorHaltLeads ==
    ASSUME ReqAssumption, TypeOK, NEW cmd \in Commanded
    PROVE  \E d \in Config :
             Leads(cmd, <<Revoke>> \o ToHalted(rt, rt.blockers \cup {"KILL_SWITCH"}) \o <<Trip(NoReq)>>,
                   Now, d)
  <1>. DEFINE b == rt.blockers \cup {"KILL_SWITCH"}
  <1>0. rt \in RuntimeRow /\ b \in BlockerSets
    BY NowIs DEF RuntimeRow, BlockerSets, Blockers
  <1>. HIDE DEF b
  <1>1. PICK d0 \in Config : /\ Leads(cmd, <<Revoke>>, Now, d0) /\ "armed" \notin d0.marks
                             /\ d0.row = rt.state
    BY NowIs, DoesRevoke
  <1>2. PICK d1 \in Config : Leads(cmd, ToHalted(rt, b), d0, d1) /\ "armed" \notin d1.marks
    BY <1>0, <1>1, ToHaltedLeads
  <1>3. PICK d2 \in Config : Leads(cmd, <<Trip(NoReq)>>, d1, d2)
    BY <1>2, DoesTrip
  <1>4. Leads(cmd, <<Revoke>> \o ToHalted(rt, b), Now, d1)
    BY <1>1, <1>2, LeadsThrough
  <1>5. Leads(cmd, (<<Revoke>> \o ToHalted(rt, b)) \o <<Trip(NoReq)>>, Now, d2)
    BY <1>3, <1>4, LeadsThrough
  <1>. QED  BY <1>3, <1>5 DEF b

\* DISARM, by a request or by the operator (runtime_control.py, operations.py _disarm).
LEMMA DisarmLeads ==
    ASSUME ReqAssumption, TypeOK, NEW cmd \in Commanded, NEW b \in BlockerSets
    PROVE  \E d \in Config : Leads(cmd, <<Revoke>> \o ToDisarmed(rt, b), Now, d)
  <1>1. PICK d0 \in Config : /\ Leads(cmd, <<Revoke>>, Now, d0) /\ "armed" \notin d0.marks
                             /\ d0.row = rt.state
    BY NowIs, DoesRevoke
  <1>2. PICK d1 \in Config : Leads(cmd, ToDisarmed(rt, b), d0, d1)
    BY <1>1, NowIs, ToDisarmedLeads
  <1>3. Leads(cmd, <<Revoke>> \o ToDisarmed(rt, b), Now, d1)
    BY <1>1, <1>2, LeadsThrough
  <1>. QED  BY <1>2, <1>3

\* A handler, the receipt and the removal of the file (control_channel.py process_pending).
LEMMA ExecuteLeads ==
    ASSUME ReqAssumption, TypeOK, NEW r \in Req, command[r] # "none"
    PROVE  \E d \in Config :
             Leads(command, HandlerSteps(r) \o <<Receipt(r, "COMPLETED"), Unlink(r)>>, Now, d)
  <1>0. command \in Commanded /\ command[r] \in Commands
    BY CommandIs DEF TypeOK
  <1>1. PICK d1 \in Config : /\ Leads(command, HandlerSteps(r), Now, d1)
                             /\ command[r] = "HALT" => r \in d1.done
    <2>1. CASE command[r] = "HALT"
      <3>1. HandlerSteps(r) = HaltSteps(r)
        BY <2>1 DEF HandlerSteps
      <3>. QED  BY <1>0, <3>1, HaltLeads
    <2>2. CASE command[r] = "DISARM"
      <3>1. HandlerSteps(r) = DisarmSteps
        BY <2>2 DEF HandlerSteps
      <3>2. KillSwitch(rt.blockers) \in BlockerSets
        BY DEF KillSwitch, BlockerSets, Blockers
      <3>3. \E d \in Config : Leads(command, DisarmSteps, Now, d)
        BY <1>0, <3>2, DisarmLeads DEF DisarmSteps
      <3>. QED  BY <2>2, <3>1, <3>3
    <2>3. CASE command[r] = "STOP"
      <3>1. HandlerSteps(r) = StopSteps
        BY <2>3 DEF HandlerSteps
      <3>. QED  BY <1>0, <2>3, <3>1, StopLeads
    <2>4. CASE command[r] = "CANCEL_SYSTEM_ORDERS"
      <3>1. HandlerSteps(r) = <<>>
        BY <2>4 DEF HandlerSteps
      <3>. QED  BY <2>4, <3>1, NowIs, LeadsNowhere
    <2>. QED  BY <1>0, <2>1, <2>2, <2>3, <2>4 DEF Commands
  <1>2. PICK d2 \in Config : Leads(command, <<Receipt(r, "COMPLETED"), Unlink(r)>>, d1, d2)
    BY <1>0, <1>1, DoesAnswer
  <1>. QED  BY <1>1, <1>2, LeadsThrough

\* The stop is finished (production_daemon.py, operations.py _stop).
LEMMA FinalizeLeads ==
    ASSUME ReqAssumption, TypeOK, ArmedOnlyWhileRunning, NEW cmd \in Commanded
    PROVE  \E d \in Config : Leads(cmd, FinalizeSteps, Now, d)
  <1>1. CASE rt.state = "STOPPING"
    <2>0. KillSwitch(rt.blockers) \in BlockerSets /\ "DISARMED" \in States
      BY DEF KillSwitch, BlockerSets, Blockers, States
    <2>1. Now \in Config /\ Legal(Now.row, "DISARMED") /\ "armed" \notin Now.marks
      BY <1>1, NowIs, LegalMoves DEF ArmedOnlyWhileRunning
    <2>2. \E d \in Config : Leads(cmd, <<Save("DISARMED", KillSwitch(rt.blockers))>>, Now, d)
      BY <2>0, <2>1, DoesSave
    <2>. QED  BY <1>1, <2>2 DEF FinalizeSteps
  <1>2. CASE rt.state # "STOPPING"
    BY <1>2, NowIs, LeadsNowhere DEF FinalizeSteps
  <1>. QED  BY <1>1, <1>2

\* hooks.halt, as things are.
LEMMA HooksHaltNow ==
    ASSUME ReqAssumption, TypeOK, HolderInv, ArmedOnlyWhileRunning, holder = "daemon",
           NEW cmd \in Commanded, NEW b \in Blockers
    PROVE  \E d \in Config : Leads(cmd, HooksHaltSteps(b), Now, d)
  <1>1. Now \in Config /\ Now.copy = mem.state /\ "daemon" \in Now.marks
    BY NowIs
  <1>2. "stale" \notin Now.marks /\ mem.state = "DISARMED" => "armed" \notin Now.marks
    BY NowIs DEF HolderInv, ArmedOnlyWhileRunning
  <1>. QED  BY <1>1, <1>2, HooksHaltLeads

\* A clock discontinuity: the internal STOP, then hooks.halt.
LEMMA ClockLeads ==
    ASSUME ReqAssumption, TypeOK, holder = "daemon", NEW cmd \in Commanded
    PROVE  \E d \in Config : Leads(cmd, StopSteps \o HooksHaltSteps("CLOCK"), Now, d)
  <1>0. "CLOCK" \in Blockers
    BY DEF Blockers
  <1>1. PICK d1 \in Config : /\ Leads(cmd, StopSteps, Now, d1)
                             /\ d1.copy = mem.state /\ "armed" \notin d1.marks
                             /\ "daemon" \in d1.marks
    BY StopLeads
  <1>2. PICK d2 \in Config : Leads(cmd, HooksHaltSteps("CLOCK"), d1, d2)
    BY <1>0, <1>1, HooksHaltLeads
  <1>. QED  BY <1>1, <1>2, LeadsThrough

\* One save of the hooks that needs no arm lease revoked.
LEMMA HookLeads ==
    ASSUME ReqAssumption, TypeOK, holder = "daemon", NEW cmd \in Commanded,
           NEW s \in States, NEW b \in BlockerSets, ~Disarms(s), ~stale => Legal(mem.state, s)
    PROVE  \E d \in Config : /\ Leads(cmd, <<HookSave(s, b)>>, Now, d)
                             /\ "stale" \notin d.marks => d.copy = s
  <1>1. /\ Now \in Config /\ "daemon" \in Now.marks
        /\ "stale" \notin Now.marks => Legal(Now.copy, s)
        /\ "stale" \notin Now.marks /\ Disarms(s) => "armed" \notin Now.marks
    BY NowIs
  <1>. QED  BY <1>1, DoesHook

\* Startup, up to RECONCILING (production_services.py startup).
LEMMA StartupLeads ==
    ASSUME ReqAssumption, TypeOK, HolderInv, ArmedOnlyWhileRunning, holder = "daemon",
           mem.state \notin {"HALTED", "STOPPING"}, NEW cmd \in Commanded
    PROVE  \E d \in Config :
             /\ Leads(cmd, (IF mem.state = "DISARMED" THEN <<HookSave("STARTING", {})>> ELSE <<>>)
                           \o (IF mem.state = "RECONCILING" THEN <<>>
                               ELSE <<HookSave("RECONCILING", {})>>), Now, d)
             /\ "stale" \notin d.marks => d.copy = "RECONCILING"
  <1>. DEFINE one == IF mem.state = "DISARMED" THEN <<HookSave("STARTING", {})>> ELSE <<>>
              two == IF mem.state = "RECONCILING" THEN <<>> ELSE <<HookSave("RECONCILING", {})>>
  <1>0. {} \in BlockerSets /\ {"STARTING", "RECONCILING"} \subseteq States /\ mem.state \in States
    BY NowIs DEF BlockerSets, States, RuntimeRow
  <1>n. Now \in Config /\ Now.copy = mem.state /\ "daemon" \in Now.marks
    BY NowIs
  <1>1. PICK d1 \in Config : /\ Leads(cmd, one, Now, d1) /\ "daemon" \in d1.marks
                             /\ "stale" \notin d1.marks =>
                                  d1.copy = IF mem.state = "DISARMED" THEN "STARTING" ELSE mem.state
    <2>1. CASE mem.state = "DISARMED"
      <3>1. /\ "stale" \notin Now.marks => Legal(Now.copy, "STARTING")
            /\ "stale" \notin Now.marks /\ Disarms("STARTING") => "armed" \notin Now.marks
        BY <2>1, NowIs, LegalMoves DEF HolderInv, ArmedOnlyWhileRunning
      <3>2. \E d \in Config : /\ Leads(cmd, <<HookSave("STARTING", {})>>, Now, d) /\ "daemon" \in d.marks
                              /\ "stale" \notin d.marks => d.copy = "STARTING"
        BY <1>0, <1>n, <3>1, DoesHook
      <3>. QED  BY <2>1, <3>2
    <2>2. CASE mem.state # "DISARMED"
      BY <1>n, <2>2, LeadsNowhere
    <2>. QED  BY <2>1, <2>2
  <1>2. PICK d2 \in Config : /\ Leads(cmd, two, d1, d2)
                             /\ "stale" \notin d2.marks => d2.copy = "RECONCILING"
    <2>1. CASE mem.state = "RECONCILING"
      BY <1>1, <2>1, LeadsNowhere
    <2>2. CASE mem.state # "RECONCILING"
      <3>1. /\ "stale" \notin d1.marks => Legal(d1.copy, "RECONCILING")
            /\ ~Disarms("RECONCILING")
        BY <1>0, <1>1, LegalMoves DEF Disarms, InService
      <3>2. \E d \in Config : /\ Leads(cmd, <<HookSave("RECONCILING", {})>>, d1, d)
                              /\ "stale" \notin d.marks => d.copy = "RECONCILING"
        BY <1>0, <1>1, <3>1, DoesHook
      <3>. QED  BY <2>2, <3>2
    <2>. QED  BY <2>1, <2>2
  <1>3. Leads(cmd, one \o two, Now, d2)
    BY <1>1, <1>2, LeadsThrough
  <1>. QED  BY <1>2, <1>3

\* A reconciliation by an operator or of a configured rehearsal (operations.py _reconcile).
LEMMA ReconcileLeads ==
    ASSUME ReqAssumption, TypeOK, ArmedOnlyWhileRunning, rt.state # "STOPPING", holder # "daemon",
           NEW cmd \in Commanded, NEW ks \in BOOLEAN, NEW h \in BOOLEAN
    PROVE  \E d \in Config :
             Leads(cmd, (IF rt.state = "DISARMED" THEN <<Save("STARTING", {})>> ELSE <<>>)
                        \o (IF rt.state = "RECONCILING" THEN <<>> ELSE <<Save("RECONCILING", {})>>)
                        \o <<Reconcile("reconcile", ks, h)>>, Now, d)
  <1>. DEFINE one == IF rt.state = "DISARMED" THEN <<Save("STARTING", {})>> ELSE <<>>
              two == IF rt.state = "RECONCILING" THEN <<>> ELSE <<Save("RECONCILING", {})>>
  <1>0. {} \in BlockerSets /\ {"STARTING", "RECONCILING"} \subseteq States /\ rt.state \in States
    BY NowIs DEF BlockerSets, States, RuntimeRow
  <1>n. Now \in Config /\ Now.row = rt.state /\ "daemon" \notin Now.marks
    BY NowIs
  <1>1. PICK d1 \in Config : /\ Leads(cmd, one, Now, d1) /\ "daemon" \notin d1.marks
                             /\ d1.row = IF rt.state = "DISARMED" THEN "STARTING" ELSE rt.state
    <2>1. CASE rt.state = "DISARMED"
      <3>1. Legal(Now.row, "STARTING") /\ (Disarms("STARTING") => "armed" \notin Now.marks)
        BY <2>1, NowIs, LegalMoves DEF ArmedOnlyWhileRunning
      <3>2. \E d \in Config : /\ Leads(cmd, <<Save("STARTING", {})>>, Now, d) /\ d.row = "STARTING"
                              /\ "daemon" \notin d.marks
        BY <1>0, <1>n, <3>1, DoesSave
      <3>. QED  BY <2>1, <3>2
    <2>2. CASE rt.state # "DISARMED"
      BY <1>n, <2>2, LeadsNowhere
    <2>. QED  BY <2>1, <2>2
  <1>2. PICK d2 \in Config : /\ Leads(cmd, two, d1, d2) /\ d2.row = "RECONCILING"
                             /\ "daemon" \notin d2.marks
    <2>1. CASE rt.state = "RECONCILING"
      BY <1>1, <2>1, LeadsNowhere
    <2>2. CASE rt.state # "RECONCILING"
      <3>1. Legal(d1.row, "RECONCILING") /\ ~Disarms("RECONCILING")
        BY <1>0, <1>1, LegalMoves DEF Disarms, InService
      <3>2. \E d \in Config : /\ Leads(cmd, <<Save("RECONCILING", {})>>, d1, d)
                              /\ d.row = "RECONCILING" /\ "daemon" \notin d.marks
        BY <1>0, <1>1, <3>1, DoesSave
      <3>. QED  BY <2>2, <3>2
    <2>. QED  BY <2>1, <2>2
  <1>3. PICK d3 \in Config : Leads(cmd, <<Reconcile("reconcile", ks, h)>>, d2, d3)
    BY <1>2, DoesReconcile
  <1>4. Leads(cmd, one \o two, Now, d2)
    BY <1>1, <1>2, LeadsThrough
  <1>5. Leads(cmd, (one \o two) \o <<Reconcile("reconcile", ks, h)>>, Now, d3)
    BY <1>3, <1>4, LeadsThrough
  <1>. QED  BY <1>3, <1>5

\* The operator's resume (operations.py _resume).
LEMMA ResumeLeads ==
    ASSUME ReqAssumption, TypeOK, rt.state = "HALTED", holder # "daemon",
           NEW cmd \in Commanded, NEW ks \in BOOLEAN
    PROVE  \E d \in Config :
             Leads(cmd, <<Revoke, Save("RECONCILING", {}), Reconcile("resume", ks, TRUE)>>, Now, d)
  <1>0. {} \in BlockerSets /\ "RECONCILING" \in States /\ "HALTED" \in States
    BY DEF BlockerSets, States
  <1>1. PICK d0 \in Config : /\ Leads(cmd, <<Revoke>>, Now, d0) /\ d0.row = rt.state
                             /\ "daemon" \notin d0.marks
    BY NowIs, DoesRevoke
  <1>2. Legal(d0.row, "RECONCILING") /\ ~Disarms("RECONCILING")
    BY <1>0, <1>1, LegalMoves DEF Disarms, InService
  <1>3. PICK d1 \in Config : /\ Leads(cmd, <<Save("RECONCILING", {})>>, d0, d1)
                             /\ d1.row = "RECONCILING" /\ "daemon" \notin d1.marks
    BY <1>0, <1>1, <1>2, DoesSave
  <1>4. PICK d2 \in Config : Leads(cmd, <<Reconcile("resume", ks, TRUE)>>, d1, d2)
    BY <1>3, DoesReconcile
  <1>5. Revoke \in Step /\ Save("RECONCILING", {}) \in Step /\ Reconcile("resume", ks, TRUE) \in Step
    BY <1>0, Steps
  <1>. QED  BY <1>1, <1>3, <1>4, <1>5, LeadsTriple

\* Loading a file of the inbox.
LEMMA LoadLeads ==
    ASSUME ReqAssumption, TypeOK, NEW r \in Req, NEW s, command[r] # "none", ~Collides(r, s)
    PROVE  \E d \in Config : Leads(command, LoadSteps(r, s), Now, d)
  <1>0. command \in Commanded /\ Now \in Config
    BY CommandIs, NowIs
  <1>1. CASE s = "expired"
    <2>1. \E d \in Config : Leads(command, <<Receipt(r, "REJECTED"), Unlink(r)>>, Now, d)
      BY <1>0, DoesAnswer
    <2>. QED  BY <1>1, <2>1 DEF LoadSteps, Collides
  <1>2. CASE s # "expired" /\ receipt[r] # "none"
    <2>1. \E d \in Config : Leads(command, <<Unlink(r)>>, Now, d)
      BY <1>0, <1>2, NowIs, DoesUnlink
    <2>. QED  BY <1>2, <2>1 DEF LoadSteps
  <1>3. CASE s # "expired" /\ receipt[r] = "none"
    BY <1>0, <1>3, LeadsNowhere DEF LoadSteps
  <1>. QED  BY <1>1, <1>2, <1>3

\* However a reconciliation ends, its continuation can be done.
LEMMA OutcomeLeads ==
    ASSUME ReqAssumption, NEW cmd \in Commanded, NEW c \in Config, c.row = "RECONCILING",
           NEW t \in Step, t.op = "reconcile", NEW s \in Outcomes(t)
    PROVE  \E d \in Config : Leads(cmd, s, c, d)
  <1>0. {"READY", "HALTED", "RECONCILING"} \subseteq States
        /\ \A b \in {{}, {"OTHER"}, {"KILL_SWITCH"}, {"OTHER", "KILL_SWITCH"}} : b \in BlockerSets
    BY DEF States, BlockerSets, Blockers
  <1>1. Legal(c.row, "READY") /\ Legal(c.row, "HALTED") /\ ~Disarms("READY") /\ ~Disarms("HALTED")
    BY <1>0, LegalMoves DEF Disarms, InService
  <1>2. \A b \in BlockerSets : \E d \in Config : Leads(cmd, <<Save("HALTED", b)>>, c, d)
    BY <1>0, <1>1, DoesSave
  <1>3. \E d \in Config : Leads(cmd, <<Save("READY", {})>>, c, d)
    BY <1>0, <1>1, DoesSave
  <1>4. \E d \in Config : Leads(cmd, <<Reset, Save("READY", {})>>, c, d)
    <2>1. PICK d1 \in Config : Leads(cmd, <<Reset>>, c, d1) /\ d1.row = c.row
      BY DoesReset
    <2>2. PICK d2 \in Config : Leads(cmd, <<Save("READY", {})>>, d1, d2)
      BY <1>0, <1>1, <2>1, DoesSave
    <2>3. Reset \in Step /\ Save("READY", {}) \in Step
      BY <1>0, Steps
    <2>. QED  BY <2>1, <2>2, <2>3, LeadsPair
  <1>5. t.kind \in {"resume", "reconcile"}
    BY DEF Step
  <1>6. \/ s = <<Reset, Save("READY", {})>> \/ s = <<Save("READY", {})>>
        \/ \E b \in BlockerSets : s = <<Save("HALTED", b)>>
    <2>1. CASE t.kind = "resume"
      <3>1. \/ s = <<Reset, Save("READY", {})>> \/ s = <<Save("READY", {})>>
            \/ s = <<Save("HALTED", {"OTHER"} \cup IF t.ks THEN {"KILL_SWITCH"} ELSE {})>>
        BY <2>1 DEF Outcomes
      <3>2. ({"OTHER"} \cup IF t.ks THEN {"KILL_SWITCH"} ELSE {}) \in BlockerSets
        BY DEF BlockerSets, Blockers
      <3>. QED  BY <3>1, <3>2
    <2>2. CASE t.kind = "reconcile"
      <3>1. \/ s = <<Save("READY", {})>> \/ s = <<Save("HALTED", {"OTHER"})>>
            \/ s = <<Save("HALTED", (IF t.ks THEN {"KILL_SWITCH"} ELSE {})
                                    \cup IF t.halted THEN {"OTHER"} ELSE {})>>
            \/ s = <<Save("HALTED", {"OTHER"} \cup IF t.ks THEN {"KILL_SWITCH"} ELSE {})>>
        BY <2>2 DEF Outcomes
      <3>2. /\ ({"OTHER"} \cup IF t.ks THEN {"KILL_SWITCH"} ELSE {}) \in BlockerSets
            /\ ((IF t.ks THEN {"KILL_SWITCH"} ELSE {}) \cup IF t.halted THEN {"OTHER"} ELSE {})
                    \in BlockerSets
        BY DEF BlockerSets, Blockers
      <3>. QED  BY <1>0, <3>1, <3>2
    <2>. QED  BY <1>5, <2>1, <2>2
  <1>. QED  BY <1>2, <1>3, <1>4, <1>6

-----------------------------------------------------------------------------
(* The transactions preserve the invariant.                                *)

LEMMA NextUp ==
    ASSUME TodoInv, todo # <<>>
    PROVE  /\ Next1 \in Step /\ Tail(todo) \in Seq(Step) /\ Guard(command, Next1, Now)
           /\ \E d \in Config : RunsTo(command, Tail(todo), After(Next1, Now), d) /\ EndInv(d)
  <1>1. PICK d \in Config : RunsTo(command, todo, Now, d) /\ EndInv(d)
    BY DEF TodoInv
  <1>2. todo \in Seq(Step)
    BY DEF TodoInv
  <1>. QED  BY <1>1, <1>2, RunsTail DEF Next1

LEMMA Continues ==
    ASSUME TodoInv, todo # <<>>, Done1, command' = command, phase' = phase, Now' = After(Next1, Now)
    PROVE  TodoInv'
  <1>1. PICK d \in Config : RunsTo(command, Tail(todo), After(Next1, Now), d) /\ EndInv(d)
    BY NextUp
  <1>2. todo' \in Seq(Step)
    BY NextUp DEF Done1
  <1>3. EndInv(d)'
    BY <1>1 DEF EndInv
  <1>4. RunsTo(command', todo', Now', d)
    BY <1>1 DEF Done1
  <1>. QED  BY <1>2, <1>3, <1>4 DEF TodoInv

LEMMA SaveStep ==
    ASSUME ControlInv, DoSave
    PROVE  ControlInv'
  <1>. USE DEF ControlInv
  <1>0. /\ todo # <<>> /\ Next1.op = "save" /\ Done1 /\ stale' = (holder = "daemon")
        /\ rt' = [state |-> Next1.state, blockers |-> Next1.blockers]
        /\ armed' = (armed /\ Next1.state # "HALTED")
        /\ owed' = CASE Next1.state = "HALTED" -> TRUE
                     [] Next1.state = "DISARMED" -> FALSE
                     [] OTHER -> owed
        /\ UNCHANGED <<event, evidence, startupPassed, command, inbox, receipt, holder, phase,
                       entries, pending, flags, mem>>
    BY DEF DoSave, Busy, Commit, files, batchVars
  <1>1. Next1 \in Step /\ Guard(command, Next1, Now)
    BY <1>0, NextUp
  <1>2. Next1.state \in States /\ Next1.blockers \in SUBSET Blockers
    BY <1>0, <1>1 DEF Step
  <1>3. Disarms(Next1.state) => ~armed
    BY <1>0, <1>1, NowIs DEF Guard, Commits
  <1>4. Now' = After(Next1, Now)
    <2>1. Now.row = rt.state /\ Now.copy = mem.state /\ Now.done = evidence
          /\ Now.answered = {r \in Req : receipt[r] # "none"}
      BY DEF Now
    <2>2. rt'.state = Next1.state
      BY <1>0
    <2>3. {m \in Marks : \/ m = "armed" /\ armed'
                         \/ m = "stale" /\ stale'
                         \/ m = "daemon" /\ holder' = "daemon"}
          = {m \in Marks :
                CASE m = "armed" -> /\ m \in Now.marks /\ Next1.op # "revoke"
                                    /\ ~(Commits(Next1, Now) /\ Next1.state = "HALTED")
                  [] m = "stale" -> IF Next1.op = "save" THEN "daemon" \in Now.marks ELSE m \in Now.marks
                  [] OTHER -> m \in Now.marks}
      BY <1>0, NowIs DEF Marks, Commits
    <2>. QED  BY <1>0, <2>1, <2>2, <2>3 DEF Now, After, Commits
  <1>5. TypeOK'
    <2>1. rt' \in [state : States, blockers : SUBSET Blockers]
      BY <1>0, <1>2
    <2>2. armed' \in BOOLEAN /\ stale' \in BOOLEAN /\ owed' \in BOOLEAN
      BY <1>0 DEF TypeOK
    <2>. QED  BY <1>0, <2>1, <2>2 DEF TypeOK
  <1>6. HolderInv'
    BY <1>0 DEF HolderInv
  <1>7. TodoInv'
    BY <1>0, <1>4, Continues
  <1>8. RequestInv'
    BY <1>0 DEF RequestInv
  <1>9. ArmedOnlyWhileRunning'
    BY <1>0, <1>2, <1>3 DEF ArmedOnlyWhileRunning, Disarms, InService
  <1>10. ArmedIsUntripped' /\ HaltReceiptIsEvidence'
    BY <1>0 DEF ArmedIsUntripped, HaltReceiptIsEvidence
  <1>. QED  BY <1>5, <1>6, <1>7, <1>8, <1>9, <1>10

LEMMA HookSaveStep ==
    ASSUME ControlInv, DoHookSave
    PROVE  ControlInv'
  <1>. USE DEF ControlInv
  <1>0. /\ todo # <<>> /\ Next1.op = "hook"
        /\ UNCHANGED <<event, evidence, startupPassed, command, inbox, receipt, holder, phase,
                       entries, pending, flags, stale>>
    BY DEF DoHookSave, Busy, files, batchVars, durable
  <1>1. Next1 \in Step /\ Guard(command, Next1, Now)
    BY <1>0, NextUp
  <1>2. Next1.state \in States /\ Next1.blockers \in SUBSET Blockers
    BY <1>0, <1>1 DEF Step
  <1>3. holder = "daemon"
    BY <1>0, <1>1, NowIs DEF Guard
  <1>4. CASE stale
    <2>1. todo' = <<>> /\ UNCHANGED <<rt, armed, owed, mem>>
      BY <1>4 DEF DoHookSave, durable
    <2>2. Now' = Now /\ Now \in Config /\ command' \in Commanded
      BY <1>0, <2>1, NowIs, CommandIs DEF Now
    <2>3. EndInv(Now)'
      BY <1>0, <1>4, <2>2, NowIs DEF EndInv
    <2>4. TodoInv'
      <3>1. RunsTo(command', <<>>, Now, Now)
        BY <2>2, RunsEmpty
      <3>2. <<>> \in Seq(Step)
        OBVIOUS
      <3>. QED  BY <2>1, <2>2, <2>3, <3>1, <3>2 DEF TodoInv
    <2>5. TypeOK' /\ RequestInv' /\ HaltReceiptIsEvidence'
      BY <1>0, <2>1 DEF TypeOK, RequestInv, HaltReceiptIsEvidence
    <2>6. HolderInv' /\ ArmedOnlyWhileRunning' /\ ArmedIsUntripped'
      BY <1>0, <2>1 DEF HolderInv, ArmedOnlyWhileRunning, ArmedIsUntripped
    <2>. QED  BY <2>4, <2>5, <2>6
  <1>5. CASE ~stale
    <2>0. /\ Done1
          /\ rt' = [state |-> Next1.state, blockers |-> Next1.blockers] /\ mem' = rt'
          /\ armed' = (armed /\ Next1.state # "HALTED")
          /\ owed' = CASE Next1.state = "HALTED" -> TRUE
                       [] Next1.state = "DISARMED" -> FALSE
                       [] OTHER -> owed
      BY <1>5 DEF DoHookSave, Commit
    <2>3. Disarms(Next1.state) => ~armed
      BY <1>0, <1>1, <1>5, NowIs DEF Guard, Commits
    <2>4. Now' = After(Next1, Now)
      <3>0. "stale" \notin Now.marks /\ "daemon" \in Now.marks /\ ("armed" \in Now.marks <=> armed)
        BY <1>3, <1>5, NowIs
      <3>1. Now.done = evidence /\ Now.answered = {r \in Req : receipt[r] # "none"}
        BY DEF Now
      <3>2. rt'.state = Next1.state /\ mem'.state = Next1.state
        BY <2>0
      <3>3. {m \in Marks : \/ m = "armed" /\ armed'
                           \/ m = "stale" /\ stale'
                           \/ m = "daemon" /\ holder' = "daemon"}
            = {m \in Marks :
                  CASE m = "armed" -> /\ m \in Now.marks /\ Next1.op # "revoke"
                                      /\ ~(Commits(Next1, Now) /\ Next1.state = "HALTED")
                    [] m = "stale" -> IF Next1.op = "save" THEN "daemon" \in Now.marks
                                      ELSE m \in Now.marks
                    [] OTHER -> m \in Now.marks}
        BY <1>0, <1>3, <1>5, <2>0, <3>0 DEF Marks, Commits
      <3>. QED  BY <1>0, <3>0, <3>1, <3>2, <3>3 DEF Now, After, Commits
    <2>5. TypeOK'
      <3>1. rt' \in [state : States, blockers : SUBSET Blockers]
        BY <1>2, <2>0
      <3>2. armed' \in BOOLEAN /\ stale' \in BOOLEAN /\ owed' \in BOOLEAN
        BY <1>0, <2>0 DEF TypeOK
      <3>. QED  BY <1>0, <2>0, <3>1, <3>2 DEF TypeOK
    <2>6. HolderInv'
      BY <1>0, <1>3, <2>0 DEF HolderInv, Phases, OfDaemon
    <2>7. TodoInv'
      BY <1>0, <2>0, <2>4, Continues
    <2>8. RequestInv'
      BY <1>0 DEF RequestInv
    <2>9. ArmedOnlyWhileRunning'
      BY <1>2, <2>0, <2>3 DEF ArmedOnlyWhileRunning, Disarms, InService
    <2>10. ArmedIsUntripped' /\ HaltReceiptIsEvidence'
      BY <1>0, <2>0 DEF ArmedIsUntripped, HaltReceiptIsEvidence
    <2>. QED  BY <2>5, <2>6, <2>7, <2>8, <2>9, <2>10
  <1>. QED  BY <1>4, <1>5

LEMMA RevokeStep ==
    ASSUME ControlInv, DoRevoke
    PROVE  ControlInv'
  <1>. USE DEF ControlInv
  <1>0. /\ todo # <<>> /\ Next1.op = "revoke" /\ Done1 /\ armed' = FALSE
        /\ UNCHANGED <<rt, event, evidence, startupPassed, owed, command, inbox, receipt, holder,
                       phase, entries, pending, flags, mem, stale>>
    BY DEF DoRevoke, Busy, files, batchVars
  <1>1. Now' = After(Next1, Now)
    <2>1. /\ Now.row = rt.state /\ Now.copy = mem.state /\ Now.done = evidence
          /\ Now.answered = {r \in Req : receipt[r] # "none"} /\ ~Commits(Next1, Now)
      BY <1>0 DEF Now, Commits
    <2>2. {m \in Marks : \/ m = "armed" /\ armed'
                         \/ m = "stale" /\ stale'
                         \/ m = "daemon" /\ holder' = "daemon"}
          = {m \in Marks :
                CASE m = "armed" -> /\ m \in Now.marks /\ Next1.op # "revoke"
                                    /\ ~(Commits(Next1, Now) /\ Next1.state = "HALTED")
                  [] m = "stale" -> IF Next1.op = "save" THEN "daemon" \in Now.marks ELSE m \in Now.marks
                  [] OTHER -> m \in Now.marks}
      BY <1>0, <2>1, NowIs DEF Marks
    <2>. QED  BY <1>0, <2>1, <2>2 DEF Now, After
  <1>2. TodoInv'
    BY <1>0, <1>1, Continues
  <1>3. TypeOK' /\ RequestInv' /\ HaltReceiptIsEvidence'
    BY <1>0 DEF TypeOK, RequestInv, HaltReceiptIsEvidence
  <1>4. HolderInv'
    BY <1>0 DEF HolderInv
  <1>5. ArmedOnlyWhileRunning' /\ ArmedIsUntripped'
    BY <1>0 DEF ArmedOnlyWhileRunning, ArmedIsUntripped
  <1>. QED  BY <1>2, <1>3, <1>4, <1>5

\* A transaction that leaves the row, the copy and the arm lease alone keeps the marks.
LEMMA SameMarks ==
    ASSUME TypeOK, NEW x, x.op \in {"trip", "reset", "receipt", "unlink"},
           UNCHANGED <<rt, mem, armed, stale, holder>>
    PROVE  /\ After(x, Now).marks = Now'.marks
           /\ After(x, Now).row = Now'.row /\ After(x, Now).copy = Now'.copy
           /\ ~Commits(x, Now)
  <1>1. ~Commits(x, Now)
    BY DEF Commits
  <1>2. Now'.row = rt.state /\ Now'.copy = mem.state /\ Now.row = rt.state /\ Now.copy = mem.state
    BY DEF Now
  <1>3. Now'.marks = Now.marks /\ Now.marks \subseteq Marks
    BY DEF Now
  <1>4. After(x, Now).row = Now.row /\ After(x, Now).copy = Now.copy
    BY <1>1 DEF After
  <1>5. \A m \in Marks : m \in After(x, Now).marks <=> m \in Now.marks
    BY <1>1 DEF After, Marks
  <1>6. After(x, Now).marks \subseteq Marks
    BY DEF After
  <1>. QED  BY <1>1, <1>2, <1>3, <1>4, <1>5, <1>6

\* Configurations with the same fields are the same.
LEMMA SameConfig ==
    ASSUME NEW x, x.op \in {"trip", "reset", "receipt", "unlink"},
           After(x, Now).marks = Now'.marks, After(x, Now).row = Now'.row,
           After(x, Now).copy = Now'.copy, After(x, Now).done = Now'.done,
           After(x, Now).answered = Now'.answered
    PROVE  Now' = After(x, Now)
  BY DEF After, Now

LEMMA TripStep ==
    ASSUME ControlInv, DoTrip
    PROVE  ControlInv'
  <1>. USE DEF ControlInv
  <1>0. /\ todo # <<>> /\ Next1.op = "trip" /\ Done1
        /\ event' = (IF Next1.req \in evidence THEN event ELSE "TRIPPED")
        /\ evidence' = evidence \cup ({Next1.req} \cap Req)
        /\ UNCHANGED <<rt, armed, startupPassed, owed, command, inbox, receipt, holder, phase,
                       entries, pending, flags, mem, stale>>
    BY DEF DoTrip, Busy, files, batchVars
  <1>1. ~armed
    BY <1>0, NextUp, NowIs DEF Guard
  <1>2. Now' = After(Next1, Now)
    <2>1. After(Next1, Now).done = Now'.done /\ After(Next1, Now).answered = Now'.answered
      BY <1>0 DEF After, Now
    <2>. QED  BY <1>0, <2>1, SameMarks, SameConfig
  <1>3. TodoInv'
    BY <1>0, <1>2, Continues
  <1>4. TypeOK'
    BY <1>0 DEF TypeOK
  <1>5. RequestInv' /\ HaltReceiptIsEvidence'
    BY <1>0 DEF RequestInv, HaltReceiptIsEvidence
  <1>6. HolderInv'
    BY <1>0 DEF HolderInv
  <1>7. ArmedOnlyWhileRunning' /\ ArmedIsUntripped'
    BY <1>0, <1>1 DEF ArmedOnlyWhileRunning, ArmedIsUntripped
  <1>. QED  BY <1>3, <1>4, <1>5, <1>6, <1>7

LEMMA ResetStep ==
    ASSUME ControlInv, DoReset
    PROVE  ControlInv'
  <1>. USE DEF ControlInv
  <1>0. /\ todo # <<>> /\ Next1.op = "reset" /\ Done1 /\ event' = "RESET"
        /\ UNCHANGED <<rt, armed, evidence, startupPassed, owed, command, inbox, receipt, holder,
                       phase, entries, pending, flags, mem, stale>>
    BY DEF DoReset, Busy, files, batchVars
  <1>1. Now' = After(Next1, Now)
    <2>1. After(Next1, Now).done = Now'.done /\ After(Next1, Now).answered = Now'.answered
      BY <1>0 DEF After, Now
    <2>. QED  BY <1>0, <2>1, SameMarks, SameConfig
  <1>2. TodoInv'
    BY <1>0, <1>1, Continues
  <1>3. TypeOK' /\ RequestInv' /\ HaltReceiptIsEvidence'
    BY <1>0 DEF TypeOK, RequestInv, HaltReceiptIsEvidence
  <1>4. HolderInv'
    BY <1>0 DEF HolderInv
  <1>5. ArmedOnlyWhileRunning' /\ ArmedIsUntripped'
    BY <1>0 DEF ArmedOnlyWhileRunning, ArmedIsUntripped
  <1>. QED  BY <1>2, <1>3, <1>4, <1>5

LEMMA ReceiptStep ==
    ASSUME ControlInv, DoReceipt
    PROVE  ControlInv'
  <1>. USE DEF ControlInv
  <1>0. /\ todo # <<>> /\ Next1.op = "receipt" /\ Done1
        /\ receipt' = [receipt EXCEPT ![Next1.req] = Next1.status]
        /\ UNCHANGED <<rt, armed, event, evidence, startupPassed, owed, command, inbox, holder,
                       phase, entries, pending, flags, mem, stale>>
    BY DEF DoReceipt, Busy, durable, batchVars
  <1>1. Next1 \in Step /\ Guard(command, Next1, Now)
    BY <1>0, NextUp
  <1>2. Next1.req \in Req /\ Next1.status \in {"COMPLETED", "REJECTED"}
    BY <1>0, <1>1 DEF Step
  <1>3. /\ command[Next1.req] # "none"
        /\ Next1.status = "COMPLETED" /\ command[Next1.req] = "HALT" => Next1.req \in evidence
    BY <1>0, <1>1, NowIs DEF Guard
  <1>r. /\ receipt' \in [Req -> {"none", "COMPLETED", "REJECTED"}]
        /\ receipt'[Next1.req] = Next1.status
        /\ \A q \in Req : q # Next1.req => receipt'[q] = receipt[q]
    BY <1>0, <1>2 DEF TypeOK
  <1>4. Now' = After(Next1, Now)
    <2>1. After(Next1, Now).done = Now'.done
      BY <1>0 DEF After, Now
    <2>2. Now'.answered = {q \in Req : receipt'[q] # "none"} /\ Now.answered = {q \in Req : receipt[q] # "none"}
      BY DEF Now
    <2>3. After(Next1, Now).answered = Now.answered \cup {Next1.req}
      BY <1>0 DEF After
    <2>4. Now.answered \cup {Next1.req} = Now'.answered
      BY <1>2, <1>r, <2>2
    <2>5. After(Next1, Now).answered = Now'.answered
      BY <2>3, <2>4
    <2>6. /\ After(Next1, Now).marks = Now'.marks
          /\ After(Next1, Now).row = Now'.row /\ After(Next1, Now).copy = Now'.copy
      BY <1>0, SameMarks
    <2>. QED  BY <1>0, <2>1, <2>5, <2>6, SameConfig
  <1>5. TodoInv'
    BY <1>0, <1>4, Continues
  <1>6. TypeOK'
    BY <1>0, <1>r DEF TypeOK
  <1>7. RequestInv' /\ HaltReceiptIsEvidence'
    BY <1>0, <1>3, <1>r DEF RequestInv, HaltReceiptIsEvidence
  <1>8. HolderInv'
    BY <1>0 DEF HolderInv
  <1>9. ArmedOnlyWhileRunning' /\ ArmedIsUntripped'
    BY <1>0 DEF ArmedOnlyWhileRunning, ArmedIsUntripped
  <1>. QED  BY <1>5, <1>6, <1>7, <1>8, <1>9

\* The file of a request is removed only when its receipt is there.
LEMMA UnlinkAnswered ==
    ASSUME ControlInv, DoUnlink
    PROVE  Next1.req \in Req /\ receipt[Next1.req] # "none"
  <1>. USE DEF ControlInv
  <1>0. todo # <<>> /\ Next1.op = "unlink"
    BY DEF DoUnlink, Busy
  <1>1. Next1 \in Step /\ Guard(command, Next1, Now)
    BY <1>0, NextUp
  <1>2. Next1.req \in Req
    BY <1>0, <1>1 DEF Step
  <1>. QED  BY <1>0, <1>1, <1>2, NowIs DEF Guard

LEMMA UnlinkStep ==
    ASSUME ControlInv, DoUnlink
    PROVE  ControlInv'
  <1>. USE DEF ControlInv
  <1>0. /\ todo # <<>> /\ Next1.op = "unlink" /\ Done1
        /\ inbox' = [inbox EXCEPT ![Next1.req] = "none"]
        /\ UNCHANGED <<rt, armed, event, evidence, startupPassed, owed, command, receipt, holder,
                       phase, entries, pending, flags, mem, stale>>
    BY DEF DoUnlink, Busy, durable, batchVars
  <1>1. Now' = After(Next1, Now)
    <2>1. After(Next1, Now).done = Now'.done /\ After(Next1, Now).answered = Now'.answered
      BY <1>0 DEF After, Now
    <2>. QED  BY <1>0, <2>1, SameMarks, SameConfig
  <1>2. TodoInv'
    BY <1>0, <1>1, Continues
  <1>3. TypeOK' /\ RequestInv' /\ HaltReceiptIsEvidence'
    BY <1>0 DEF TypeOK, RequestInv, HaltReceiptIsEvidence
  <1>4. HolderInv'
    BY <1>0 DEF HolderInv
  <1>5. ArmedOnlyWhileRunning' /\ ArmedIsUntripped'
    BY <1>0 DEF ArmedOnlyWhileRunning, ArmedIsUntripped
  <1>. QED  BY <1>2, <1>3, <1>4, <1>5

LEMMA ReconcileStep ==
    ASSUME ReqAssumption, ControlInv, DoReconcile
    PROVE  ControlInv'
  <1>. USE DEF ControlInv
  <1>0. /\ todo # <<>> /\ Next1.op = "reconcile" /\ todo' \in Outcomes(Next1)
        /\ UNCHANGED <<rt, armed, event, evidence, startupPassed, command, inbox, receipt, holder,
                       phase, entries, pending, flags, mem, stale>>
        /\ owed' \in BOOLEAN
    BY DEF DoReconcile, Busy, files, batchVars
  <1>1. Next1 \in Step /\ Guard(command, Next1, Now)
    BY <1>0, NextUp
  <1>2. Now.row = "RECONCILING" /\ holder # "daemon" /\ Now \in Config /\ command \in Commanded
    BY <1>0, <1>1, NowIs, CommandIs DEF Guard
  <1>3. PICK d \in Config : Leads(command, todo', Now, d)
    BY <1>0, <1>1, <1>2, OutcomeLeads
  <1>4. Now' = Now
    BY <1>0 DEF Now
  <1>5. EndInv(d)'
    BY <1>0, <1>2 DEF EndInv, HolderInv, OfDaemon
  <1>6. TodoInv'
    BY <1>0, <1>3, <1>4, <1>5 DEF TodoInv, Leads
  <1>7. TypeOK' /\ RequestInv' /\ HaltReceiptIsEvidence'
    BY <1>0 DEF TypeOK, RequestInv, HaltReceiptIsEvidence
  <1>8. HolderInv'
    BY <1>0, NowIs DEF HolderInv
  <1>9. ArmedOnlyWhileRunning' /\ ArmedIsUntripped'
    BY <1>0 DEF ArmedOnlyWhileRunning, ArmedIsUntripped
  <1>. QED  BY <1>6, <1>7, <1>8, <1>9

LEMMA TransactionStep ==
    ASSUME ReqAssumption, ControlInv, Transaction
    PROVE  ControlInv'
  BY SaveStep, HookSaveStep, RevokeStep, TripStep, ResetStep, ReceiptStep, UnlinkStep, ReconcileStep
     DEF Transaction

-----------------------------------------------------------------------------
(* So does everything else.                                                *)

\* A process that plans its next transactions, or moves on without any.
LEMMA Planned ==
    ASSUME ControlInv, RequestInv',
           UNCHANGED <<rt, armed, event, evidence, owed, command, inbox, receipt, mem, stale>>,
           startupPassed' \in BOOLEAN,
           holder' = holder \/ (holder = "none" /\ holder' = "operator"), holder' # "none",
           phase' \in Phases \ {"none"}, phase' \in OfDaemon => holder' = "daemon",
           entries' \subseteq Req \X {"fresh", "expired"}, pending' \subseteq Req,
           NEW d \in Config, Leads(command, todo', Now, d), EndInv(d)'
    PROVE  ControlInv'
  <1>. USE DEF ControlInv
  <1>1. TypeOK'
    BY DEF TypeOK
  <1>2. HolderInv'
    BY DEF HolderInv, TypeOK
  <1>3. Now' = Now
    BY DEF Now
  <1>4. TodoInv'
    BY <1>3 DEF TodoInv, Leads
  <1>5. ArmedOnlyWhileRunning' /\ ArmedIsUntripped' /\ HaltReceiptIsEvidence'
    BY DEF ArmedOnlyWhileRunning, ArmedIsUntripped, HaltReceiptIsEvidence
  <1>. QED  BY <1>1, <1>2, <1>4, <1>5

\* Nothing remains to be done, whatever the configuration.
LEMMA Settled ==
    ASSUME TypeOK', todo' = <<>>, phase' \notin {"recover", "cycle"}
    PROVE  TodoInv'
  <1>1. rt' \in RuntimeRow /\ mem' \in RuntimeRow /\ evidence' \subseteq Req
    BY DEF TypeOK, RuntimeRow
  <1>2. Now' \in Config
    BY <1>1 DEF Now, Config, RuntimeRow
  <1>3. RunsTo(command', <<>>, Now', Now')
    BY <1>2, RunsEmpty
  <1>4. EndInv(Now)'
    BY DEF EndInv
  <1>5. <<>> \in Seq(Step)
    OBVIOUS
  <1>. QED  BY <1>2, <1>3, <1>4, <1>5 DEF TodoInv

\* The inbox is listed.
LEMMA ListStep ==
    ASSUME ControlInv, ListInbox
    PROVE  ControlInv'
  <1>. USE DEF ControlInv
  <1>0. /\ phase = "list" /\ todo' = <<>> /\ phase' = "load" /\ pending' = {}
        /\ entries' = {<<r, inbox[r]>> : r \in {q \in Req : inbox[q] # "none"}}
        /\ UNCHANGED <<rt, armed, event, evidence, startupPassed, owed, command, inbox, receipt,
                       holder, mem, stale>>
    BY DEF ListInbox, durable, files
  <1>1. holder # "none" /\ holder' = holder /\ phase' \in Phases \ {"none"} /\ phase' \notin OfDaemon
    BY <1>0 DEF HolderInv, Phases, OfDaemon
  <1>2. entries' \subseteq Req \X {"fresh", "expired"}
    <2>1. \A q \in Req : inbox[q] # "none" => inbox[q] \in {"fresh", "expired"}
      BY DEF TypeOK
    <2>. QED  BY <1>0, <2>1
  <1>3. RequestInv'
    <2>1. \A r, s : <<r, s>> \in entries' => r \in Req /\ inbox[r] # "none"
      BY <1>0
    <2>. QED  BY <1>0, <2>1 DEF RequestInv
  <1>6. TypeOK'
    BY <1>0, <1>2 DEF TypeOK
  <1>7. TodoInv'
    BY <1>0, <1>6, Settled
  <1>8. HolderInv'
    BY <1>0, <1>1 DEF HolderInv
  <1>9. ArmedOnlyWhileRunning' /\ ArmedIsUntripped' /\ HaltReceiptIsEvidence'
    BY <1>0 DEF ArmedOnlyWhileRunning, ArmedIsUntripped, HaltReceiptIsEvidence
  <1>. QED  BY <1>3, <1>6, <1>7, <1>8, <1>9

\* One of its files is loaded.
LEMMA LoadStep ==
    ASSUME ReqAssumption, ControlInv, NEW r \in Req, NEW s \in {"fresh", "expired"}, LoadFile(r, s)
    PROVE  ControlInv'
  <1>. USE DEF ControlInv
  <1>0. /\ phase = "load" /\ todo = <<>> /\ <<r, s>> \in entries /\ entries' \subseteq entries
        /\ UNCHANGED <<rt, armed, event, evidence, startupPassed, owed, command, inbox, receipt,
                       holder, mem, stale>>
    BY DEF LoadFile, durable, files
  <1>1. holder' = holder /\ holder' # "none" /\ startupPassed' \in BOOLEAN
        /\ entries' \subseteq Req \X {"fresh", "expired"}
    BY <1>0 DEF HolderInv, TypeOK
  <1>2. command[r] # "none"
    BY <1>0 DEF RequestInv
  <1>3. pending' \subseteq pending \cup {r} /\ phase' \in {"load", "failed"}
    BY <1>0 DEF LoadFile
  <1>4. pending' \subseteq Req
    BY <1>3 DEF TypeOK
  <1>5. phase' \in Phases \ {"none"} /\ phase' \notin OfDaemon /\ phase' \notin {"recover", "cycle"}
    BY <1>3 DEF Phases, OfDaemon
  <1>6. RequestInv'
    BY <1>0, <1>2, <1>3 DEF RequestInv
  <1>7. PICK d \in Config : Leads(command, todo', Now, d)
    <2>1. CASE Collides(r, s)
      BY <1>0, <2>1, NowIs, LeadsNowhere DEF LoadFile
    <2>2. CASE ~Collides(r, s)
      <3>1. todo' = LoadSteps(r, s)
        BY <2>2 DEF LoadFile
      <3>. QED  BY <1>2, <2>2, <3>1, LoadLeads
    <2>. QED  BY <2>1, <2>2
  <1>8. EndInv(d)'
    BY <1>5 DEF EndInv
  <1>. QED  BY <1>0, <1>1, <1>4, <1>5, <1>6, <1>7, <1>8, Planned

\* The first of the pending requests is executed.
LEMMA ExecuteStep ==
    ASSUME ReqAssumption, ControlInv, NEW r \in Req, ExecuteRequest(r)
    PROVE  ControlInv'
  <1>. USE DEF ControlInv
  <1>0. /\ phase = "load" /\ r \in pending /\ pending' = pending \ {r}
        /\ todo' = HandlerSteps(r) \o <<Receipt(r, "COMPLETED"), Unlink(r)>>
        /\ UNCHANGED <<rt, armed, event, evidence, startupPassed, owed, command, inbox, receipt,
                       holder, phase, entries, mem, stale>>
    BY DEF ExecuteRequest, durable, files
  <1>1. holder' = holder /\ holder' # "none" /\ startupPassed' \in BOOLEAN
        /\ entries' \subseteq Req \X {"fresh", "expired"} /\ pending' \subseteq Req
    BY <1>0 DEF HolderInv, TypeOK
  <1>2. command[r] # "none"
    BY <1>0 DEF RequestInv
  <1>3. phase' \in Phases \ {"none"} /\ phase' \notin OfDaemon /\ phase' \notin {"recover", "cycle"}
    BY <1>0 DEF Phases, OfDaemon
  <1>4. RequestInv'
    BY <1>0 DEF RequestInv
  <1>5. PICK d \in Config : Leads(command, todo', Now, d)
    BY <1>0, <1>2, ExecuteLeads
  <1>6. EndInv(d)'
    BY <1>3 DEF EndInv
  <1>. QED  BY <1>0, <1>1, <1>3, <1>4, <1>5, <1>6, Planned

\* What a daemon, or an operator who keeps the lease, plans.
LEMMA HolderPlans ==
    ASSUME ControlInv, holder # "none",
           UNCHANGED <<rt, armed, event, evidence, owed, files, holder, batchVars, mem, stale>>,
           startupPassed' \in BOOLEAN,
           phase' \in Phases \ {"none"}, phase' \in OfDaemon => holder = "daemon",
           NEW d \in Config, Leads(command, todo', Now, d), EndInv(d)'
    PROVE  ControlInv'
  <1>. USE DEF ControlInv
  <1>1. UNCHANGED <<rt, armed, event, evidence, owed, command, inbox, receipt, mem, stale>>
    BY DEF files
  <1>2. entries' \subseteq Req \X {"fresh", "expired"} /\ pending' \subseteq Req /\ holder' = holder
    BY DEF batchVars, TypeOK
  <1>3. RequestInv'
    BY DEF RequestInv, files, batchVars
  <1>. QED  BY <1>1, <1>2, <1>3, Planned

\* ... when it has nothing to do but to go on.
LEMMA HolderMoves ==
    ASSUME ControlInv, holder # "none", todo' = <<>>,
           UNCHANGED <<rt, armed, event, evidence, owed, files, holder, batchVars, mem, stale>>,
           startupPassed' \in BOOLEAN,
           phase' \in Phases \ {"none", "recover", "cycle"}, phase' \in OfDaemon => holder = "daemon"
    PROVE  ControlInv'
  <1>1. PICK d \in Config : Leads(command, todo', Now, d)
    BY NowIs, LeadsNowhere DEF ControlInv
  <1>2. EndInv(d)'
    BY DEF EndInv
  <1>. QED  BY <1>1, <1>2, HolderPlans

\* Where the daemon's copy is when nothing of a startup or a cycle remains to be done.
LEMMA EndReached ==
    ASSUME ControlInv, todo = <<>>
    PROVE  EndInv(Now)
  <1>1. PICK d \in Config : RunsTo(command, <<>>, Now, d) /\ EndInv(d)
    BY DEF ControlInv, TodoInv
  <1>2. PICK cs \in [0..Len(<<>>) -> Config] : cs[0] = Now /\ cs[Len(<<>>)] = d
    BY <1>1 DEF RunsTo
  <1>3. Len(<<>>) = 0
    OBVIOUS
  <1>. QED  BY <1>1, <1>2, <1>3

\* The process is gone, or has left.
LEMMA ReleasedStep ==
    ASSUME ControlInv, Released, UNCHANGED <<durable, files>>
    PROVE  ControlInv'
  <1>. USE DEF ControlInv
  <1>0. /\ holder' = "none" /\ todo' = <<>> /\ phase' = "none" /\ entries' = {} /\ pending' = {}
        /\ mem' = Initial /\ stale' = FALSE
        /\ UNCHANGED <<rt, armed, event, evidence, startupPassed, owed, command, inbox, receipt>>
    BY DEF Released, durable, files
  <1>1. Initial \in [state : States, blockers : SUBSET Blockers]
    BY DEF Initial, States
  <1>2. TypeOK'
    BY <1>0, <1>1 DEF TypeOK
  <1>3. TodoInv'
    BY <1>0, <1>2, Settled
  <1>4. HolderInv'
    BY <1>0 DEF HolderInv, Phases, OfDaemon
  <1>5. RequestInv' /\ HaltReceiptIsEvidence'
    BY <1>0 DEF RequestInv, HaltReceiptIsEvidence
  <1>6. ArmedOnlyWhileRunning' /\ ArmedIsUntripped'
    BY <1>0 DEF ArmedOnlyWhileRunning, ArmedIsUntripped
  <1>. QED  BY <1>2, <1>3, <1>4, <1>5, <1>6

\* The daemon before its loop.
LEMMA StartStep ==
    ASSUME ReqAssumption, ControlInv, DaemonBatchDone \/ Startup \/ StartupPasses \/ StartupFails
    PROVE  ControlInv'
  <1>. USE DEF ControlInv
  <1>0. command \in Commanded /\ {} \in BlockerSets /\ {"OTHER"} \in BlockerSets
        /\ {"READY", "HALTED", "RECONCILING"} \subseteq States /\ startupPassed \in BOOLEAN
        /\ ~Disarms("READY") /\ ~Disarms("HALTED")
    BY CommandIs DEF BlockerSets, Blockers, States, TypeOK, Disarms, InService
  <1>1. CASE DaemonBatchDone
    <2>1. /\ holder = "daemon" /\ todo' = <<>> /\ phase' \in {"disconnect", "startup", "top", "work"}
          /\ startupPassed' = startupPassed
          /\ UNCHANGED <<rt, armed, event, evidence, owed, files, holder, batchVars, mem, stale>>
      BY <1>1 DEF DaemonBatchDone, BatchDone, durable
    <2>2. holder # "none" /\ phase' \in Phases \ {"none", "recover", "cycle"}
      BY <2>1 DEF Phases, OfDaemon
    <2>. QED  BY <1>0, <2>1, <2>2, HolderMoves
  <1>2. CASE Startup
    <2>1. /\ holder = "daemon" /\ startupPassed' = startupPassed /\ todo = <<>>
          /\ UNCHANGED <<rt, armed, event, evidence, owed, files, holder, batchVars, mem, stale>>
      BY <1>2 DEF Startup, durable, HolderInv, OfDaemon
    <2>2. CASE mem.state \in {"HALTED", "STOPPING"}
      <3>1. todo' = <<>> /\ phase' = "failed"
        BY <1>2, <2>1, <2>2 DEF Startup
      <3>2. holder # "none" /\ phase' \in Phases \ {"none", "recover", "cycle"}
        BY <2>1, <3>1 DEF Phases, OfDaemon
      <3>. QED  BY <1>0, <2>1, <3>1, <3>2, HolderMoves
    <2>3. CASE mem.state \notin {"HALTED", "STOPPING"}
      <3>1. /\ phase' = "recover"
            /\ todo' = (IF mem.state = "DISARMED" THEN <<HookSave("STARTING", {})>> ELSE <<>>)
                       \o (IF mem.state = "RECONCILING" THEN <<>>
                           ELSE <<HookSave("RECONCILING", {})>>)
        BY <1>2, <2>3 DEF Startup
      <3>2. PICK d \in Config : /\ Leads(command, todo', Now, d)
                                /\ "stale" \notin d.marks => d.copy = "RECONCILING"
        BY <1>0, <2>1, <2>3, <3>1, StartupLeads
      <3>3. EndInv(d)'
        BY <3>1, <3>2 DEF EndInv
      <3>4. holder # "none" /\ phase' \in Phases \ {"none"}
        BY <2>1, <3>1 DEF Phases, OfDaemon
      <3>. QED  BY <1>0, <2>1, <3>2, <3>3, <3>4, HolderPlans
    <2>. QED  BY <2>2, <2>3
  <1>3. CASE StartupPasses
    <2>1. /\ holder = "daemon" /\ startupPassed' \in BOOLEAN /\ todo = <<>>
          /\ todo' = <<HookSave("READY", {})>> /\ phase = "recover" /\ phase' = "top"
          /\ UNCHANGED <<rt, armed, event, evidence, owed, files, holder, batchVars, mem, stale>>
      BY <1>3 DEF StartupPasses, HolderInv, OfDaemon
    <2>2. ~stale => mem.state = "RECONCILING"
      BY <2>1, EndReached, NowIs DEF EndInv
    <2>3. PICK d \in Config : Leads(command, todo', Now, d)
      BY <1>0, <2>1, <2>2, LegalMoves, HookLeads
    <2>4. EndInv(d)' /\ holder # "none" /\ phase' \in Phases \ {"none"}
      BY <2>1 DEF EndInv, Phases, OfDaemon
    <2>. QED  BY <2>1, <2>3, <2>4, HolderPlans
  <1>4. CASE StartupFails
    <2>1. /\ holder = "daemon" /\ startupPassed' \in BOOLEAN /\ todo = <<>>
          /\ todo' = <<HookSave("HALTED", {"OTHER"})>> /\ phase = "recover" /\ phase' = "failed"
          /\ UNCHANGED <<rt, armed, event, evidence, owed, files, holder, batchVars, mem, stale>>
      BY <1>4, <1>0 DEF StartupFails, HolderInv, OfDaemon
    <2>2. ~stale => mem.state = "RECONCILING"
      BY <2>1, EndReached, NowIs DEF EndInv
    <2>3. PICK d \in Config : Leads(command, todo', Now, d)
      BY <1>0, <2>1, <2>2, LegalMoves, HookLeads
    <2>4. EndInv(d)' /\ holder # "none" /\ phase' \in Phases \ {"none"}
      BY <2>1 DEF EndInv, Phases, OfDaemon
    <2>. QED  BY <2>1, <2>3, <2>4, HolderPlans
  <1>. QED  BY <1>1, <1>2, <1>3, <1>4

\* The iterations of the daemon's loop.
LEMMA LoopStep ==
    ASSUME ReqAssumption, ControlInv,
           \/ Iterate \/ IdleCycle \/ ClockDiscontinuity \/ StopRequested \/ PumpHalts
           \/ BeginCycle("EXECUTING") \/ BeginCycle("RECONCILING") \/ EndCycle
    PROVE  ControlInv'
  <1>. USE DEF ControlInv
  <1>0. command \in Commanded /\ {} \in BlockerSets /\ "OTHER" \in Blockers
        /\ {"READY", "EXECUTING", "RECONCILING"} \subseteq States /\ startupPassed \in BOOLEAN
        /\ ~Disarms("READY") /\ ~Disarms("EXECUTING") /\ ~Disarms("RECONCILING")
    BY CommandIs DEF BlockerSets, Blockers, States, TypeOK, Disarms, InService
  <1>1. /\ phase \in OfDaemon /\ todo = <<>> /\ startupPassed' = startupPassed
        /\ UNCHANGED <<rt, armed, event, evidence, owed, files, holder, batchVars, mem, stale>>
    BY DEF Iterate, IdleCycle, ClockDiscontinuity, StopRequested, PumpHalts, BeginCycle, EndCycle,
           OfDaemon, durable
  <1>2. holder = "daemon" /\ startupPassed' \in BOOLEAN
    BY <1>0, <1>1 DEF HolderInv
  <1>3. CASE Iterate \/ IdleCycle
    <2>1. todo' = <<>> /\ phase' \in {"list", "top"}
      BY <1>3 DEF Iterate, IdleCycle
    <2>2. holder # "none" /\ phase' \in Phases \ {"none", "recover", "cycle"}
      BY <1>2, <2>1 DEF Phases, OfDaemon
    <2>. QED  BY <1>1, <1>2, <2>1, <2>2, HolderMoves
  <1>4. ASSUME phase' \in {"leave", "disconnect", "top"}, NEW d \in Config, Leads(command, todo', Now, d)
        PROVE  ControlInv'
    <2>1. EndInv(d)' /\ holder # "none" /\ phase' \in Phases \ {"none"}
      BY <1>2, <1>4 DEF EndInv, Phases, OfDaemon
    <2>. QED  BY <1>1, <1>2, <1>4, <2>1, HolderPlans
  <1>5. CASE ClockDiscontinuity
    <2>1. todo' = StopSteps \o HooksHaltSteps("CLOCK") /\ phase' = "leave"
      BY <1>5 DEF ClockDiscontinuity
    <2>2. PICK d \in Config : Leads(command, todo', Now, d)
      BY <1>0, <1>2, <2>1, ClockLeads
    <2>. QED  BY <1>4, <2>1, <2>2
  <1>6. CASE StopRequested
    <2>1. todo' = StopSteps /\ phase' = "disconnect"
      BY <1>6 DEF StopRequested
    <2>2. PICK d \in Config : Leads(command, todo', Now, d)
      BY <1>0, <2>1, StopLeads
    <2>. QED  BY <1>4, <2>1, <2>2
  <1>7. ASSUME todo' = HooksHaltSteps("OTHER"), phase' = "leave"
        PROVE  ControlInv'
    <2>1. PICK d \in Config : Leads(command, todo', Now, d)
      BY <1>0, <1>2, <1>7, HooksHaltNow
    <2>. QED  BY <1>4, <1>7, <2>1
  <1>8. CASE PumpHalts
    BY <1>7, <1>8 DEF PumpHalts
  <1>9. CASE BeginCycle("EXECUTING") \/ BeginCycle("RECONCILING")
    <2>1. PICK s \in {"EXECUTING", "RECONCILING"} : BeginCycle(s)
      BY <1>9
    <2>2. mem.state = "READY" /\ todo' = <<HookSave(s, {})>> /\ phase' = "cycle"
      BY <2>1 DEF BeginCycle
    <2>3. Legal(mem.state, s) /\ s \in States /\ ~Disarms(s)
      BY <1>0, <2>2, LegalMoves
    <2>4. PICK d \in Config : Leads(command, todo', Now, d) /\ ("stale" \notin d.marks => d.copy = s)
      BY <1>0, <1>2, <2>2, <2>3, HookLeads
    <2>5. EndInv(d)' /\ holder # "none" /\ phase' \in Phases \ {"none"}
      BY <1>2, <2>2, <2>4 DEF EndInv, Phases, OfDaemon
    <2>. QED  BY <1>1, <1>2, <2>4, <2>5, HolderPlans
  <1>10. CASE EndCycle
    <2>1. CASE todo' = <<HookSave("READY", {})>> /\ phase' = "top"
      <3>1. ~stale => mem.state \in {"EXECUTING", "RECONCILING"}
        BY <1>1, <1>10, EndReached, NowIs DEF EndInv, EndCycle
      <3>2. ~stale => Legal(mem.state, "READY")
        BY <3>1, LegalMoves
      <3>3. PICK d \in Config : Leads(command, todo', Now, d)
        BY <1>0, <1>2, <2>1, <3>2, HookLeads
      <3>. QED  BY <1>4, <2>1, <3>3
    <2>2. CASE todo' = HooksHaltSteps("OTHER") /\ phase' = "leave"
      BY <1>7, <2>2
    <2>. QED  BY <1>10, <2>1, <2>2 DEF EndCycle
  <1>. QED  BY <1>3, <1>5, <1>6, <1>8, <1>9, <1>10

\* The ways a process ends.
LEMMA EndStep ==
    ASSUME ReqAssumption, ControlInv, Fail \/ Disconnect \/ Leave \/ DirectDone \/ Crash
    PROVE  ControlInv'
  <1>. USE DEF ControlInv
  <1>0. command \in Commanded /\ "OTHER" \in Blockers /\ startupPassed \in BOOLEAN
    BY CommandIs DEF Blockers, TypeOK
  <1>1. CASE Leave \/ Crash
    BY <1>1, ReleasedStep DEF Leave, Crash
  <1>2. ASSUME holder # "none", startupPassed' = startupPassed, phase' = "leave",
               UNCHANGED <<rt, armed, event, evidence, owed, files, holder, batchVars, mem, stale>>,
               NEW d \in Config, Leads(command, todo', Now, d)
        PROVE  ControlInv'
    <2>1. EndInv(d)' /\ phase' \in Phases \ {"none"} /\ phase' \notin OfDaemon
      BY <1>2 DEF EndInv, Phases, OfDaemon
    <2>. QED  BY <1>0, <1>2, <2>1, HolderPlans
  <1>3. CASE Fail
    <2>1. CASE holder = "daemon"
      <3>1. /\ todo' = HooksHaltSteps("OTHER") /\ startupPassed' = startupPassed /\ phase' = "leave"
            /\ UNCHANGED <<rt, armed, event, evidence, owed, files, holder, batchVars, mem, stale>>
        BY <1>3, <2>1 DEF Fail, durable
      <3>2. PICK d \in Config : Leads(command, todo', Now, d)
        BY <1>0, <2>1, <3>1, HooksHaltNow
      <3>. QED  BY <1>2, <2>1, <3>1, <3>2
    <2>2. CASE holder # "daemon"
      BY <1>3, <2>2, ReleasedStep DEF Fail
    <2>. QED  BY <2>1, <2>2
  <1>4. CASE Disconnect
    <2>1. /\ startupPassed' = startupPassed /\ phase' = "leave" /\ holder = "daemon"
          /\ UNCHANGED <<rt, armed, event, evidence, owed, files, holder, batchVars, mem, stale>>
      BY <1>4 DEF Disconnect, durable, HolderInv, OfDaemon
    <2>2. PICK d \in Config : Leads(command, todo', Now, d)
      <3>1. todo' = FinalizeSteps \/ todo' = <<>> \/ todo' = HooksHaltSteps("OTHER")
        BY <1>4 DEF Disconnect
      <3>. QED  BY <1>0, <2>1, <3>1, FinalizeLeads, HooksHaltNow, NowIs, LeadsNowhere
    <2>. QED  BY <1>2, <2>1, <2>2
  <1>5. CASE DirectDone
    <2>1. /\ startupPassed' = startupPassed /\ phase' = "leave" /\ holder # "none"
          /\ UNCHANGED <<rt, armed, event, evidence, owed, files, holder, batchVars, mem, stale>>
      BY <1>5 DEF DirectDone, durable
    <2>2. PICK d \in Config : Leads(command, todo', Now, d)
      <3>1. todo' = FinalizeSteps \/ todo' = <<>>
        BY <1>5 DEF DirectDone
      <3>. QED  BY <1>0, <3>1, FinalizeLeads, NowIs, LeadsNowhere
    <2>. QED  BY <1>2, <2>1, <2>2
  <1>. QED  BY <1>1, <1>3, <1>4, <1>5

\* Operator commands take the lease.
LEMMA OperatorStep ==
    ASSUME ReqAssumption, ControlInv,
           OperatorHalt \/ OperatorDisarm \/ OperatorResume \/ OperatorReconcile \/ RunConfigured
    PROVE  ControlInv'
  <1>. USE DEF ControlInv
  <1>0. command \in Commanded /\ rt \in RuntimeRow
    BY CommandIs, NowIs
  <1>1. /\ holder = "none" /\ holder' = "operator" /\ phase' = "leave"
        /\ UNCHANGED <<rt, armed, event, evidence, startupPassed, owed, command, inbox, receipt,
                       entries, pending, flags, mem, stale>>
    BY DEF OperatorHalt, OperatorDisarm, OperatorResume, OperatorReconcile, RunConfigured, Operate,
           durable, files, batchVars
  <1>2. Tripped \in BOOLEAN
    <2>1. CASE event = "none"
      <3>1. Tripped = ("KILL_SWITCH" \in rt.blockers)
        BY <2>1 DEF Tripped
      <3>2. ("KILL_SWITCH" \in rt.blockers) \in BOOLEAN
        OBVIOUS
      <3>. QED  BY <3>1, <3>2
    <2>2. CASE event # "none"
      <3>1. Tripped = (event = "TRIPPED")
        BY <2>2 DEF Tripped
      <3>2. (event = "TRIPPED") \in BOOLEAN
        OBVIOUS
      <3>. QED  BY <3>1, <3>2
    <2>. QED  BY <2>1, <2>2
  <1>3. PICK d \in Config : Leads(command, todo', Now, d)
    <2>1. CASE OperatorHalt
      BY <1>0, <2>1, OperatorHaltLeads DEF OperatorHalt, Operate
    <2>2. CASE OperatorDisarm
      <3>. DEFINE b == IF Tripped THEN {"KILL_SWITCH"} ELSE {}
      <3>1. todo' = <<Revoke>> \o ToDisarmed(rt, b)
        BY <2>2 DEF OperatorDisarm, Operate
      <3>2. b \in BlockerSets
        BY DEF BlockerSets, Blockers
      <3>. HIDE DEF b
      <3>. QED  BY <1>0, <3>1, <3>2, DisarmLeads
    <2>3. CASE OperatorResume
      <3>1. /\ rt.state = "HALTED"
            /\ todo' = <<Revoke, Save("RECONCILING", {}), Reconcile("resume", Tripped, TRUE)>>
        BY <2>3 DEF OperatorResume, Operate
      <3>. QED  BY <1>0, <1>1, <1>2, <3>1, ResumeLeads
    <2>4. CASE OperatorReconcile
      <3>. DEFINE h == rt.state = "HALTED"
      <3>1. /\ rt.state # "STOPPING"
            /\ todo' = (IF rt.state = "DISARMED" THEN <<Save("STARTING", {})>> ELSE <<>>)
                       \o (IF rt.state = "RECONCILING" THEN <<>> ELSE <<Save("RECONCILING", {})>>)
                       \o <<Reconcile("reconcile", Tripped, h)>>
        BY <2>4 DEF OperatorReconcile, Operate
      <3>2. h \in BOOLEAN
        OBVIOUS
      <3>. HIDE DEF h
      <3>. QED  BY <1>0, <1>1, <1>2, <3>1, <3>2, ReconcileLeads
    <2>5. CASE RunConfigured
      <3>1. /\ rt.state # "STOPPING"
            /\ todo' = (IF rt.state = "DISARMED" THEN <<Save("STARTING", {})>> ELSE <<>>)
                       \o (IF rt.state = "RECONCILING" THEN <<>> ELSE <<Save("RECONCILING", {})>>)
                       \o <<Reconcile("reconcile", FALSE, FALSE)>>
        BY <2>5 DEF RunConfigured, Operate
      <3>. QED  BY <1>0, <1>1, <3>1, ReconcileLeads
    <2>. QED  BY <2>1, <2>2, <2>3, <2>4, <2>5
  <1>4. EndInv(d)' /\ phase' \in Phases \ {"none"} /\ phase' \notin OfDaemon
    BY <1>1 DEF EndInv, Phases, OfDaemon
  <1>5. RequestInv' /\ startupPassed' \in BOOLEAN /\ holder' # "none"
        /\ entries' \subseteq Req \X {"fresh", "expired"} /\ pending' \subseteq Req
    BY <1>1 DEF RequestInv, TypeOK
  <1>. QED  BY <1>1, <1>3, <1>4, <1>5, Planned

\* arm-live, and the daemon's start.
LEMMA ArmStep ==
    ASSUME ControlInv, ArmLive \/ Run
    PROVE  ControlInv'
  <1>. USE DEF ControlInv
  <1>1. CASE ArmLive
    <2>0. /\ holder = "none" /\ rt.state = "READY" /\ ~Tripped /\ armed' = TRUE
          /\ UNCHANGED <<rt, event, evidence, startupPassed, owed, command, inbox, receipt, holder,
                         todo, phase, entries, pending, flags, mem, stale>>
      BY <1>1 DEF ArmLive, files, batchVars
    <2>1. todo' = <<>> /\ phase' = "none"
      BY <2>0 DEF HolderInv
    <2>2. TypeOK'
      BY <2>0 DEF TypeOK
    <2>3. TodoInv'
      BY <2>1, <2>2, Settled
    <2>4. HolderInv' /\ RequestInv' /\ HaltReceiptIsEvidence'
      BY <2>0 DEF HolderInv, RequestInv, HaltReceiptIsEvidence
    <2>5. ArmedOnlyWhileRunning' /\ ArmedIsUntripped'
      BY <2>0 DEF ArmedOnlyWhileRunning, ArmedIsUntripped, Tripped
    <2>. QED  BY <2>2, <2>3, <2>4, <2>5
  <1>2. CASE Run
    <2>0. /\ holder = "none" /\ holder' = "daemon" /\ phase' = "list" /\ mem' = rt /\ stale' = FALSE
          /\ UNCHANGED <<rt, armed, event, evidence, startupPassed, owed, command, inbox, receipt,
                         todo, entries, pending, flags>>
      BY <1>2 DEF Run, durable, files, batchVars
    <2>1. todo' = <<>>
      BY <2>0 DEF HolderInv
    <2>2. TypeOK'
      BY <2>0 DEF TypeOK
    <2>3. TodoInv'
      BY <2>0, <2>1, <2>2, Settled
    <2>4. HolderInv'
      BY <2>0 DEF HolderInv, Phases, OfDaemon
    <2>5. RequestInv' /\ HaltReceiptIsEvidence' /\ ArmedOnlyWhileRunning' /\ ArmedIsUntripped'
      BY <2>0 DEF RequestInv, HaltReceiptIsEvidence, ArmedOnlyWhileRunning, ArmedIsUntripped
    <2>. QED  BY <2>2, <2>3, <2>4, <2>5
  <1>. QED  BY <1>1, <1>2

\* Transactions that can be done can still be done when other requests get a command.
LEMMA RunsOtherCommand ==
    ASSUME NEW cmd, NEW cmd2, \A q \in Req : cmd[q] # "none" => cmd2[q] = cmd[q],
           NEW s \in Seq(Step), NEW c, NEW d, RunsTo(cmd, s, c, d)
    PROVE  RunsTo(cmd2, s, c, d)
  <1>1. ASSUME NEW x \in Step, NEW e, Guard(cmd, x, e)
        PROVE  Guard(cmd2, x, e)
    <2>1. x.op = "receipt" => x.req \in Req
      BY DEF Step
    <2>2. x.op = "receipt" => /\ cmd2[x.req] # "none"
                              /\ x.status = "COMPLETED" /\ cmd2[x.req] = "HALT" => x.req \in e.done
      BY <1>1, <2>1 DEF Guard
    <2>. QED  BY <1>1, <2>2 DEF Guard
  <1>2. PICK cs \in [0..Len(s) -> Config] :
            /\ cs[0] = c /\ cs[Len(s)] = d
            /\ \A i \in 1..Len(s) : Guard(cmd, s[i], cs[i - 1]) /\ cs[i] = After(s[i], cs[i - 1])
    BY DEF RunsTo
  <1>3. \A i \in 1..Len(s) : s[i] \in Step
    OBVIOUS
  <1>4. \A i \in 1..Len(s) : Guard(cmd2, s[i], cs[i - 1]) /\ cs[i] = After(s[i], cs[i - 1])
    BY <1>1, <1>2, <1>3
  <1>. QED  BY <1>2, <1>4 DEF RunsTo

\* Requests are queued, also by stop and cancel themselves, and expire.
LEMMA QueueStep ==
    ASSUME ReqAssumption, ControlInv, NEW r \in Req,
           Expire(r) \/ \E c \in Commands : Enqueue(r, c) \/ Direct(r, c)
    PROVE  ControlInv'
  <1>. USE DEF ControlInv
  <1>1. CASE Expire(r)
    <2>0. /\ inbox[r] = "fresh" /\ inbox' = [inbox EXCEPT ![r] = "expired"]
          /\ UNCHANGED <<rt, armed, event, evidence, startupPassed, owed, command, receipt, holder,
                         todo, phase, entries, pending, flags, mem, stale>>
      BY <1>1 DEF Expire, durable, batchVars
    <2>1. TypeOK' /\ RequestInv' /\ HaltReceiptIsEvidence'
      BY <2>0 DEF TypeOK, RequestInv, HaltReceiptIsEvidence
    <2>2. HolderInv' /\ ArmedOnlyWhileRunning' /\ ArmedIsUntripped'
      BY <2>0 DEF HolderInv, ArmedOnlyWhileRunning, ArmedIsUntripped
    <2>3. Now' = Now /\ \A d : EndInv(d)' <=> EndInv(d)
      BY <2>0 DEF Now, EndInv
    <2>4. TodoInv'
      BY <2>0, <2>3 DEF TodoInv
    <2>. QED  BY <2>1, <2>2, <2>4
  <1>2. CASE \E c \in Commands : Enqueue(r, c) \/ Direct(r, c)
    <2>0. PICK c \in Commands : Enqueue(r, c) \/ Direct(r, c)
      BY <1>2
    <2>1. /\ command[r] = "none" /\ command' = [command EXCEPT ![r] = c]
          /\ inbox' = [inbox EXCEPT ![r] = "fresh"]
          /\ UNCHANGED <<rt, armed, event, evidence, startupPassed, owed, receipt, todo, entries,
                         pending, flags, mem, stale>>
      BY <2>0 DEF Enqueue, Direct, durable, batchVars
    <2>2. /\ command' \in [Req -> Commands \cup {"none"}] /\ command'[r] = c /\ c # "none"
          /\ \A q \in Req : q # r => command'[q] = command[q]
      BY <2>1 DEF TypeOK, Commands
    <2>3. inbox' \in [Req -> {"none", "fresh", "expired"}] /\ \A q \in Req : q # r => inbox'[q] = inbox[q]
      BY <2>1 DEF TypeOK
    <2>4. \A q \in Req : command[q] # "none" => command'[q] = command[q]
      BY <2>1, <2>2
    <2>5. \/ UNCHANGED <<holder, phase>>
          \/ holder = "none" /\ holder' = "operator" /\ phase' = "list"
      BY <2>0 DEF Enqueue, Direct
    <2>6. TypeOK'
      BY <2>1, <2>2, <2>3, <2>5 DEF TypeOK
    <2>7. RequestInv' /\ HaltReceiptIsEvidence'
      BY <2>1, <2>2, <2>3 DEF RequestInv, HaltReceiptIsEvidence
    <2>8. HolderInv'
      BY <2>1, <2>5 DEF HolderInv, Phases, OfDaemon
    <2>9. ArmedOnlyWhileRunning' /\ ArmedIsUntripped'
      BY <2>1 DEF ArmedOnlyWhileRunning, ArmedIsUntripped
    <2>10. TodoInv'
      <3>1. CASE UNCHANGED <<holder, phase>>
        <4>1. PICK d \in Config : RunsTo(command, todo, Now, d) /\ EndInv(d)
          BY DEF TodoInv
        <4>2. todo' \in Seq(Step) /\ Now' = Now /\ EndInv(d)'
          BY <2>1, <3>1, <4>1 DEF TodoInv, Now, EndInv
        <4>3. RunsTo(command', todo, Now, d)
          BY <2>4, <4>1, RunsOtherCommand DEF TodoInv
        <4>. QED  BY <2>1, <4>2, <4>3 DEF TodoInv
      <3>2. CASE holder = "none" /\ phase' = "list"
        <4>1. todo' = <<>>
          BY <2>1, <3>2 DEF HolderInv
        <4>. QED  BY <2>6, <3>2, <4>1, Settled
      <3>. QED  BY <2>5, <3>1, <3>2
    <2>. QED  BY <2>6, <2>7, <2>8, <2>9, <2>10
  <1>. QED  BY <1>1, <1>2

-----------------------------------------------------------------------------
(* The theorems.                                                           *)

LEMMA InitControl ==
    ASSUME Init
    PROVE  ControlInv
  <1>1. Initial \in RuntimeRow
    BY DEF Initial, RuntimeRow, States
  <1>2. TypeOK
    BY <1>1 DEF Init, TypeOK, RuntimeRow
  <1>3. HolderInv /\ RequestInv
    BY DEF Init, HolderInv, RequestInv, Phases, OfDaemon
  <1>4. TodoInv
    <2>1. Now \in Config /\ todo = <<>>
      BY <1>2, NowIs DEF Init
    <2>2. RunsTo(command, <<>>, Now, Now)
      BY <2>1, RunsEmpty
    <2>3. EndInv(Now)
      BY DEF EndInv, Init
    <2>4. <<>> \in Seq(Step)
      OBVIOUS
    <2>. QED  BY <2>1, <2>2, <2>3, <2>4 DEF TodoInv
  <1>5. ArmedOnlyWhileRunning /\ ArmedIsUntripped /\ HaltReceiptIsEvidence
    BY DEF Init, ArmedOnlyWhileRunning, ArmedIsUntripped, HaltReceiptIsEvidence
  <1>. QED  BY <1>2, <1>3, <1>4, <1>5 DEF ControlInv

LEMMA NextControl ==
    ASSUME ReqAssumption, ControlInv, [Next]_vars
    PROVE  ControlInv'
  <1>1. CASE Transaction
    BY <1>1, TransactionStep
  <1>2. CASE ListInbox
    BY <1>2, ListStep
  <1>3. CASE \E r \in Req : ExecuteRequest(r) \/ \E s \in {"fresh", "expired"} : LoadFile(r, s)
    BY <1>3, ExecuteStep, LoadStep
  <1>4. CASE DaemonBatchDone \/ Startup \/ StartupPasses \/ StartupFails
    BY <1>4, StartStep
  <1>5. CASE \/ Iterate \/ IdleCycle \/ ClockDiscontinuity \/ StopRequested \/ PumpHalts
             \/ BeginCycle("EXECUTING") \/ BeginCycle("RECONCILING") \/ EndCycle
    BY <1>5, LoopStep
  <1>6. CASE Fail \/ Disconnect \/ Leave \/ DirectDone \/ Crash
    BY <1>6, EndStep
  <1>7. CASE OperatorHalt \/ OperatorDisarm \/ OperatorResume \/ OperatorReconcile \/ RunConfigured
    BY <1>7, OperatorStep
  <1>8. CASE ArmLive \/ Run
    BY <1>8, ArmStep
  <1>9. CASE \E r \in Req : Expire(r) \/ \E c \in Commands : Enqueue(r, c) \/ Direct(r, c)
    BY <1>9, QueueStep
  <1>10. CASE UNCHANGED vars
    <2>1. UNCHANGED <<rt, armed, event, evidence, startupPassed, owed, command, inbox, receipt, holder,
                      todo, phase, entries, pending, flags, mem, stale>>
      BY <1>10 DEF vars, durable, files, batchVars
    <2>2. TypeOK' /\ RequestInv' /\ HaltReceiptIsEvidence' /\ HolderInv'
      BY <2>1 DEF ControlInv, TypeOK, RequestInv, HaltReceiptIsEvidence, HolderInv
    <2>3. ArmedOnlyWhileRunning' /\ ArmedIsUntripped'
      BY <2>1 DEF ControlInv, ArmedOnlyWhileRunning, ArmedIsUntripped
    <2>4. Now' = Now /\ \A d : EndInv(d)' <=> EndInv(d)
      BY <2>1 DEF Now, EndInv
    <2>5. TodoInv'
      BY <2>1, <2>4 DEF ControlInv, TodoInv
    <2>. QED  BY <2>2, <2>3, <2>5 DEF ControlInv
  <1>. QED  BY <1>1, <1>2, <1>3, <1>4, <1>5, <1>6, <1>7, <1>8, <1>9, <1>10 DEF Next, Holder, Operator

\* A file leaves the inbox only when its receipt is there.
LEMMA NextKeepsRequests ==
    ASSUME ControlInv, [Next]_vars, NEW r \in Req, inbox[r] # "none", inbox'[r] = "none"
    PROVE  receipt[r] # "none"
  <1>0. inbox \in [Req -> {"none", "fresh", "expired"}]
    BY DEF ControlInv, TypeOK
  <1>1. CASE DoUnlink
    <2>1. inbox' = [inbox EXCEPT ![Next1.req] = "none"]
      BY <1>1 DEF DoUnlink
    <2>2. r = Next1.req
      BY <1>0, <2>1
    <2>. QED  BY <1>1, <2>2, UnlinkAnswered
  <1>2. CASE \E q \in Req : Expire(q) \/ \E c \in Commands : Enqueue(q, c) \/ Direct(q, c)
    <2>1. PICK q \in Req : \/ inbox' = [inbox EXCEPT ![q] = "expired"]
                           \/ inbox' = [inbox EXCEPT ![q] = "fresh"]
      BY <1>2 DEF Expire, Enqueue, Direct
    <2>. QED  BY <1>0, <2>1
  <1>3. CASE UNCHANGED inbox
    BY <1>3
  <1>4. CASE Transaction /\ ~DoUnlink
    <2>1. UNCHANGED inbox
      BY <1>4
         DEF Transaction, DoSave, DoHookSave, DoRevoke, DoTrip, DoReset, DoReceipt, DoReconcile, files
    <2>. QED  BY <2>1
  <1>5. CASE \E q \in Req : ExecuteRequest(q) \/ \E s \in {"fresh", "expired"} : LoadFile(q, s)
    BY <1>3, <1>5 DEF ExecuteRequest, LoadFile, files
  <1>6. CASE \/ ListInbox \/ DaemonBatchDone \/ Startup \/ StartupPasses \/ StartupFails
             \/ Iterate \/ ClockDiscontinuity \/ StopRequested \/ PumpHalts \/ IdleCycle
             \/ BeginCycle("EXECUTING") \/ BeginCycle("RECONCILING") \/ EndCycle
    BY <1>3, <1>6 DEF ListInbox, DaemonBatchDone, Startup, StartupPasses, StartupFails, Iterate,
       ClockDiscontinuity, StopRequested, PumpHalts, IdleCycle, BeginCycle, EndCycle, files
  <1>7. CASE Fail \/ Disconnect \/ Leave \/ DirectDone \/ Crash
    BY <1>3, <1>7 DEF Fail, Disconnect, Leave, DirectDone, Crash, files
  <1>8. CASE \/ OperatorHalt \/ OperatorDisarm \/ OperatorResume \/ OperatorReconcile \/ RunConfigured
             \/ ArmLive \/ Run
    BY <1>3, <1>8
       DEF OperatorHalt, OperatorDisarm, OperatorResume, OperatorReconcile, RunConfigured,
       Operate, ArmLive, Run, files
  <1>9. CASE UNCHANGED vars
    BY <1>3, <1>9 DEF vars, files
  <1>. QED  BY <1>1, <1>2, <1>4, <1>5, <1>6, <1>7, <1>8, <1>9 DEF Next, Holder, Operator

\* Whoever holds the lease can do what it has planned, at every moment and whatever came before:
\* the inductive invariant of the runtime's control (runtime_control.py, operations.py,
\* production_daemon.py, control_channel.py).
THEOREM ControlInvariant == ReqAssumption => (Spec => []ControlInv)
  <1>. SUFFICES ASSUME ReqAssumption
                PROVE  Spec => []ControlInv
    OBVIOUS
  <1>1. Init => ControlInv
    BY InitControl
  <1>2. ControlInv /\ [Next]_vars => ControlInv'
    BY NextControl
  <1>. QED  BY <1>1, <1>2, PTL DEF Spec

\* No handler, hook or command is ever refused by the state machine half-way through
\* (runtime_state.py RUNTIME_TRANSITIONS, runtime_control.py handlers, production_services.py
\* startup and halt), whatever state an earlier process died in.
THEOREM TransitionsAreLegal == ReqAssumption => (Spec => []EveryTransitionIsLegal)
  <1>. SUFFICES ASSUME ReqAssumption
                PROVE  Spec => []EveryTransitionIsLegal
    OBVIOUS
  <1>1. ControlInv => EveryTransitionIsLegal
    <2>. SUFFICES ASSUME ControlInv
                  PROVE  EveryTransitionIsLegal
      OBVIOUS
    <2>1. todo # <<>> => Guard(command, Next1, Now)
      BY NextUp DEF ControlInv
    <2>. QED  BY <2>1, NowIs DEF ControlInv, EveryTransitionIsLegal, Busy, Guard
  <1>. QED  BY <1>1, ControlInvariant, PTL

\* Live authority is held only while the runtime runs and the kill switch is not tripped, across
\* crashes between any two transactions (operations.py _arm_live, _halt, _resume;
\* scheduling/sessions.py save_runtime).
THEOREM AuthorityIsJustified == ReqAssumption => (Spec => []ArmedIsJustified)
  <1>. SUFFICES ASSUME ReqAssumption
                PROVE  Spec => []ArmedIsJustified
    OBVIOUS
  <1>1. ControlInv => ArmedIsJustified
    BY DEF ControlInv, ArmedIsJustified
  <1>. QED  BY <1>1, ControlInvariant, PTL

\* A completed HALT has left its kill switch event, and no request is lost between its handler,
\* its receipt and the removal of its file (control_channel.py process_pending,
\* runtime_control.py _append_halt_evidence).
THEOREM ControlIsAnswered == ReqAssumption => (Spec => RequestsAreAnswered)
  <1>. SUFFICES ASSUME ReqAssumption
                PROVE  Spec => RequestsAreAnswered
    OBVIOUS
  <1>1. ControlInv => TypeOK /\ HaltReceiptIsEvidence
    BY DEF ControlInv
  <1>2. ControlInv /\ [Next]_vars =>
            [\A r \in Req : inbox[r] # "none" /\ inbox'[r] = "none" => receipt[r] # "none"]_vars
    BY NextKeepsRequests
  <1>. QED  BY <1>1, <1>2, ControlInvariant, PTL DEF RequestsAreAnswered, NoRequestLost, Spec

\* Every variable of the runtime's control keeps its type, for every set of requests and in
\* every mode.
THEOREM ControlTypes == ReqAssumption => (Spec => []TypeOK)
  <1>. SUFFICES ASSUME ReqAssumption
                PROVE  Spec => []TypeOK
    OBVIOUS
  <1>1. ControlInv => TypeOK
    BY DEF ControlInv
  <1>. QED  BY <1>1, ControlInvariant, PTL

-----------------------------------------------------------------------------
(* The session workflows: the inductive invariant.                         *)

OpenSequences == {<<"STARTED">>, <<"STARTED", "FAILED">>}
DoneSequences == {<<"STARTED", "COMPLETED">>, <<"STARTED", "FAILED", "COMPLETED">>}
Sealed == Outcome \cup {NoOutcome}
WorkflowReceipt == [statuses : LegalSequences, outcome : Sealed, decision : Sealed]

\* Between the claim of a workflow and its seal or its failure.
InAct == {"act", "seal", "failing"}

Types ==
    /\ receipts \in [Key -> WorkflowReceipt]
    /\ row \in {"DISARMED", "STARTING", "RECONCILING", "READY", "EXECUTING", "HALTED"}
    /\ pc \in {"down", "idle", "halting", "starting", "reconciling", "pending", "ready",
               "begun", "claim", "recover", "finish"} \cup InAct
    /\ job \in [key : Key, value : Sealed, decision : Sealed]
    /\ effects \in [Key -> {0, 1}]
    /\ frozen \in [Session -> Sealed] /\ executed \in [Session -> Sealed]
    /\ day \in Session

\* The statuses say whether an outcome is sealed, and effects are claimed.
ReceiptInv ==
    \A k \in Key :
        /\ Completed(k) <=> receipts[k].statuses \in DoneSequences
        /\ effects[k] = 1 => Claimed(k)

\* The step of the process against the durable row.
RowInv ==
    /\ pc = "starting" => row = "STARTING"
    /\ pc \in {"reconciling", "pending", "ready"} => row = "RECONCILING"
    /\ pc \in {"begun", "finish"} => row = "EXECUTING"
    /\ pc \in {"claim", "recover"} \cup InAct => row \in {"EXECUTING", "RECONCILING"}

\* At most one workflow is open, and where none is.
OpenInv ==
    /\ \A j, k \in OpenWorkflows : j = k
    /\ row = "READY" \/ pc = "ready" => OpenWorkflows = {}
    /\ row = "EXECUTING" /\ pc \in {"begun", "claim", "recover", "finish"} => OpenWorkflows = {}
    /\ row = "EXECUTING" /\ pc \in InAct => OpenWorkflows \subseteq {job.key}
    /\ row = "RECONCILING" /\ pc \in {"claim"} \cup InAct => job.key[1] = "STARTUP"

\* What the step of the process says of the workflow in hand.
JobInv ==
    /\ pc = "claim" => ~Claimed(job.key)
    /\ pc \in InAct => receipts[job.key].statuses = <<"STARTED">>
    /\ pc = "act" => effects[job.key] = 0
    /\ pc = "seal" => job.value \in Outcome
    /\ pc = "recover" => Claimed(job.key)
    /\ pc \in {"claim", "act"} /\ job.key[1] = "NEXT_DAY_EXECUTION" =>
          /\ job.key[2] - 1 \in Session
          /\ Completed(Decision(job.key[2] - 1))
          /\ job.decision = receipts[Decision(job.key[2] - 1)].outcome

\* Every execution was given the decision sealed for the session before it.
SealedInv == \A s \in Session : ExecutedAsSealed(s)

IInv == Types /\ ReceiptInv /\ RowInv /\ OpenInv /\ JobInv /\ SealedInv

-----------------------------------------------------------------------------
(* Keys and statuses.                                                      *)

\* The steps of a day, and the keys of its workflows.
LEMMA Keys ==
    ASSUME SessionAssumption
    PROVE  /\ Session \subseteq Nat /\ 1 \in Session
           /\ \A s \in Session : <<"STARTUP", s>> \in Key /\ Decision(s) \in Key
           /\ \A k \in Key : k[2] \in Session
  <1>1. Session \subseteq Nat /\ 1 \in Session
    BY DEF SessionAssumption, Session
  <1>2. WorkflowStep[1] = "STARTUP" /\ WorkflowStep[2] = "POST_CLOSE_DECISION"
        /\ DOMAIN WorkflowStep = 1..5
    BY DEF WorkflowStep
  <1>3. {"STARTUP", "POST_CLOSE_DECISION"} \subseteq Range(WorkflowStep)
    BY <1>2 DEF Range
  <1>. QED  BY <1>1, <1>3 DEF Key, Decision

\* Appending to a sequence of one or two statuses.
LEMMA Appends ==
    ASSUME NEW S, NEW a \in S, NEW b \in S, NEW c \in S
    PROVE  /\ Append(<<a>>, b) = <<a, b>>
           /\ Append(<<a, b>>, c) = <<a, b, c>>
  <1>1. <<a>> \in Seq(S) /\ <<a, b>> \in Seq(S) /\ <<a, b, c>> \in Seq(S)
    OBVIOUS
  <1>2. ASSUME NEW s \in Seq(S), NEW t \in Seq(S), Len(s) = Len(t),
               \A i \in 1..Len(s) : s[i] = t[i]
        PROVE  s = t
    BY <1>2, SeqEqual, Zenon
  <1>3. Append(<<a>>, b) = <<a, b>>
    <2>1. PICK s \in Seq(S) : s = Append(<<a>>, b)
      BY <1>1, AppendProperties
    <2>2. PICK t \in Seq(S) : t = <<a, b>>
      BY <1>1
    <2>3. Len(s) = 2 /\ s[1] = a /\ s[2] = b
      BY <1>1, <2>1, AppendProperties
    <2>4. Len(t) = 2 /\ t[1] = a /\ t[2] = b
      BY <2>2
    <2>5. s = t
      BY <1>2, <2>3, <2>4
    <2>. QED  BY <2>1, <2>2, <2>5, Zenon
  <1>4. Append(<<a, b>>, c) = <<a, b, c>>
    <2>1. PICK s \in Seq(S) : s = Append(<<a, b>>, c)
      BY <1>1, AppendProperties
    <2>2. PICK t \in Seq(S) : t = <<a, b, c>>
      BY <1>1
    <2>3. Len(s) = 3 /\ s[1] = a /\ s[2] = b /\ s[3] = c
      BY <1>1, <2>1, AppendProperties
    <2>4. Len(t) = 3 /\ t[1] = a /\ t[2] = b /\ t[3] = c
      BY <2>2
    <2>5. s = t
      BY <1>2, <2>3, <2>4
    <2>. QED  BY <2>1, <2>2, <2>5, Zenon
  <1>. QED  BY <1>3, <1>4, Zenon

\* What is appended to the statuses of a workflow, and how they are told apart.
LEMMA Statuses ==
    /\ Append(<<"STARTED">>, "FAILED") = <<"STARTED", "FAILED">>
    /\ \A q \in OpenSequences : Append(q, "COMPLETED") \in DoneSequences
    /\ \A q \in LegalSequences : q = <<>> \/ q \in OpenSequences \/ q \in DoneSequences
    /\ \A q \in OpenSequences : q \in LegalSequences /\ q # <<>> /\ q \notin DoneSequences
    /\ \A q \in DoneSequences : q \in LegalSequences /\ q # <<>>
    /\ <<>> \in LegalSequences
  <1>. DEFINE Status == {"STARTED", "FAILED", "COMPLETED"}
  <1>0. "STARTED" \in Status /\ "FAILED" \in Status /\ "COMPLETED" \in Status
    OBVIOUS
  <1>. HIDE DEF Status
  <1>1. Append(<<"STARTED">>, "FAILED") = <<"STARTED", "FAILED">>
    BY <1>0, Appends, Zenon
  <1>2. \A q \in OpenSequences : Append(q, "COMPLETED") \in DoneSequences
    <2>1. Append(<<"STARTED">>, "COMPLETED") = <<"STARTED", "COMPLETED">>
      BY <1>0, Appends, Zenon
    <2>2. Append(<<"STARTED", "FAILED">>, "COMPLETED") = <<"STARTED", "FAILED", "COMPLETED">>
      BY <1>0, Appends, Zenon
    <2>. QED  BY <2>1, <2>2, Zenon DEF OpenSequences, DoneSequences
  <1>3. \A q \in LegalSequences : q = <<>> \/ q \in OpenSequences \/ q \in DoneSequences
    BY DEF LegalSequences, OpenSequences, DoneSequences
  <1>4. \A q \in OpenSequences : q \in LegalSequences /\ q # <<>> /\ q \notin DoneSequences
    BY DEF LegalSequences, OpenSequences, DoneSequences
  <1>5. \A q \in DoneSequences : q \in LegalSequences /\ q # <<>>
    BY DEF LegalSequences, DoneSequences
  <1>6. <<>> \in LegalSequences
    BY DEF LegalSequences
  <1>. QED  BY <1>1, <1>2, <1>3, <1>4, <1>5, <1>6

\* How the model reads the statuses.
LEMMA Reading ==
    /\ ~Contains(<<"STARTED">>, "FAILED")
    /\ \A q \in LegalSequences : Contains(q, "COMPLETED") <=> q \in DoneSequences
    /\ \A q \in OpenSequences : Last(q) # "COMPLETED"
    /\ \A q \in DoneSequences : Last(q) = "COMPLETED"
  <1>1. ~Contains(<<"STARTED">>, "FAILED")
    BY DEF Contains
  <1>2. \A q \in LegalSequences : Contains(q, "COMPLETED") <=> q \in DoneSequences
    BY DEF Contains, LegalSequences, DoneSequences
  <1>3. \A q \in OpenSequences : Last(q) # "COMPLETED"
    BY DEF Last, OpenSequences
  <1>4. \A q \in DoneSequences : Last(q) = "COMPLETED"
    BY DEF Last, DoneSequences
  <1>. QED  BY <1>1, <1>2, <1>3, <1>4

-----------------------------------------------------------------------------
(* Steps that leave the receipts alone.                                    *)

\* The blank records, and what an update of one field makes of a job.
LEMMA Records ==
    ASSUME SessionAssumption
    PROVE  /\ NoReceipt \in WorkflowReceipt
           /\ NoJob \in [key : Key, value : Sealed, decision : Sealed]
           /\ \A k \in Key : /\ [NoJob EXCEPT !.key = k]
                                  \in [key : Key, value : Sealed, decision : Sealed]
                             /\ [NoJob EXCEPT !.key = k].key = k
           /\ \A q \in LegalSequences : \A v, d \in Sealed : \A r :
                 r = [statuses |-> q, outcome |-> v, decision |-> d]
                    => r \in WorkflowReceipt /\ r.statuses = q /\ r.outcome = v
  <1>1. NoOutcome \in Sealed
    BY DEF Sealed
  <1>2. <<"STARTUP", 1>> \in Key
    BY Keys
  <1>. QED  BY <1>1, <1>2, Statuses DEF NoReceipt, NoJob, WorkflowReceipt

\* Initially nothing is claimed.
LEMMA InitInv ==
    ASSUME SessionAssumption, WorkflowInit
    PROVE  IInv
  <1>1. \A k \in Key : ~Claimed(k) /\ ~Completed(k) /\ receipts[k].statuses = <<>>
    BY DEF WorkflowInit, Claimed, Completed, NoReceipt
  <1>2. Types
    BY Records, Keys DEF WorkflowInit, Types, Sealed
  <1>3. <<>> \notin DoneSequences
    BY Statuses
  <1>4. OpenWorkflows = {}
    BY <1>1 DEF OpenWorkflows
  <1>5. ReceiptInv /\ RowInv /\ OpenInv /\ JobInv
    BY <1>1, <1>3, <1>4 DEF WorkflowInit, ReceiptInv, RowInv, OpenInv, JobInv, InAct
  <1>6. SealedInv
    BY DEF WorkflowInit, SealedInv, ExecutedAsSealed
  <1>. QED  BY <1>2, <1>5, <1>6 DEF IInv

\* Unchanged receipts read the same.
LEMMA SameReceipts ==
    ASSUME UNCHANGED receipts
    PROVE  /\ OpenWorkflows' = OpenWorkflows
           /\ \A k : (Claimed(k)' <=> Claimed(k)) /\ (Completed(k)' <=> Completed(k))
  BY DEF OpenWorkflows, Claimed, Completed

\* An open workflow is what startup has to recover.
LEMMA UnresolvedIsOpen ==
    ASSUME Types, ReceiptInv
    PROVE  /\ Unresolved = OpenWorkflows
           /\ \A k \in Key : Claimed(k) /\ ~Completed(k) => receipts[k].statuses \in OpenSequences
  <1>1. \A k \in Key : /\ receipts[k].statuses \in LegalSequences
                       /\ Completed(k) <=> receipts[k].statuses \in DoneSequences
    BY DEF Types, WorkflowReceipt, ReceiptInv
  <1>2. \A k \in Key : Claimed(k) /\ ~Completed(k) => receipts[k].statuses \in OpenSequences
    BY <1>1, Statuses DEF Claimed
  <1>3. \A k \in Key : RequiresRecovery(k) <=> Claimed(k) /\ ~Completed(k)
    BY <1>1, <1>2, Statuses, Reading DEF RequiresRecovery, Claimed
  <1>. QED  BY <1>2, <1>3 DEF Unresolved, OpenWorkflows

\* Steps of the process and of the world that change neither receipts nor effects.
LEMMA PlainSteps ==
    ASSUME SessionAssumption, IInv,
           \/ Boot \/ ProcessDies \/ MarketMoves \/ Halt \/ Raise \/ StartupBegins \/ StartupRaises
           \/ Reconciling \/ StartupWorkflow \/ NothingPending \/ Ready \/ Finish
           \/ UNCHANGED workflowVars
    PROVE  IInv'
  <1>. USE SameReceipts, Keys
       DEF IInv, Types, ReceiptInv, RowInv, OpenInv, JobInv, SealedInv, ExecutedAsSealed, InAct,
           services, world
  <1>1. CASE Boot
    BY <1>1 DEF Boot
  <1>2. CASE ProcessDies
    BY <1>2, Records DEF ProcessDies
  <1>3. CASE MarketMoves
    BY <1>3 DEF MarketMoves, Session, SessionAssumption
  <1>4. CASE Halt
    BY <1>4 DEF Halt
  <1>5. CASE Raise
    BY <1>5, Records DEF Raise
  <1>6. CASE StartupBegins
    BY <1>6 DEF StartupBegins
  <1>7. CASE StartupRaises
    BY <1>7 DEF StartupRaises
  <1>8. CASE Reconciling
    BY <1>8 DEF Reconciling
  <1>9. CASE StartupWorkflow
    BY <1>9, Records DEF StartupWorkflow, Fresh
  <1>10. CASE NothingPending
    BY <1>10, UnresolvedIsOpen DEF NothingPending
  <1>11. CASE Ready
    BY <1>11 DEF Ready
  <1>12. CASE Finish
    BY <1>12 DEF Finish
  <1>13. CASE UNCHANGED workflowVars
    BY <1>13 DEF workflowVars
  <1>. QED
    BY <1>1, <1>2, <1>3, <1>4, <1>5, <1>6, <1>7, <1>8, <1>9, <1>10, <1>11, <1>12, <1>13

\* Recovery picks an open workflow: there is at most one.
LEMMA RecoverPendingStep ==
    ASSUME SessionAssumption, IInv, RecoverPending
    PROVE  IInv'
  <1>1. Unresolved = OpenWorkflows /\ Unresolved # {}
    BY UnresolvedIsOpen DEF IInv, RecoverPending
  <1>2. PICK x \in Unresolved : \A j \in Unresolved \ {x} : Before(x, j)
    BY <1>1 DEF IInv, OpenInv
  <1>. DEFINE k == CHOOSE k \in Unresolved : \A j \in Unresolved \ {k} : Before(k, j)
  <1>3. k \in Unresolved
    BY <1>2
  <1>4. k \in Key /\ Claimed(k)
    BY <1>1, <1>3 DEF OpenWorkflows
  <1>5. /\ pc' \in {"halting", "recover"}
        /\ job' = NoJob \/ job' = [NoJob EXCEPT !.key = k]
        /\ pc' = "recover" => job' = [NoJob EXCEPT !.key = k]
    BY DEF RecoverPending
  <1>. HIDE DEF k
  <1>6. job' \in [key : Key, value : Sealed, decision : Sealed]
        /\ (pc' = "recover" => job'.key = k)
    BY <1>4, <1>5, Records
  <1>7. UNCHANGED <<receipts, row, started, effects, frozen, executed, day, market>>
        /\ pc = "pending"
    BY DEF RecoverPending, services, world
  <1>8. Types' /\ ReceiptInv' /\ RowInv'
    BY <1>5, <1>6, <1>7, SameReceipts DEF IInv, Types, ReceiptInv, RowInv, InAct
  <1>9. OpenInv' /\ JobInv'
    BY <1>4, <1>5, <1>6, <1>7, SameReceipts DEF IInv, RowInv, OpenInv, JobInv, InAct
  <1>10. SealedInv'
    BY <1>7 DEF IInv, SealedInv, ExecutedAsSealed
  <1>. QED  BY <1>8, <1>9, <1>10 DEF IInv

\* A step is begun from a READY row, behind which nothing is open.
LEMMA BeginStep ==
    ASSUME SessionAssumption, IInv, NEW k \in Key, Begin(k)
    PROVE  IInv'
  <1>1. job' \in [key : Key, value : Sealed, decision : Sealed]
    BY Records DEF Begin
  <1>2. /\ UNCHANGED <<receipts, started, effects, frozen, executed, day, market>>
        /\ row = "READY" /\ row' = "EXECUTING" /\ pc' = "begun"
    BY DEF Begin, services, world
  <1>. QED
    BY <1>1, <1>2, SameReceipts
       DEF IInv, Types, ReceiptInv, RowInv, OpenInv, JobInv, SealedInv, ExecutedAsSealed, InAct

\* A step that passes its check has no receipt and, if it is an execution, the
\* sealed decision; or it has a receipt and is recovered.
LEMMA CheckStep ==
    ASSUME SessionAssumption, IInv, Check
    PROVE  IInv'
  <1>. DEFINE k == job.key
              d == IF Fresh(k) /\ k[1] = "NEXT_DAY_EXECUTION" /\ Admissible(k)
                   THEN frozen[k[2] - 1] ELSE NoOutcome
  <1>1. k \in Key /\ k[2] \in Session
    BY Keys DEF IInv, Types
  <1>2. k[1] = "NEXT_DAY_EXECUTION" /\ Admissible(k) => Linked(k[2] - 1)
    BY DEF Admissible
  <1>3. d \in Sealed
    BY <1>2 DEF IInv, Types, Linked, Sealed
  <1>4. /\ pc' \in {"claim", "recover", "halting"}
        /\ pc' = "claim" => Fresh(k) /\ Admissible(k)
        /\ pc' = "recover" => ~Fresh(k)
        /\ job' = [job EXCEPT !.decision = d]
        /\ UNCHANGED <<receipts, row, started, effects, frozen, executed, day, market>>
        /\ pc = "begun"
    BY DEF Check, services, world
  <1>5. pc' = "claim" /\ k[1] = "NEXT_DAY_EXECUTION" =>
           /\ k[2] - 1 \in Session /\ Completed(Decision(k[2] - 1))
           /\ d = receipts[Decision(k[2] - 1)].outcome
    BY <1>2, <1>4 DEF Linked
  <1>. HIDE DEF k, d
  <1>6. /\ job' \in [key : Key, value : Sealed, decision : Sealed]
        /\ job'.key = k /\ job'.decision = d
    BY <1>3, <1>4 DEF k, IInv, Types
  <1>7. Types' /\ ReceiptInv' /\ RowInv'
    BY <1>4, <1>6, SameReceipts DEF IInv, Types, ReceiptInv, RowInv, InAct
  <1>8. OpenInv'
    BY <1>4, SameReceipts DEF IInv, RowInv, OpenInv, InAct
  <1>9. JobInv'
    BY <1>4, <1>5, <1>6, SameReceipts DEF JobInv, InAct, Fresh
  <1>10. SealedInv'
    BY <1>4 DEF IInv, SealedInv, ExecutedAsSealed
  <1>. QED  BY <1>7, <1>8, <1>9, <1>10 DEF IInv

\* The service is called once per claim, and an execution with the decision
\* that its claim is bound to.
LEMMA ActStep ==
    ASSUME SessionAssumption, IInv, NEW v \in Outcome, Act(v)
    PROVE  IInv'
  <1>. DEFINE k == job.key
  <1>1. k \in Key /\ k[2] \in Session /\ v \in Sealed
    BY Keys DEF IInv, Types, Sealed
  <1>2. /\ pc = "act" /\ pc' \in {"seal", "failing"}
        /\ UNCHANGED <<receipts, row, started, day, market>>
        /\ Effect(k, v) \/ UNCHANGED <<effects, frozen, executed>>
        /\ job' = job \/ job' = [job EXCEPT !.value = v]
        /\ pc' = "seal" => job' = [job EXCEPT !.value = v]
    BY DEF Act, services, world
  <1>3. effects[k] = 0 /\ receipts[k].statuses = <<"STARTED">> /\ <<"STARTED">> # <<>>
    BY <1>2 DEF IInv, JobInv, InAct
  <1>4. /\ effects' \in [Key -> {0, 1}]
        /\ \A j \in Key : j # k => effects'[j] = effects[j]
    BY <1>1, <1>2, <1>3 DEF IInv, Types, Effect
  <1>5. frozen' \in [Session -> Sealed] /\ executed' \in [Session -> Sealed]
    BY <1>1, <1>2 DEF IInv, Types, Effect
  <1>6. /\ job' \in [key : Key, value : Sealed, decision : Sealed] /\ job'.key = k
        /\ pc' = "seal" => job'.value = v
    BY <1>1, <1>2 DEF IInv, Types
  <1>7. \A s \in Session :
           \/ executed'[s] = executed[s]
           \/ k[1] = "NEXT_DAY_EXECUTION" /\ s = k[2] /\ executed'[s] = job.decision
    BY <1>1, <1>2 DEF IInv, Types, Effect
  <1>. HIDE DEF k
  <1>8. Types' /\ RowInv'
    BY <1>2, <1>4, <1>5, <1>6 DEF IInv, Types, RowInv, InAct
  <1>9. ReceiptInv'
    BY <1>2, <1>3, <1>4, SameReceipts DEF IInv, ReceiptInv, Claimed
  <1>10. OpenInv'
    BY <1>2, <1>6, SameReceipts DEF k, IInv, OpenInv, InAct
  <1>11. JobInv'
    BY <1>2, <1>3, <1>6 DEF JobInv, InAct
  <1>12. SealedInv'
    <2>. SUFFICES ASSUME NEW s \in Session, executed'[s] # NoOutcome
                  PROVE  s > 1 /\ executed'[s] = receipts[Decision(s - 1)].outcome
      BY <1>2 DEF SealedInv, ExecutedAsSealed, Decision
    <2>1. CASE executed'[s] = executed[s]
      BY <2>1 DEF IInv, SealedInv, ExecutedAsSealed
    <2>2. CASE k[1] = "NEXT_DAY_EXECUTION" /\ s = k[2] /\ executed'[s] = job.decision
      BY <1>2, <2>2, Keys DEF k, IInv, JobInv, Session
    <2>. QED  BY <1>7, <2>1, <2>2
  <1>. QED  BY <1>8, <1>9, <1>10, <1>11, <1>12 DEF IInv

\* A replaced frozen decision changes nothing that was bound before.
LEMMA EditStep ==
    ASSUME SessionAssumption, IInv, NEW s \in Session, NEW v \in Outcome, Edit(s, v)
    PROVE  IInv'
  <1>1. frozen' \in [Session -> Sealed]
    BY DEF Edit, IInv, Types, Sealed
  <1>. QED
    BY <1>1, SameReceipts
       DEF Edit, world, IInv, Types, ReceiptInv, RowInv, OpenInv, JobInv,
           SealedInv, ExecutedAsSealed, InAct

-----------------------------------------------------------------------------
(* Receipts.                                                               *)

\* A claim opens a workflow that has no receipt, and only when nothing else is
\* open, unless it is the STARTUP that will recover what is.
LEMMA ClaimStep ==
    ASSUME SessionAssumption, IInv, Claim
    PROVE  IInv'
  <1>0. PICK k \in Key : k = job.key
    BY DEF IInv, Types
  <1>. DEFINE r == [NoReceipt EXCEPT !.statuses = <<"STARTED">>, !.decision = job.decision]
  <1>1. ~Claimed(k) /\ pc = "claim" /\ pc' = "act" /\ job.decision \in Sealed
    BY <1>0 DEF IInv, Types, JobInv, Claim
  <1>2. <<"STARTED">> \in LegalSequences /\ <<"STARTED">> # <<>> /\ <<"STARTED">> \notin DoneSequences
    BY Statuses DEF OpenSequences
  <1>3. /\ r \in WorkflowReceipt /\ r.statuses = <<"STARTED">> /\ r.outcome = NoOutcome
        /\ r.statuses # <<>> /\ r.statuses \notin DoneSequences
    <2>1. PICK q \in LegalSequences : q = <<"STARTED">>
      BY <1>2
    <2>2. PICK e \in WorkflowReceipt : e = [NoReceipt EXCEPT !.statuses = q]
      BY Records DEF WorkflowReceipt
    <2>3. e.statuses = q /\ e.outcome = NoOutcome
      BY <2>2 DEF NoReceipt
    <2>4. r = [e EXCEPT !.decision = job.decision]
      BY <2>1, <2>2
    <2>5. LET f == [e EXCEPT !.decision = job.decision]
          IN  f \in WorkflowReceipt /\ f.statuses = e.statuses /\ f.outcome = e.outcome
      BY <1>1 DEF WorkflowReceipt
    <2>6. q # <<>> /\ q \notin DoneSequences
      BY <1>2, <2>1
    <2>. QED  BY <2>1, <2>3, <2>4, <2>5, <2>6
  <1>4. <<>> \notin DoneSequences /\ ~Completed(k)
    BY <1>1, Statuses DEF IInv, ReceiptInv, Claimed
  <1>5. receipts' = [receipts EXCEPT ![k] = r]
        /\ UNCHANGED <<row, started, job, effects, frozen, executed, day, market>>
    BY <1>0 DEF Claim, services, world
  <1>. HIDE DEF r
  <1>6. /\ receipts' \in [Key -> WorkflowReceipt] /\ receipts'[k] = r
        /\ \A j \in Key \ {k} : receipts'[j] = receipts[j]
    BY <1>1, <1>3, <1>5 DEF IInv, Types
  <1>7. /\ Claimed(k)' /\ ~Completed(k)' /\ ~Completed(k)
        /\ \A j \in Key \ {k} : (Claimed(j)' <=> Claimed(j)) /\ (Completed(j)' <=> Completed(j))
    BY <1>3, <1>4, <1>6 DEF Claimed, Completed
  <1>8. OpenWorkflows' \subseteq OpenWorkflows \cup {k}
        /\ (k[1] = "STARTUP" => OpenWorkflows' = OpenWorkflows)
    BY <1>1, <1>7 DEF OpenWorkflows
  <1>9. Types' /\ RowInv'
    BY <1>1, <1>5, <1>6 DEF IInv, Types, RowInv, InAct
  <1>10. ReceiptInv'
    BY <1>3, <1>5, <1>6, <1>7 DEF IInv, ReceiptInv
  <1>11. OpenInv'
    BY <1>0, <1>1, <1>5, <1>8 DEF IInv, RowInv, OpenInv, InAct
  <1>12. \A s \in Session : k[1] = "NEXT_DAY_EXECUTION" => Decision(s) \in Key \ {k}
    <2>1. \A s \in Session : Decision(s) \in Key /\ Decision(s)[1] = "POST_CLOSE_DECISION"
      BY Keys DEF Decision
    <2>. QED  BY <2>1
  <1>13. effects[k] = 0
    BY <1>1 DEF IInv, Types, ReceiptInv
  <1>14. JobInv'
    BY <1>0, <1>1, <1>3, <1>5, <1>6, <1>7, <1>12, <1>13 DEF IInv, JobInv, InAct, Decision
  <1>15. SealedInv'
    <2>. SUFFICES ASSUME NEW s \in Session, executed[s] # NoOutcome
                  PROVE  s > 1 /\ executed[s] = receipts'[Decision(s - 1)].outcome
      BY <1>5 DEF SealedInv, ExecutedAsSealed, Decision
    <2>1. s > 1 /\ executed[s] = receipts[Decision(s - 1)].outcome
      BY DEF IInv, SealedInv, ExecutedAsSealed
    <2>2. s - 1 \in Session
      BY <2>1 DEF Session, SessionAssumption
    <2>3. Decision(s - 1) \in Key /\ Completed(Decision(s - 1))
      BY <2>1, <2>2, Keys DEF Completed
    <2>. QED  BY <1>6, <1>7, <2>1, <2>3
  <1>. QED  BY <1>9, <1>10, <1>11, <1>14, <1>15 DEF IInv

\* A workflow that was not sealed may get a status or its outcome: what was
\* sealed before keeps its receipt.
LEMMA UnsealedStep ==
    ASSUME SessionAssumption, IInv, NEW k \in Key, NEW r \in WorkflowReceipt,
           Claimed(k), ~Completed(k), r.statuses # <<>>,
           r.outcome # NoOutcome <=> r.statuses \in DoneSequences,
           receipts' = [receipts EXCEPT ![k] = r],
           UNCHANGED <<row, started, effects, frozen, executed, day, market>>
    PROVE  /\ receipts' \in [Key -> WorkflowReceipt] /\ receipts'[k] = r
           /\ \A j \in Key \ {k} : receipts'[j] = receipts[j]
           /\ ReceiptInv' /\ SealedInv'
           /\ OpenWorkflows' = IF r.outcome = NoOutcome THEN OpenWorkflows
                               ELSE OpenWorkflows \ {k}
  <1>1. /\ receipts' \in [Key -> WorkflowReceipt] /\ receipts'[k] = r
        /\ \A j \in Key \ {k} : receipts'[j] = receipts[j]
    BY DEF IInv, Types
  <1>2. /\ Claimed(k)' /\ (Completed(k)' <=> r.outcome # NoOutcome)
        /\ \A j \in Key \ {k} : (Claimed(j)' <=> Claimed(j)) /\ (Completed(j)' <=> Completed(j))
    BY <1>1 DEF Claimed, Completed
  <1>3. ReceiptInv'
    BY <1>1, <1>2 DEF IInv, ReceiptInv
  <1>4. SealedInv'
    <2>. SUFFICES ASSUME NEW s \in Session, executed[s] # NoOutcome
                  PROVE  s > 1 /\ executed[s] = receipts'[Decision(s - 1)].outcome
      BY DEF SealedInv, ExecutedAsSealed, Decision
    <2>1. s > 1 /\ executed[s] = receipts[Decision(s - 1)].outcome
      BY DEF IInv, SealedInv, ExecutedAsSealed
    <2>2. s - 1 \in Session
      BY <2>1 DEF Session, SessionAssumption
    <2>3. Decision(s - 1) \in Key /\ Completed(Decision(s - 1))
      BY <2>1, <2>2, Keys DEF Completed
    <2>. QED  BY <1>1, <2>1, <2>3
  <1>5. OpenWorkflows' = IF r.outcome = NoOutcome THEN OpenWorkflows ELSE OpenWorkflows \ {k}
    BY <1>2 DEF OpenWorkflows
  <1>. QED  BY <1>1, <1>3, <1>4, <1>5

\* What the seal of outcome v makes of a claimed receipt.
LEMMA SealedReceipt ==
    ASSUME SessionAssumption, Types, ReceiptInv, NEW k \in Key, NEW v \in Outcome,
           Claimed(k), ~Completed(k), NEW r,
           r = [receipts[k] EXCEPT !.statuses = Append(@, "COMPLETED"), !.outcome = v]
    PROVE  /\ r \in WorkflowReceipt /\ r.statuses \in DoneSequences /\ r.statuses # <<>>
           /\ r.outcome = v /\ v # NoOutcome
  <1>1. receipts[k].statuses \in OpenSequences
    BY UnresolvedIsOpen
  <1>2. PICK q \in DoneSequences : q = Append(receipts[k].statuses, "COMPLETED")
    BY <1>1, Statuses
  <1>3. receipts[k] \in WorkflowReceipt
    BY DEF Types
  <1>4. q \in LegalSequences /\ q # <<>>
    BY Statuses
  <1>5. v \in Sealed /\ v # NoOutcome
    BY DEF Sealed, SessionAssumption
  <1>6. r = [statuses |-> q, outcome |-> v, decision |-> receipts[k].decision]
    BY <1>2, <1>3 DEF WorkflowReceipt
  <1>7. r.statuses = q /\ r.outcome = v /\ r \in WorkflowReceipt
    <2>1. receipts[k].decision \in Sealed
      BY <1>3 DEF WorkflowReceipt
    <2>2. PICK d \in Sealed : d = receipts[k].decision
      BY <2>1
    <2>3. r = [statuses |-> q, outcome |-> v, decision |-> d]
      BY <1>6, <2>2
    <2>4. PICK e : e = [statuses |-> q, outcome |-> v, decision |-> d]
      OBVIOUS
    <2>5. e \in WorkflowReceipt /\ e.statuses = q /\ e.outcome = v
      BY <1>4, <1>5, <2>4, Records
    <2>6. r = e
      BY <2>3, <2>4, Zenon
    <2>. QED  BY <2>5, <2>6
  <1>. QED  BY <1>4, <1>5, <1>7

\* The seal ends the one open workflow.
LEMMA SealStep ==
    ASSUME SessionAssumption, IInv, Seal
    PROVE  IInv'
  <1>0. PICK k \in Key : k = job.key
    BY DEF IInv, Types
  <1>. DEFINE r == [receipts[k] EXCEPT !.statuses = Append(@, "COMPLETED"), !.outcome = job.value]
  <1>1. /\ pc = "seal" /\ job.value \in Outcome /\ row \in {"EXECUTING", "RECONCILING"}
        /\ receipts[k].statuses = <<"STARTED">>
    BY <1>0 DEF IInv, Types, JobInv, RowInv, Seal, InAct
  <1>2. Claimed(k) /\ ~Completed(k)
    <2>1. <<"STARTED">> # <<>> /\ <<"STARTED">> \notin DoneSequences
      BY Statuses DEF OpenSequences
    <2>. QED  BY <1>1, <2>1 DEF IInv, ReceiptInv, Claimed
  <1>3. UNCHANGED <<row, started, effects, frozen, executed, day, market>>
    BY DEF Seal, services, world
  <1>4. CASE pc' = "failing" /\ UNCHANGED <<receipts, job>>
    BY <1>1, <1>3, <1>4, SameReceipts
       DEF IInv, Types, ReceiptInv, RowInv, OpenInv, JobInv, SealedInv, ExecutedAsSealed, InAct
  <1>5. CASE /\ receipts' = [receipts EXCEPT ![job.key].statuses = Append(@, "COMPLETED"),
                                             ![job.key].outcome = job.value]
             /\ pc' = Return /\ job' = NoJob
    <2>1. receipts' = [receipts EXCEPT ![k] = r]
      BY <1>0, <1>1, <1>5 DEF IInv, Types
    <2>. HIDE DEF r
    <2>2. /\ r \in WorkflowReceipt /\ r.statuses \in DoneSequences /\ r.statuses # <<>>
          /\ r.outcome # NoOutcome
      <3>1. r = [receipts[k] EXCEPT !.statuses = Append(@, "COMPLETED"), !.outcome = job.value]
        BY DEF r
      <3>2. Types /\ ReceiptInv
        BY DEF IInv
      <3>. QED  BY <1>1, <1>2, <3>1, <3>2, SealedReceipt, Zenon
    <2>3. /\ receipts' \in [Key -> WorkflowReceipt]
          /\ ReceiptInv' /\ SealedInv'
          /\ OpenWorkflows' = OpenWorkflows \ {k}
      BY <1>1, <1>2, <1>3, <2>1, <2>2, UnsealedStep
    <2>4. pc' = IF row = "EXECUTING" THEN "finish" ELSE "pending"
      BY <1>5 DEF Return
    <2>5. Types' /\ RowInv'
      BY <1>1, <1>3, <1>5, <2>3, <2>4, Records DEF IInv, Types, RowInv, InAct
    <2>6. OpenInv' /\ JobInv'
      BY <1>0, <1>1, <1>3, <2>3, <2>4 DEF IInv, OpenInv, JobInv, InAct
    <2>. QED  BY <2>3, <2>5, <2>6 DEF IInv
  <1>. QED  BY <1>4, <1>5 DEF Seal

\* A failure leaves the workflow open, with or without its receipt.
LEMMA FailedStep ==
    ASSUME SessionAssumption, IInv, Failed
    PROVE  IInv'
  <1>0. PICK k \in Key : k = job.key
    BY DEF IInv, Types
  <1>. DEFINE r == [receipts[k] EXCEPT !.statuses = <<"STARTED", "FAILED">>]
  <1>1. /\ pc = "failing" /\ pc' = "halting" /\ job' = NoJob
        /\ receipts[k].statuses = <<"STARTED">>
    BY <1>0 DEF IInv, Types, JobInv, Failed, InAct
  <1>2. Claimed(k) /\ ~Completed(k)
    <2>1. <<"STARTED">> # <<>> /\ <<"STARTED">> \notin DoneSequences
      BY Statuses DEF OpenSequences
    <2>. QED  BY <1>1, <2>1 DEF IInv, ReceiptInv, Claimed
  <1>3. UNCHANGED <<row, started, effects, frozen, executed, day, market>>
    BY DEF Failed, services, world
  <1>4. CASE UNCHANGED receipts
    BY <1>1, <1>3, <1>4, SameReceipts, Records
       DEF IInv, Types, ReceiptInv, RowInv, OpenInv, JobInv, SealedInv, ExecutedAsSealed, InAct
  <1>5. CASE receipts' = [receipts EXCEPT ![job.key].statuses =
                             IF Contains(@, "FAILED") THEN @ ELSE Append(@, "FAILED")]
    <2>1. (IF Contains(receipts[k].statuses, "FAILED") THEN receipts[k].statuses
           ELSE Append(receipts[k].statuses, "FAILED")) = <<"STARTED", "FAILED">>
      BY <1>1, Statuses, Reading
    <2>2. receipts' = [receipts EXCEPT ![k] = r]
      BY <1>0, <1>5, <2>1
    <2>3. /\ <<"STARTED", "FAILED">> \in LegalSequences /\ <<"STARTED", "FAILED">> # <<>>
          /\ <<"STARTED", "FAILED">> \notin DoneSequences
      BY Statuses DEF OpenSequences
    <2>4. receipts[k] \in WorkflowReceipt /\ receipts[k].outcome = NoOutcome
      BY <1>1, <1>2 DEF IInv, Types, Completed
    <2>5. r \in WorkflowReceipt /\ r.statuses = <<"STARTED", "FAILED">> /\ r.outcome = NoOutcome
      BY <2>3, <2>4 DEF WorkflowReceipt
    <2>. HIDE DEF r
    <2>6. /\ receipts' \in [Key -> WorkflowReceipt]
          /\ ReceiptInv' /\ SealedInv'
          /\ OpenWorkflows' = OpenWorkflows
      BY <1>1, <1>2, <1>3, <2>2, <2>3, <2>5, UnsealedStep
    <2>7. Types' /\ RowInv'
      BY <1>1, <1>3, <2>6, Records DEF IInv, Types, RowInv, InAct
    <2>8. OpenInv' /\ JobInv'
      BY <1>1, <1>3, <2>6 DEF IInv, OpenInv, JobInv, InAct
    <2>. QED  BY <2>6, <2>7, <2>8 DEF IInv
  <1>. QED  BY <1>4, <1>5 DEF Failed

\* A recovery seals an open workflow, or finds a sealed one as it was sealed.
LEMMA RecoverStep ==
    ASSUME SessionAssumption, IInv, NEW v \in Outcome, Recover(v)
    PROVE  IInv'
  <1>0. PICK k \in Key : k = job.key
    BY DEF IInv, Types
  <1>. DEFINE r == [receipts[k] EXCEPT !.statuses = Append(@, "COMPLETED"), !.outcome = v]
  <1>1. /\ pc = "recover" /\ Claimed(k) /\ job' = NoJob
        /\ row \in {"EXECUTING", "RECONCILING"}
        /\ UNCHANGED <<row, started, effects, frozen, executed, day, market>>
        /\ pc' = "halting" \/ pc' = IF row = "EXECUTING" THEN "finish" ELSE "pending"
    BY <1>0 DEF IInv, Types, JobInv, RowInv, Recover, Return, services, world
  <1>2. CASE UNCHANGED receipts
    BY <1>1, <1>2, SameReceipts, Records
       DEF IInv, Types, ReceiptInv, RowInv, OpenInv, JobInv, SealedInv, ExecutedAsSealed, InAct
  <1>3. CASE ~UNCHANGED receipts
    <2>1. ~Completed(k) /\ receipts' = [receipts EXCEPT ![k].statuses = Append(@, "COMPLETED"),
                                                        ![k].outcome = v]
      BY <1>0, <1>3 DEF Recover, Recovered
    <2>2. receipts' = [receipts EXCEPT ![k] = r]
      BY <1>1, <2>1 DEF IInv, Types
    <2>. HIDE DEF r
    <2>3. /\ r \in WorkflowReceipt /\ r.statuses \in DoneSequences /\ r.statuses # <<>>
          /\ r.outcome # NoOutcome
      <3>1. r = [receipts[k] EXCEPT !.statuses = Append(@, "COMPLETED"), !.outcome = v]
        BY DEF r
      <3>2. Types /\ ReceiptInv
        BY DEF IInv
      <3>. QED  BY <1>1, <2>1, <3>1, <3>2, SealedReceipt, Zenon
    <2>4. /\ receipts' \in [Key -> WorkflowReceipt]
          /\ ReceiptInv' /\ SealedInv'
          /\ OpenWorkflows' = OpenWorkflows \ {k}
      BY <1>1, <2>1, <2>2, <2>3, UnsealedStep
    <2>5. Types' /\ RowInv'
      BY <1>1, <2>4, Records DEF IInv, Types, RowInv, InAct
    <2>6. OpenInv' /\ JobInv'
      BY <1>1, <2>4 DEF IInv, OpenInv, JobInv, InAct
    <2>. QED  BY <2>4, <2>5, <2>6 DEF IInv
  <1>. QED  BY <1>2, <1>3

-----------------------------------------------------------------------------
(* Theorems.                                                               *)

\* The invariant is inductive.
LEMMA StepInv ==
    ASSUME SessionAssumption, IInv, [WorkflowNext]_workflowVars
    PROVE  IInv'
  BY PlainSteps, RecoverPendingStep, BeginStep, CheckStep, ActStep, EditStep, ClaimStep,
     SealStep, FailedStep, RecoverStep
     DEF WorkflowNext

\* What holds at every step of the coordinator: receipts are legal and agree
\* with their outcome, at most one workflow is open, and none behind a READY
\* row (application/sessions.py, scheduling/sessions.py).
THEOREM WorkflowInvariant ==
    ASSUME SessionAssumption
    PROVE  WorkflowSpec => []IInv
  <1>1. WorkflowInit => IInv
    BY InitInv
  <1>2. IInv /\ [WorkflowNext]_workflowVars => IInv'
    BY StepInv
  <1>. QED  BY <1>1, <1>2, PTL DEF WorkflowSpec

\* A set whose members are all equal has at most one.
LEMMA AtMostOne ==
    ASSUME NEW S, \A j, k \in S : j = k
    PROVE  Cardinality(S) <= 1
  <1>1. CASE S = {}
    BY <1>1, FS_EmptySet
  <1>2. CASE S # {}
    <2>1. PICK x : S = {x}
      BY <1>2
    <2>2. Cardinality({x}) = 1
      BY FS_Singleton
    <2>. QED  BY <2>1, <2>2
  <1>. QED  BY <1>1, <1>2

\* A workflow's side effect is performed at most once however often the process
\* dies, at most one workflow is open, and READY means that none is, for every
\* number of sessions (scheduling/sessions.py claim, run_new,
\* recover_existing; application/sessions.py startup).
THEOREM WorkflowsAreRunOnce ==
    ASSUME SessionAssumption
    PROVE  WorkflowSpec => []WorkflowsRunOnce
  <1>1. IInv => SideEffectOnce /\ ReadyIsResolved
    BY DEF IInv, Types, OpenInv, SideEffectOnce, ReadyIsResolved
  <1>2. IInv => OneOpenWorkflow
    BY AtMostOne DEF IInv, OpenInv, OneOpenWorkflow
  <1>3. IInv => WorkflowTypeOK
    BY Reading DEF IInv, Types, ReceiptInv, WorkflowReceipt, Sealed, WorkflowTypeOK
  <1>. QED  BY <1>1, <1>2, <1>3, WorkflowInvariant, PTL DEF WorkflowsRunOnce

\* Every variable keeps its type, and the receipts of every workflow are one
\* of the sequences _read_states accepts (scheduling/sessions.py).
THEOREM WorkflowTypes ==
    ASSUME SessionAssumption
    PROVE  WorkflowSpec => []WorkflowTypeOK
  <1>1. IInv => WorkflowTypeOK
    BY Reading DEF IInv, Types, ReceiptInv, WorkflowReceipt, Sealed, WorkflowTypeOK
  <1>. QED  BY <1>1, WorkflowInvariant, PTL

\* No step changes what was sealed.
LEMMA SealedStays ==
    ASSUME SessionAssumption, IInv, [WorkflowNext]_workflowVars, NEW k \in Key, Completed(k)
    PROVE  receipts'[k] = receipts[k]
  <1>1. CASE UNCHANGED receipts
    BY <1>1
  <1>2. CASE Claim
    <2>1. k # job.key
      BY <1>2, Statuses DEF Claim, IInv, ReceiptInv, JobInv, Claimed
    <2>. QED  BY <1>2, <2>1 DEF Claim, IInv, Types
  <1>3. CASE Seal \/ Failed
    <2>1. <<"STARTED">> \notin DoneSequences
      BY Statuses DEF OpenSequences
    <2>2. k # job.key
      BY <1>3, <2>1 DEF Seal, Failed, IInv, ReceiptInv, JobInv, InAct
    <2>. QED  BY <1>3, <2>2 DEF Seal, Failed, IInv, Types
  <1>4. CASE \E v \in Outcome : Recover(v)
    BY <1>4 DEF Recover, Recovered, IInv, Types
  <1>. QED
    BY <1>1, <1>2, <1>3, <1>4
       DEF WorkflowNext, workflowVars, Boot, ProcessDies, MarketMoves, Halt, Raise,
           StartupBegins, StartupRaises,
           Reconciling, StartupWorkflow, RecoverPending, NothingPending, Ready, Begin, Check,
           Finish, Act, Edit

\* Every execution was given the decision sealed for the session before it,
\* although the frozen decision may be replaced at any time, and what was
\* sealed never changes (application/sessions.py _linked_decision).
THEOREM SealedDecisionIsExecuted ==
    ASSUME SessionAssumption
    PROVE  WorkflowSpec => ExecutesSealedDecision
  <1>1. IInv => \A s \in Session : ExecutedAsSealed(s)
    BY DEF IInv, SealedInv
  <1>2. IInv /\ [WorkflowNext]_workflowVars
           => [\A k \in Key : Completed(k) => receipts'[k] = receipts[k]]_workflowVars
    BY SealedStays
  <1>. QED  BY <1>1, <1>2, WorkflowInvariant, PTL
            DEF WorkflowSpec, ExecutesSealedDecision, SealIsFinal

-----------------------------------------------------------------------------
(* The event pump: what a callback thread, the queue and the journal hold. *)

Envelopes == {Envelope(e, o, r) : e \in Events, o \in 0..MaxTime, r \in 0..MaxTime}
Carried ==
    {[stage |-> "sink", ev |-> e, at |-> t] : e \in Events, t \in 0..MaxTime}
        \cup {[stage |-> "put", ev |-> env, at |-> t] : env \in Envelopes, t \in 0..MaxTime}
Places == {"connect", "subscribe_account", "subscribe", "top", "drain", "drained", "ended"}
Unsubscribed == {"connect", "subscribe_account", "subscribe"}

PumpTypes ==
    /\ PumpTypeOK
    /\ cb \in Carried \cup {Idle}
    /\ queue \in Seq(Envelopes)
    /\ \A entry \in journal : \E env \in Envelopes : entry = Row(env)
    /\ place \in Places

\* Nothing is carried, and so nothing lost, before the sink is subscribed.
SinkInv ==
    /\ place \in Unsubscribed => ~sink
    /\ ~sink => cb = Idle /\ lost = {}

PumpInv ==
    /\ PumpTypes /\ SinkInv
    /\ NoSilentLoss /\ OperationalIsRisk /\ OneContentPerId
    /\ pendingReason => place = "ended"

PumpAssumption == EventAssumption /\ BoundAssumption

\* What an envelope and its row carry.
LEMMA EnvelopeFacts ==
    ASSUME NEW env \in Envelopes
    PROVE  /\ env.ev \in Events /\ env.id[1] = env.ev /\ env.received \in 0..MaxTime
           /\ Row(env).id = env.id /\ Row(env).received = env.received
  BY DEF Envelopes, Envelope, EventId, Row

\* What the callback thread carries at each stage.
LEMMA CarriedFacts ==
    /\ Idle.stage = "idle"
    /\ \A c \in Carried : /\ c # Idle /\ c.stage \in {"sink", "put"}
                          /\ c.stage = "sink" => c.ev \in Events
                          /\ c.stage = "put" => c.ev \in Envelopes
                          /\ c.at \in 0..MaxTime
  BY DEF Idle, Carried

\* Before the first connect.
LEMMA PumpInitial ==
    ASSUME PumpAssumption, PumpInit
    PROVE  PumpInv
  <1>1. PumpTypeOK
    <2>1. queue = <<>> /\ now \in 0..MaxTime /\ deliveries \in 0..MaxDeliveries
      BY DEF PumpInit, PumpAssumption, BoundAssumption
    <2>2. Len(queue) <= Capacity
      BY <2>1 DEF PumpAssumption, BoundAssumption
    <2>. QED  BY <2>1, <2>2 DEF PumpInit, PumpTypeOK
  <1>2. PumpTypes
    BY <1>1 DEF PumpInit, PumpTypes, Places
  <1>. QED  BY <1>2 DEF PumpInit, PumpInv, SinkInv, NoSilentLoss, OperationalIsRisk, OneContentPerId

-----------------------------------------------------------------------------
(* One lemma per group of actions.                                         *)

\* The callback thread.
LEMMA PumpCallback ==
    ASSUME PumpAssumption, PumpInv, Callback
    PROVE  PumpInv'
  <1>. USE PumpAssumption, PumpInv DEF PumpAssumption, PumpInv, PumpTypes, PumpTypeOK, SinkInv
  <1>1. ASSUME NEW e \in Events, OnSdkEvent(e)
        PROVE  PumpInv'
    <2>1. deliveries' \in 0..MaxDeliveries
      BY <1>1 DEF OnSdkEvent, BoundAssumption
    <2>2. cb' \in Carried \cup {Idle}
      <3>1. [stage |-> "sink", ev |-> e, at |-> now] \in Carried
        BY <1>1 DEF Carried
      <3>. QED  BY <1>1, <3>1 DEF OnSdkEvent, FailCallback
    <2>3. UNCHANGED <<now, sink, pump, kept, daemon>>
      BY <1>1 DEF OnSdkEvent
    <2>4. /\ link' \in {"up", "down"} /\ connected' \in BOOLEAN
          /\ diagnostic' \in {"DISCONNECTED", "CONNECTED", "CONNECT_FAILED",
                              "CALLBACK_SCHEMA_INVALID", "CALLBACK_SINK_FAILED"}
          /\ lost' \subseteq Events
      BY <1>1 DEF OnSdkEvent, FailCallback
    <2>5. SinkInv'
      BY <1>1, <2>3 DEF OnSdkEvent, FailCallback, daemon, Running
    <2>6. NoSilentLoss'
      BY <1>1, <2>3 DEF OnSdkEvent, FailCallback, NoSilentLoss, Health, Running, daemon, pump
    <2>7. PumpTypes'
      BY <2>1, <2>2, <2>3, <2>4 DEF pump, kept, daemon
    <2>. QED  BY <2>3, <2>5, <2>6, <2>7 DEF kept, daemon, OperationalIsRisk, OneContentPerId
  <1>2. CASE AcceptHalted \/ AcceptUnusable
    <2>1. cb \in Carried /\ cb.stage = "sink"
      BY <1>2, CarriedFacts DEF AcceptHalted, AcceptUnusable
    <2>2. cb.ev \in Events
      BY <2>1, CarriedFacts
    <2>3. /\ UNCHANGED <<now, link, deliveries, connected, sink, queue, overflow, failed, kept, daemon>>
          /\ halt' = TRUE /\ cb' = Idle /\ diagnostic' = "CALLBACK_SINK_FAILED"
          /\ lost' = lost \cup {cb.ev}
      BY <1>2 DEF AcceptHalted, AcceptUnusable, FailCallback, pump
    <2>4. sink
      BY <2>1, CarriedFacts
    <2>5. PumpTypes'
      BY <2>2, <2>3 DEF kept, daemon
    <2>. QED  BY <2>3, <2>4, <2>5 DEF kept, daemon, NoSilentLoss, OperationalIsRisk, OneContentPerId
  <1>3. CASE Accept
    <2>1. cb \in Carried /\ cb.stage = "sink"
      BY <1>3, CarriedFacts DEF Accept
    <2>2. cb.ev \in Events /\ cb.at \in 0..MaxTime
      BY <2>1, CarriedFacts
    <2>3. Envelope(cb.ev, cb.at, now) \in Envelopes
      BY <2>2 DEF Envelopes
    <2>4. cb' \in Carried
      BY <1>3, <2>3 DEF Accept, Carried
    <2>5. sink
      BY <2>1, CarriedFacts
    <2>6. UNCHANGED <<now, link, deliveries, adapter, pump, kept, daemon, lost>>
      BY <1>3 DEF Accept
    <2>7. PumpTypes'
      BY <2>4, <2>6 DEF adapter, pump, kept, daemon
    <2>. QED  BY <2>5, <2>6, <2>7
              DEF adapter, pump, kept, daemon, NoSilentLoss, Health, Running, OperationalIsRisk,
                  OneContentPerId
  <1>4. CASE Put
    <2>1. cb \in Carried /\ cb.stage = "put"
      BY <1>4, CarriedFacts DEF Put
    <2>2. cb.ev \in Envelopes
      BY <2>1, CarriedFacts
    <2>3. queue' \in Seq(Envelopes) /\ Len(queue') = Len(queue) + 1
      BY <1>4, <2>2 DEF Put
    <2>4. Len(queue') <= Capacity
      BY <1>4, <2>3 DEF Put, BoundAssumption
    <2>5. UNCHANGED <<now, link, deliveries, adapter, halt, overflow, failed, kept, daemon, lost>> /\ cb' = Idle
      BY <1>4 DEF Put
    <2>6. PumpTypes'
      BY <2>3, <2>4, <2>5 DEF adapter, kept, daemon
    <2>. QED  BY <2>5, <2>6
              DEF adapter, kept, daemon, NoSilentLoss, Health, Running, OperationalIsRisk,
                  OneContentPerId
  <1>5. CASE Overflow
    <2>1. cb \in Carried /\ cb.stage = "put"
      BY <1>5, CarriedFacts DEF Overflow
    <2>2. cb.ev.ev \in Events
      BY <2>1, CarriedFacts, EnvelopeFacts
    <2>3. /\ UNCHANGED <<now, link, deliveries, connected, sink, queue, failed, kept, daemon>>
          /\ halt' = TRUE /\ cb' = Idle /\ diagnostic' = "CALLBACK_SINK_FAILED"
          /\ lost' = lost \cup {cb.ev.ev} /\ overflow' = cb.ev.ev
      BY <1>5 DEF Overflow, FailCallback
    <2>4. sink
      BY <2>1, CarriedFacts
    <2>5. PumpTypes'
      BY <2>2, <2>3 DEF kept, daemon
    <2>. QED  BY <2>3, <2>4, <2>5 DEF kept, daemon, NoSilentLoss, OperationalIsRisk, OneContentPerId
  <1>. QED  BY <1>1, <1>2, <1>3, <1>4, <1>5 DEF Callback

\* Connecting, the other steps of an iteration, and the ends of a process.
LEMMA PumpDaemon ==
    ASSUME PumpAssumption, PumpInv,
           \/ FacadeConnect \/ ConnectFails \/ SetConnected \/ Subscribe
           \/ HaltIfRequired \/ BeginDrain \/ EndDrain \/ Cycle \/ CycleFails \/ Stop \/ PumpCrash
    PROVE  PumpInv'
  <1>. USE PumpAssumption, PumpInv DEF PumpAssumption, PumpInv, PumpTypes, PumpTypeOK, SinkInv
  <1>1. UNCHANGED <<now, deliveries, cb, pump, journal, risk, pendingReason, lost>>
    BY DEF FacadeConnect, ConnectFails, SetConnected, Subscribe, HaltIfRequired, BeginDrain, EndDrain,
           Cycle, CycleFails, Stop, PumpCrash, kept
  <1>2. /\ link' \in {"up", "down"} /\ connected' \in BOOLEAN /\ sink' \in BOOLEAN
        /\ diagnostic' \in {"DISCONNECTED", "CONNECTED", "CONNECT_FAILED",
                            "CALLBACK_SCHEMA_INVALID", "CALLBACK_SINK_FAILED"}
        /\ halted' \in BOOLEAN /\ place' \in Places
    BY DEF FacadeConnect, ConnectFails, SetConnected, Subscribe, HaltIfRequired, HaltDaemon, BeginDrain,
           EndDrain, Cycle, CycleFails, Stop, PumpCrash, kept, adapter, Places
  <1>3. PumpTypes'
    BY <1>1, <1>2 DEF pump
  <1>4. SinkInv'
    BY <1>1 DEF FacadeConnect, ConnectFails, SetConnected, Subscribe, HaltIfRequired, HaltDaemon,
           BeginDrain, EndDrain, Cycle, CycleFails, Stop, PumpCrash, adapter, Unsubscribed
  <1>5. NoSilentLoss'
    BY <1>1 DEF NoSilentLoss, Health, Running, FacadeConnect, ConnectFails, SetConnected, Subscribe,
           HaltIfRequired, HaltDaemon, BeginDrain, EndDrain, Cycle, CycleFails, Stop, PumpCrash, adapter,
           pump, Unsubscribed
  <1>6. pendingReason' => place' = "ended"
    BY <1>1 DEF FacadeConnect, ConnectFails, SetConnected, Subscribe, HaltIfRequired, HaltDaemon,
           BeginDrain, EndDrain, Cycle, CycleFails, Stop, PumpCrash
  <1>. QED  BY <1>1, <1>3, <1>4, <1>5, <1>6 DEF OperationalIsRisk, OneContentPerId

\* A new process has lost nothing yet.
LEMMA PumpRestart ==
    ASSUME PumpAssumption, PumpInv, Restart
    PROVE  PumpInv'
  <1>. USE PumpAssumption, PumpInv DEF PumpAssumption, PumpInv, PumpTypes, PumpTypeOK
  <1>1. PumpTypes'
    <2>1. queue' = <<>>
      BY DEF Restart
    <2>2. Len(queue') <= Capacity
      BY <2>1 DEF BoundAssumption
    <2>3. UNCHANGED <<now, deliveries, journal>>
      BY DEF Restart
    <2>4. PumpTypeOK'
      BY <2>2, <2>3 DEF Restart
    <2>5. queue' \in Seq(Envelopes)
      BY <2>1
    <2>. QED  BY <2>3, <2>4, <2>5 DEF Restart, Places
  <1>. QED  BY <1>1 DEF Restart, SinkInv, NoSilentLoss, OperationalIsRisk, OneContentPerId

\* The clock.
LEMMA PumpTick ==
    ASSUME PumpAssumption, PumpInv, Tick
    PROVE  PumpInv'
  <1>. USE PumpAssumption, PumpInv DEF PumpAssumption, PumpInv, PumpTypes, PumpTypeOK
  <1>1. now' \in 0..MaxTime
    BY DEF Tick, BoundAssumption
  <1>2. UNCHANGED <<link, deliveries, adapter, cb, pump, kept, daemon, lost>>
    BY DEF Tick
  <1>3. PumpTypes'
    BY <1>1, <1>2 DEF adapter, pump, kept, daemon
  <1>. QED  BY <1>2, <1>3 DEF adapter, pump, kept, daemon, SinkInv, NoSilentLoss, Health, Running,
                               OperationalIsRisk, OneContentPerId

\* One event is journaled with its risk row, or the process ends.
LEMMA PumpDispatch ==
    ASSUME PumpAssumption, PumpInv, DispatchOne
    PROVE  PumpInv'
  <1>. USE PumpAssumption, PumpInv DEF PumpAssumption, PumpInv, PumpTypes, PumpTypeOK
  <1>. DEFINE env == Head(queue)
  <1>1. env \in Envelopes /\ queue' \in Seq(Envelopes) /\ Len(queue') <= Capacity
    <2>1. queue # <<>> /\ queue' = Tail(queue)
      BY DEF DispatchOne
    <2>2. Len(queue') = Len(queue) - 1 /\ Len(queue) \in Nat
      BY <2>1
    <2>. QED  BY <2>1, <2>2 DEF BoundAssumption
  <1>2. /\ env.ev \in Events /\ env.id[1] = env.ev /\ env.received \in 0..MaxTime
        /\ Row(env).id = env.id /\ Row(env).received = env.received
    BY <1>1, EnvelopeFacts
  <1>3. UNCHANGED <<now, deliveries, sink, cb, overflow, lost>> /\ place = "drain" /\ ~pendingReason
    BY DEF DispatchOne
  <1>4. CASE IdCollides(env)
    <2>1. WriterFails(env) /\ UNCHANGED <<journal, risk, pendingReason>>
      BY <1>4 DEF DispatchOne
    <2>2. PumpTypes'
      BY <1>1, <1>2, <1>3, <2>1 DEF WriterFails, HaltDaemon, Places
    <2>. QED  BY <1>3, <2>1, <2>2 DEF WriterFails, HaltDaemon, SinkInv, NoSilentLoss, OperationalIsRisk,
                                       OneContentPerId, Unsubscribed
  <1>5. CASE ~IdCollides(env)
    <2>1. /\ Journal(env)
          /\ IF pendingReason' THEN WriterFails(env)
             ELSE UNCHANGED <<halted, connected, diagnostic, link, place, failed, halt>>
      BY <1>5 DEF DispatchOne
    <2>2. journal' = journal \cup {Row(env)}
      BY <2>1 DEF Journal
    <2>3. pendingReason' \in BOOLEAN
      BY <2>1 DEF Journal
    <2>4. /\ failed' \in Events \cup {None} /\ halt' \in BOOLEAN /\ halted' \in BOOLEAN
          /\ connected' \in BOOLEAN /\ link' \in {"up", "down"} /\ place' \in Places
          /\ diagnostic' \in {"DISCONNECTED", "CONNECTED", "CONNECT_FAILED",
                              "CALLBACK_SCHEMA_INVALID", "CALLBACK_SINK_FAILED"}
      BY <2>1, <1>2 DEF WriterFails, HaltDaemon, Places
    <2>5. PumpTypes'
      BY <1>1, <1>2, <1>3, <2>2, <2>3, <2>4
    <2>6. OneContentPerId'
      <3>1. \A entry \in journal : entry.id = env.id => entry = Row(env)
        BY <1>5 DEF IdCollides
      <3>. QED  BY <1>2, <2>2, <3>1 DEF OneContentPerId
    <2>7. OperationalIsRisk'
      <3>1. CASE Row(env) \in journal
        BY <2>1, <2>2, <3>1 DEF Journal, OperationalIsRisk
      <3>2. CASE Row(env) \notin journal
        <4>1. risk \subseteq risk'
          BY <2>1 DEF Journal
        <4>2. env.ev \in Operational \cup {Disconnected} => env.id \in risk'
          BY <2>1, <3>2 DEF Journal
        <4>. QED  BY <1>2, <2>2, <4>1, <4>2 DEF OperationalIsRisk
      <3>. QED  BY <3>1, <3>2
    <2>8. SinkInv' /\ NoSilentLoss'
      BY <1>3, <2>1 DEF WriterFails, HaltDaemon, SinkInv, NoSilentLoss, Health, Running, Unsubscribed
    <2>9. pendingReason' => place' = "ended"
      BY <2>1 DEF WriterFails, HaltDaemon
    <2>. QED  BY <2>5, <2>6, <2>7, <2>8, <2>9
  <1>. QED  BY <1>4, <1>5

\* PumpInv is an inductive invariant of the pump: callbacks of any kind and number, in any order
\* with connect, the drain, a full queue and the end of the process (event_pump.py,
\* xtquant_production.py, production_events.py).
THEOREM PumpInvariant ==
    ASSUME PumpAssumption
    PROVE  PumpSpec => []PumpInv
  <1>1. PumpInit => PumpInv
    BY PumpInitial
  <1>2. PumpInv /\ [PumpNext]_pumpVars => PumpInv'
    <2>. SUFFICES ASSUME PumpInv, [PumpNext]_pumpVars
                  PROVE  PumpInv'
      OBVIOUS
    <2>1. CASE PumpNext
      BY <2>1, PumpCallback, PumpDaemon, PumpDispatch, PumpRestart, PumpTick DEF PumpNext, Daemon, Loop
    <2>2. CASE UNCHANGED pumpVars
      BY <2>2 DEF pumpVars, adapter, pump, kept, daemon, PumpInv, PumpTypes, PumpTypeOK, SinkInv,
                  NoSilentLoss, Health, Running, OperationalIsRisk, OneContentPerId
    <2>. QED  BY <2>1, <2>2
  <1>. QED  BY <1>1, <1>2, PTL DEF PumpSpec

\* No callback that reached a subscribed adapter is lost without a trace, an operational one has
\* its risk row and ends the cycles, and one id has one content, for any queue capacity and any
\* callbacks (event_pump.py, production_events.py, repositories.py).
THEOREM PumpKeepsEvents ==
    ASSUME PumpAssumption
    PROVE  PumpSpec => EventsAreKept
  <1>1. PumpInv => PumpTypeOK /\ NoSilentLoss /\ OperationalIsRisk /\ OneContentPerId
    BY DEF PumpInv, PumpTypes
  <1>2. PumpInv /\ [PumpNext]_pumpVars
           => [place = "drained" /\ place' = "top" => ~pendingReason]_pumpVars
    BY DEF PumpInv
  <1>. QED  BY <1>1, <1>2, PumpInvariant, PTL DEF PumpSpec, EventsAreKept, NoCycleAfterRisk
=============================================================================
