---------------------------- MODULE PlatformProofs ----------------------------
(***************************************************************************)
(* Proofs about MCPlatform: types; work touches the rows of its own tenant *)
(* only; no report is delivered twice; the team screen never locks         *)
(* everybody out; and an invitation, its membership and its role stay      *)
(* together.  They hold for any number of tenants, workers, connections,   *)
(* nested blocks, schedules, people and offers.                            *)
(***************************************************************************)
EXTENDS MCPlatform, SumTheorems, SequenceTheorems, TLAPS

-----------------------------------------------------------------------------
(* Tenant isolation: what work, a block and a connection remember.         *)

Block == [kind : {"tenant", "lookup"}, var : Tenant \cup {None}, was : Setting, outer : BOOLEAN]

Work == [kind : {"none", "request", "exempt", "task"},
         at : {"idle", "arrived", "admitted", "open"},
         user : User \cup {None}, wants : Tenant \cup {None}, granted : Tenant \cup {None},
         var : Tenant \cup {None}, blocks : Seq(Block), conn : Connection \cup {None},
         touched : SUBSET Tenant]

DbSession == [user : Worker \cup {None}, now : Setting]

(* What the ContextVar and the settings of work k may be bound to, and     *)
(* whether its innermost block, or the one around block i, is a lookup.    *)
Bindable(k)  == {None, k.granted}
Ends(k)      == k.blocks # <<>> /\ k.blocks[Len(k.blocks)].kind = "lookup"
Within(k, i) == i > 1 /\ k.blocks[i - 1].kind = "lookup"

(* A block restores what the work may be bound to, and a bypass only into  *)
(* the lookup around it.  Only the first block of a task began without a   *)
(* transaction: what it restores is no longer read.                        *)
BlockOK(k, i) == LET b == k.blocks[i] IN
  /\ b.was.tenant \in Bindable(k) /\ (b.was.bypass => Within(k, i))
  /\ b.outer <=> k.kind = "task" /\ i = 1
  /\ b.outer => b.kind = "tenant"
  /\ b.kind = "tenant" /\ ~b.outer => b.var \in Bindable(k)

BlocksOK(k) == \A i \in 1..Len(k.blocks) : BlockOK(k, i)

WorkOK(k) ==
  /\ k.at = "idle" => k = Idle
  /\ k.at = "arrived" => k.granted = None
  /\ k.at # "open" => k.blocks = <<>> /\ k.conn = None /\ k.var = None
  /\ k.at = "open" /\ k.kind = "task" => (k.conn = None <=> k.blocks = <<>>)
  /\ k.at = "open" /\ k.kind # "task" => k.conn # None
  /\ k.kind = "task" => k.at = "open"
  /\ k.at # "idle" => k.kind # "none"
  /\ k.conn # None => k.var \in Bindable(k)
  /\ k.touched \subseteq {k.granted}
  /\ Len(k.blocks) <= MaxDepth
  /\ BlocksOK(k)

(* The settings a connection has while work k uses it.                     *)
BoundTo(k, s) == s.tenant \in Bindable(k) /\ (s.bypass => Ends(k))

Pooled == \A c \in Connection :
  /\ session[c].user = None => session[c] = Free
  /\ \A w \in Worker : session[c].user = w => ws[w].conn = c

WorkerInv(w) ==
  /\ WorkOK(ws[w])
  /\ ws[w].conn # None => session[ws[w].conn].user = w /\ BoundTo(ws[w], session[ws[w].conn].now)

Typed ==
  /\ member \subseteq User \X Tenant
  /\ session \in [Connection -> DbSession] /\ ws \in [Worker -> Work]

Inv == Typed /\ Pooled /\ \A w \in Worker : WorkerInv(w)

-----------------------------------------------------------------------------
(* Sequences of blocks.                                                    *)

LEMMA Prefix ==
  ASSUME NEW S, NEW s \in Seq(S), NEW n \in 0..Len(s)
  PROVE  /\ SubSeq(s, 1, n) \in Seq(S) /\ Len(SubSeq(s, 1, n)) = n
         /\ \A i \in 1..n : SubSeq(s, 1, n)[i] = s[i]
OBVIOUS

LEMMA LastAndFront ==
  ASSUME NEW S, NEW s \in Seq(S), s # <<>>
  PROVE  /\ Len(s) \in Nat /\ Len(s) >= 1 /\ Last(s) = s[Len(s)] /\ Last(s) \in S
         /\ Front(s) \in Seq(S) /\ Len(Front(s)) = Len(s) - 1
         /\ \A i \in 1..Len(s) - 1 : Front(s)[i] = s[i]
<1>1. Len(s) \in Nat /\ Len(s) >= 1 /\ s[Len(s)] \in S
  OBVIOUS
<1>2. Len(s) - 1 \in 0..Len(s)
  BY <1>1
<1>3. /\ Front(s) \in Seq(S) /\ Len(Front(s)) = Len(s) - 1
      /\ \A i \in 1..Len(s) - 1 : Front(s)[i] = s[i]
  BY ONLY <1>2, Prefix DEF Front
<1> QED
  BY <1>1, <1>3 DEF Last

LEMMA LastOfAppend ==
  ASSUME NEW S, NEW s \in Seq(S), NEW e \in S
  PROVE  /\ Append(s, e) \in Seq(S) /\ Len(Append(s, e)) = Len(s) + 1
         /\ Len(s) \in Nat /\ Append(s, e)[Len(s) + 1] = e /\ Append(s, e) # <<>>
         /\ \A i \in 1..Len(s) : Append(s, e)[i] = s[i]
OBVIOUS

-----------------------------------------------------------------------------
(* What one worker's step has to show: of its own work, and that it only   *)
(* touches connections that are free or its own.                           *)
LEMMA OneMoves ==
  ASSUME Inv, NEW w \in Worker, NEW k \in Work, WorkOK(k),
         ws' = [ws EXCEPT ![w] = k], member' = member,
         session' \in [Connection -> DbSession],
         \A c \in Connection : \/ session'[c] = session[c] /\ session[c].user # w
                               \/ /\ session[c].user \in {None, w}
                                  /\ session'[c].user = w /\ k.conn = c
                               \/ session[c].user \in {None, w} /\ session'[c] = Free,
         k.conn # None =>
           session'[k.conn].user = w /\ BoundTo(k, session'[k.conn].now)
  PROVE  Inv'
<1>1. /\ ws \in [Worker -> Work] /\ session \in [Connection -> DbSession]
      /\ member \subseteq User \X Tenant
  BY DEF Inv, Typed
<1>2. ws' \in [Worker -> Work] /\ ws'[w] = k /\ \A v \in Worker : v # w => ws'[v] = ws[v]
  BY <1>1
<1>3. Typed'
  BY <1>1, <1>2 DEF Typed
<1>4. w # None /\ Free.user = None
  BY TenancyConstants DEF Free
<1>5. Pooled'
  <2> SUFFICES ASSUME NEW c \in Connection
      PROVE /\ session'[c].user = None => session'[c] = Free
            /\ \A v \in Worker : session'[c].user = v => ws'[v].conn = c
    BY DEF Pooled
  <2>1. CASE session'[c] = session[c] /\ session[c].user # w
    BY <2>1, <1>2 DEF Inv, Pooled
  <2>2. CASE session'[c].user = w /\ k.conn = c
    BY <2>2, <1>2, <1>4
  <2>3. CASE session'[c] = Free
    BY <2>3, <1>4, TenancyConstants
  <2> QED
    BY <2>1, <2>2, <2>3
<1>6. ASSUME NEW v \in Worker PROVE WorkerInv(v)'
  <2>1. CASE v = w
    BY <2>1, <1>2 DEF WorkerInv
  <2>2. CASE v # w
    <3>1. ws'[v] = ws[v] /\ WorkerInv(v) /\ ws[v].conn \in Connection \cup {None}
      BY <2>2, <1>1, <1>2 DEF Inv, Work
    <3>2. ASSUME ws[v].conn # None PROVE session'[ws[v].conn] = session[ws[v].conn]
      <4>1. session[ws[v].conn].user = v /\ ws[v].conn \in Connection /\ v # None
        BY <3>1, <3>2, TenancyConstants DEF WorkerInv
      <4> QED
        BY <4>1, <2>2
    <3> QED
      BY <3>1, <3>2 DEF WorkerInv
  <2> QED
    BY <2>1, <2>2
<1> QED
  BY <1>3, <1>5, <1>6 DEF Inv

LEMMA IdleOK == Idle \in Work /\ WorkOK(Idle)
<1>1. Idle.blocks = <<>> /\ Len(Idle.blocks) = 0 /\ <<>> \in Seq(Block)
  BY DEF Idle
<1>2. Idle \in Work
  BY <1>1 DEF Idle, Work
<1>3. BlocksOK(Idle)
  BY <1>1 DEF BlocksOK
<1> QED
  BY <1>1, <1>2, <1>3, TenancyConstants DEF WorkOK, Idle

(* What the invariant says of one worker.                                  *)
LEMMA OfWorker ==
  ASSUME Inv, NEW w \in Worker
  PROVE  /\ ws[w] \in Work /\ WorkOK(ws[w]) /\ w # None
         /\ \A c \in Connection : /\ session[c] \in DbSession
                                  /\ session[c].user = None => session[c] = Free
                                  /\ session[c].user = w => ws[w].conn = c
         /\ ws[w].conn # None => /\ ws[w].conn \in Connection
                                 /\ session[ws[w].conn].user = w
                                 /\ BoundTo(ws[w], session[ws[w].conn].now)
<1>1. ws[w] \in Work /\ \A c \in Connection : session[c] \in DbSession
  BY DEF Inv, Typed
<1>2. ws[w].conn \in Connection \cup {None}
  BY <1>1 DEF Work
<1> QED
  BY <1>1, <1>2, TenancyConstants DEF Inv, WorkerInv, Pooled

(* Work that leaves its connection as it is.                               *)
LEMMA QuietMove ==
  ASSUME Inv, NEW w \in Worker, NEW k \in Work, WorkOK(k),
         ws' = [ws EXCEPT ![w] = k], UNCHANGED <<member, session>>,
         k.conn = ws[w].conn,
         k.conn # None => BoundTo(k, session[k.conn].now)
  PROVE  Inv'
<1>1. session \in [Connection -> DbSession]
  BY DEF Inv, Typed
<1>2. \A c \in Connection : session[c].user = w => k.conn = c
  BY OfWorker
<1>3. k.conn # None => session[k.conn].user = w
  BY OfWorker
<1> QED
  BY <1>1, <1>2, <1>3, OneMoves

(* Work that takes a connection from the pool.                             *)
LEMMA Connects ==
  ASSUME Inv, NEW w \in Worker, NEW k \in Work, WorkOK(k), NEW c \in Connection,
         NEW s \in Setting, ws' = [ws EXCEPT ![w] = k], member' = member,
         session' = [session EXCEPT ![c] = [user |-> w, now |-> s]],
         session[c].user = None, ws[w].conn = None, k.conn = c, BoundTo(k, s)
  PROVE  Inv'
<1>1. session \in [Connection -> DbSession]
  BY DEF Inv, Typed
<1>2. /\ session' \in [Connection -> DbSession] /\ session'[c] = [user |-> w, now |-> s]
      /\ \A d \in Connection : d # c => session'[d] = session[d]
  BY <1>1 DEF DbSession
<1>3. \A d \in Connection : session[d].user # w
  BY OfWorker, TenancyConstants
<1>4. \A d \in Connection : \/ session'[d] = session[d] /\ session[d].user # w
                            \/ /\ session[d].user \in {None, w}
                               /\ session'[d].user = w /\ k.conn = d
                            \/ session[d].user \in {None, w} /\ session'[d] = Free
  BY <1>2, <1>3
<1>5. k.conn # None => session'[k.conn].user = w /\ BoundTo(k, session'[k.conn].now)
  BY <1>2
<1> QED
  BY <1>2, <1>4, <1>5, OneMoves

(* Work that changes the settings of its transaction.                      *)
LEMMA Rebinds ==
  ASSUME Inv, NEW w \in Worker, NEW k \in Work, WorkOK(k), NEW s \in Setting,
         ws' = [ws EXCEPT ![w] = k], member' = member, ws[w].conn # None,
         SetLocal(ws[w].conn, s), k.conn = ws[w].conn, BoundTo(k, s)
  PROVE  Inv'
<1> DEFINE c == ws[w].conn
<1>1. /\ session \in [Connection -> DbSession] /\ c \in Connection /\ session[c].user = w
      /\ \A d \in Connection : session[d].user = w => c = d
  BY OfWorker DEF Inv, Typed
<1>2. /\ session' \in [Connection -> DbSession]
      /\ session'[c].user = w /\ session'[c].now = s
      /\ \A d \in Connection : d # c => session'[d] = session[d]
  BY <1>1 DEF DbSession, SetLocal
<1>3. k.conn = c
  OBVIOUS
<1> HIDE DEF c
<1>4. \A d \in Connection : \/ session'[d] = session[d] /\ session[d].user # w
                            \/ /\ session[d].user \in {None, w}
                               /\ session'[d].user = w /\ k.conn = d
                            \/ session[d].user \in {None, w} /\ session'[d] = Free
  BY <1>1, <1>2, <1>3
<1>5. k.conn # None => session'[k.conn].user = w /\ BoundTo(k, session'[k.conn].now)
  BY <1>2, <1>3
<1> QED
  BY <1>2, <1>4, <1>5, OneMoves

(* Work whose transaction ends.                                            *)
LEMMA Disconnects ==
  ASSUME Inv, NEW w \in Worker, NEW k \in Work, WorkOK(k),
         ws' = [ws EXCEPT ![w] = k], member' = member, k.conn = None,
         session' = [d \in Connection |-> IF session[d].user = w THEN Free ELSE session[d]]
  PROVE  Inv'
<1>1. session \in [Connection -> DbSession] /\ Free \in DbSession
  BY DEF Inv, Typed, Free, Unset, DbSession, Setting
<1>2. /\ session' \in [Connection -> DbSession]
      /\ \A d \in Connection : session'[d] = IF session[d].user = w THEN Free ELSE session[d]
  BY <1>1
<1>3. \A d \in Connection : \/ session'[d] = session[d] /\ session[d].user # w
                            \/ /\ session[d].user \in {None, w}
                               /\ session'[d].user = w /\ k.conn = d
                            \/ session[d].user \in {None, w} /\ session'[d] = Free
  BY <1>2
<1>4. k.conn # None => session'[k.conn].user = w /\ BoundTo(k, session'[k.conn].now)
  OBVIOUS
<1> QED
  BY <1>2, <1>3, <1>4, OneMoves

-----------------------------------------------------------------------------
(* Blocks that begin and end.                                              *)
LEMMA Pushed ==
  ASSUME NEW k \in Work, BlocksOK(k), NEW b \in Block, NEW k2 \in Work,
         k2.blocks = Append(k.blocks, b), k2.kind = k.kind,
         Bindable(k) \subseteq Bindable(k2),
         b.was.tenant \in Bindable(k2), b.was.bypass => Ends(k),
         b.outer <=> k.kind = "task" /\ k.blocks = <<>>,
         b.outer => b.kind = "tenant",
         b.kind = "tenant" /\ ~b.outer => b.var \in Bindable(k2)
  PROVE  BlocksOK(k2)
<1> DEFINE n == Len(k.blocks)
<1>1. k.blocks \in Seq(Block)
  BY DEF Work
<1>2. /\ Len(k2.blocks) = n + 1 /\ n \in Nat /\ k2.blocks[n + 1] = b
      /\ \A i \in 1..n : k2.blocks[i] = k.blocks[i]
  BY <1>1, LastOfAppend
<1>3. k.blocks = <<>> <=> n = 0
  BY <1>1
<1>4. ASSUME NEW i \in 1..n PROVE BlockOK(k2, i)
  <2>1. BlockOK(k, i) /\ k2.blocks[i] = k.blocks[i]
    BY <1>2, <1>4 DEF BlocksOK
  <2>2. Within(k2, i) <=> Within(k, i)
    BY <1>2, <1>4 DEF Within
  <2> QED
    BY <2>1, <2>2 DEF BlockOK
<1>5. BlockOK(k2, n + 1)
  <2>1. Within(k2, n + 1) <=> Ends(k)
    BY <1>2, <1>3 DEF Within, Ends
  <2>2. n + 1 = 1 <=> k.blocks = <<>>
    BY <1>2, <1>3
  <2> HIDE DEF n
  <2> QED
    BY <1>2, <2>1, <2>2 DEF BlockOK
<1>6. \A i \in 1..n + 1 : i \in 1..n \/ i = n + 1
  BY <1>2
<1> HIDE DEF n
<1> QED
  BY <1>2, <1>4, <1>5, <1>6 DEF BlocksOK

LEMMA Popped ==
  ASSUME NEW k \in Work, BlocksOK(k), k.blocks # <<>>, NEW k2 \in Work,
         k2.blocks = Front(k.blocks), k2.kind = k.kind, k2.granted = k.granted
  PROVE  /\ BlocksOK(k2) /\ BlockOK(k, Len(k.blocks)) /\ Last(k.blocks) = k.blocks[Len(k.blocks)]
         /\ Len(k2.blocks) = Len(k.blocks) - 1 /\ Len(k.blocks) \in Nat \ {0}
         /\ Last(k.blocks) \in Block
         /\ Last(k.blocks).was.bypass => Ends(k2)
<1> DEFINE n == Len(k.blocks)
<1>1. k.blocks \in Seq(Block)
  BY DEF Work
<1>2. /\ Len(k2.blocks) = n - 1 /\ n \in Nat /\ n >= 1 /\ Last(k.blocks) = k.blocks[n]
      /\ Last(k.blocks) \in Block
      /\ \A i \in 1..n - 1 : k2.blocks[i] = k.blocks[i]
  BY <1>1, LastAndFront
<1>3. ASSUME NEW i \in 1..n - 1 PROVE BlockOK(k2, i)
  <2>1. BlockOK(k, i) /\ k2.blocks[i] = k.blocks[i]
    BY <1>2, <1>3 DEF BlocksOK
  <2>2. Within(k2, i) <=> Within(k, i)
    BY <1>2, <1>3 DEF Within
  <2> QED
    BY <2>1, <2>2 DEF BlockOK, Bindable
<1>4. BlocksOK(k2) /\ BlockOK(k, n)
  BY <1>2, <1>3 DEF BlocksOK
<1>5. Within(k, n) => Ends(k2)
  <2>1. n > 1 => k2.blocks # <<>>
    BY <1>2
  <2> QED
    BY <1>2, <2>1 DEF Within, Ends
<1> QED
  BY <1>2, <1>4, <1>5 DEF BlockOK

-----------------------------------------------------------------------------
(* One lemma for each action.                                              *)

LEMMA ArriveKeeps ==
  ASSUME Inv, NEW w \in Worker, NEW u \in User, Arrive(w, u)
  PROVE  Inv'
<1>1. PICK t \in Tenant :
        /\ ws[w].at = "idle" /\ UNCHANGED <<member, session>>
        /\ ws' = [ws EXCEPT ![w] = [Idle EXCEPT !.kind = "request", !.at = "arrived",
                                                !.user = u, !.wants = t]]
  BY DEF Arrive
<1> DEFINE k == [Idle EXCEPT !.kind = "request", !.at = "arrived", !.user = u, !.wants = t]
<1>2. k \in Work
  BY IdleOK DEF Idle, Work
<1>3. WorkOK(k)
  BY IdleOK, TenancyConstants DEF WorkOK, BlocksOK, Idle
<1>4. ws[w].conn = None /\ k.conn = None
  BY <1>1, OfWorker DEF WorkOK, Idle
<1> QED
  BY <1>1, <1>2, <1>3, <1>4, QuietMove

LEMMA AdmitKeeps ==
  ASSUME Inv, NEW w \in Worker, Admit(w)
  PROVE  Inv'
<1> DEFINE t == ws[w].wants
           k == [ws[w] EXCEPT !.at = "admitted", !.granted = t]
<1>1. /\ ws[w].at = "arrived" /\ UNCHANGED <<member, session>>
      /\ ws' = [ws EXCEPT ![w] = IF <<ws[w].user, t>> \in member THEN k ELSE Idle]
  BY DEF Admit
<1>2. ws[w] \in Work /\ WorkOK(ws[w])
  BY OfWorker
<1>3. /\ ws[w].conn = None /\ ws[w].blocks = <<>> /\ ws[w].var = None /\ ws[w].touched = {}
      /\ ws[w].kind \notin {"task", "none"}
  BY <1>1, <1>2, TenancyConstants DEF WorkOK, Work
<1>4. CASE <<ws[w].user, t>> \in member
  <2>1. t \in Tenant
    BY <1>4 DEF Inv, Typed
  <2>2. k \in Work /\ k.conn = None /\ k.blocks = <<>>
    BY <1>2, <1>3, <2>1 DEF Work
  <2>3. WorkOK(k)
    <3>1. /\ k.at = "admitted" /\ k.blocks = <<>> /\ Len(k.blocks) = 0 /\ k.kind \notin {"task", "none"}
          /\ k.var = None /\ k.touched = {}
      BY <1>2, <1>3, <2>2 DEF Work
    <3> HIDE DEF k
    <3> QED
      BY <3>1, <2>2, TenancyConstants DEF WorkOK, BlocksOK
  <2>4. ws' = [ws EXCEPT ![w] = k]
    BY <1>1, <1>4
  <2> HIDE DEF k
  <2> QED
    BY <1>1, <1>3, <2>2, <2>3, <2>4, QuietMove
<1>5. CASE <<ws[w].user, t>> \notin member
  <2>1. ws' = [ws EXCEPT ![w] = Idle] /\ Idle.conn = None
    BY <1>1, <1>5 DEF Idle
  <2> QED
    BY <1>1, <1>3, <2>1, IdleOK, QuietMove
<1> QED
  BY <1>4, <1>5

LEMMA BindKeeps ==
  ASSUME Inv, NEW w \in Worker, Bind(w)
  PROVE  Inv'
<1>1. PICK c \in Connection :
        /\ ws[w].at = "admitted" /\ session[c].user = None /\ member' = member
        /\ session' = [session EXCEPT ![c] =
             [user |-> w, now |-> [tenant |-> ws[w].granted, bypass |-> FALSE]]]
        /\ ws' = [ws EXCEPT ![w] =
             [ws[w] EXCEPT !.at = "open", !.var = ws[w].granted, !.conn = c]]
  BY DEF Bind, Acquire
<1> DEFINE k == [ws[w] EXCEPT !.at = "open", !.var = ws[w].granted, !.conn = c]
           s == [tenant |-> ws[w].granted, bypass |-> FALSE]
<1>2. ws[w] \in Work /\ WorkOK(ws[w]) /\ c # None
  BY OfWorker, TenancyConstants
<1>3. ws[w].conn = None /\ ws[w].blocks = <<>> /\ ws[w].kind \notin {"task", "none"}
  BY <1>1, <1>2 DEF WorkOK, Work, Idle
<1>4. /\ k \in Work /\ k.conn = c /\ k.blocks = <<>> /\ Len(k.blocks) = 0 /\ k.at = "open"
      /\ k.kind \notin {"task", "none"} /\ k.var = k.granted /\ k.touched = ws[w].touched
      /\ k.granted = ws[w].granted
  BY <1>2, <1>3 DEF Work
<1>5. s \in Setting /\ BoundTo(k, s)
  BY <1>2, <1>4 DEF Work, Setting, BoundTo, Bindable
<1>6. WorkOK(k)
  <2> HIDE DEF k
  <2> QED
    BY <1>2, <1>4, TenancyConstants DEF WorkOK, BlocksOK, Bindable
<1>7. ws' = [ws EXCEPT ![w] = k] /\ session' = [session EXCEPT ![c] = [user |-> w, now |-> s]]
  BY <1>1
<1> HIDE DEF k, s
<1> QED
  BY <1>1, <1>3, <1>4, <1>5, <1>6, <1>7, Connects

LEMMA ArriveExemptKeeps ==
  ASSUME Inv, NEW w \in Worker, NEW u \in User, ArriveExempt(w, u)
  PROVE  Inv'
<1>1. PICK c \in Connection :
        /\ ws[w].at = "idle" /\ session[c].user = None /\ member' = member
        /\ session' = [session EXCEPT ![c] = [session[c] EXCEPT !.user = w]]
        /\ ws' = [ws EXCEPT ![w] = [Idle EXCEPT !.kind = "exempt", !.at = "open", !.user = u,
                                                !.var = ws[w].var, !.conn = c]]
  BY DEF ArriveExempt
<1> DEFINE k == [Idle EXCEPT !.kind = "exempt", !.at = "open", !.user = u,
                             !.var = ws[w].var, !.conn = c]
<1>2. ws[w] = Idle /\ ws[w].var = None /\ ws[w].conn = None /\ c # None
  BY <1>1, OfWorker, TenancyConstants DEF WorkOK, Idle
<1>3. /\ k \in Work /\ k.conn = c /\ k.blocks = <<>> /\ Len(k.blocks) = 0 /\ k.at = "open"
      /\ k.kind = "exempt" /\ k.var = None /\ k.touched = {}
  BY <1>2, IdleOK DEF Idle, Work
<1>4. WorkOK(k)
  <2> HIDE DEF k
  <2> QED
    BY <1>2, <1>3, TenancyConstants DEF WorkOK, BlocksOK, Bindable
<1>5. session' = [session EXCEPT ![c] = [user |-> w, now |-> Unset]] /\ Unset \in Setting
  <2>1. session[c] = [user |-> None, now |-> Unset]
    BY <1>1, OfWorker DEF Free
  <2>2. [session[c] EXCEPT !.user = w] = [user |-> w, now |-> Unset]
    BY <2>1
  <2> QED
    BY <1>1, <2>2 DEF Unset, Setting
<1>6. BoundTo(k, Unset)
  BY DEF BoundTo, Unset, Bindable
<1>7. ws' = [ws EXCEPT ![w] = k]
  BY <1>1
<1> HIDE DEF k
<1> QED
  BY <1>1, <1>2, <1>3, <1>4, <1>5, <1>6, <1>7, Connects

LEMMA StartTaskKeeps ==
  ASSUME Inv, NEW w \in Worker, StartTask(w)
  PROVE  Inv'
<1>1. PICK t \in Tenant \cup {None} :
        /\ ws[w].at = "idle" /\ UNCHANGED <<member, session>>
        /\ ws' = [ws EXCEPT ![w] = [Idle EXCEPT !.kind = "task", !.at = "open", !.granted = t,
                                                !.var = IF t = None THEN ws[w].var ELSE t]]
  BY DEF StartTask
<1> DEFINE k == [Idle EXCEPT !.kind = "task", !.at = "open", !.granted = t,
                             !.var = IF t = None THEN ws[w].var ELSE t]
<1>2. ws[w].var = None /\ ws[w].conn = None
  BY <1>1, OfWorker DEF WorkOK, Idle
<1>3. /\ k \in Work /\ k.conn = None /\ k.blocks = <<>> /\ Len(k.blocks) = 0 /\ k.at = "open"
      /\ k.kind = "task" /\ k.touched = {}
  BY <1>2, IdleOK DEF Idle, Work
<1>4. WorkOK(k)
  <2> HIDE DEF k
  <2> QED
    BY <1>3, TenancyConstants DEF WorkOK, BlocksOK
<1>5. ws' = [ws EXCEPT ![w] = k]
  BY <1>1
<1> HIDE DEF k
<1> QED
  BY <1>1, <1>2, <1>3, <1>4, <1>5, QuietMove

LEMMA EnterTenantKeeps ==
  ASSUME Inv, NEW w \in Worker, NEW t \in Tenant, EnterTenant(w, t)
  PROVE  Inv'
<1> DEFINE was == IF Inside(w) THEN Now(w) ELSE Unset
           b == [kind |-> "tenant", var |-> ws[w].var, was |-> was, outer |-> ~Inside(w)]
           s == [tenant |-> t, bypass |-> FALSE]
<1>1. PICK c \in Connection :
        /\ ws[w].at = "open" /\ ws[w].kind # "request" /\ ~InLookup(w)
        /\ Len(ws[w].blocks) < MaxDepth
        /\ ws[w].kind = "exempt" => ws[w].granted \in {None, t}
        /\ ws[w].kind = "task" => ws[w].blocks = <<>>
        /\ LET mine == IF Inside(w) THEN ws[w].conn ELSE c IN
           /\ IF Inside(w) THEN SetLocal(mine, s) ELSE Acquire(c, w, s)
           /\ ws' = [ws EXCEPT ![w] = [ws[w] EXCEPT !.conn = mine, !.var = t, !.granted = t,
                                         !.touched = {}, !.blocks = Append(ws[w].blocks, b)]]
        /\ member' = member
  BY DEF EnterTenant
<1> DEFINE mine == IF Inside(w) THEN ws[w].conn ELSE c
           k == [ws[w] EXCEPT !.conn = mine, !.var = t, !.granted = t, !.touched = {},
                              !.blocks = Append(ws[w].blocks, b)]
<1>2. ws[w] \in Work /\ WorkOK(ws[w]) /\ c # None /\ t # None
  BY OfWorker, TenancyConstants
<1>3. ws[w].kind \in {"exempt", "task"} /\ (Inside(w) <=> ws[w].kind = "exempt")
  BY <1>1, <1>2 DEF WorkOK, Work, Inside
<1>4. was \in Setting /\ was.tenant \in {None, ws[w].granted} /\ ~was.bypass
  <2>1. CASE Inside(w)
    <3>1. /\ Now(w) \in Setting /\ Now(w).tenant \in {None, ws[w].granted}
          /\ Now(w).bypass => Ends(ws[w])
      BY <2>1, OfWorker DEF Inside, Now, DbSession, BoundTo, Bindable
    <3>2. Ends(ws[w]) <=> InLookup(w)
      BY <1>2, LastAndFront DEF Ends, InLookup, Work
    <3> QED
      BY <1>1, <2>1, <3>1, <3>2
  <2>2. CASE ~Inside(w)
    BY <2>2 DEF Unset, Setting
  <2> QED
    BY <2>1, <2>2
<1> HIDE DEF was
<1>5. b \in Block
  BY <1>2, <1>4 DEF Block, Work
<1>6. mine \in Connection /\ mine # None
  BY <1>2, OfWorker DEF Inside
<1>7. ws[w].blocks \in Seq(Block) /\ Append(ws[w].blocks, b) \in Seq(Block)
      /\ Append(ws[w].blocks, b) # <<>>
      /\ Len(Append(ws[w].blocks, b)) = Len(ws[w].blocks) + 1 /\ Len(ws[w].blocks) \in Nat
  BY <1>2, <1>5, LastOfAppend DEF Work
<1>8. /\ b.kind = "tenant" /\ b.outer = ~Inside(w) /\ b.was = was /\ b.var = ws[w].var
  OBVIOUS
<1> HIDE DEF b, mine
<1>9. /\ k \in Work /\ k.conn = mine /\ k.blocks = Append(ws[w].blocks, b) /\ k.at = "open"
      /\ k.kind = ws[w].kind /\ k.var = t /\ k.touched = {} /\ k.granted = t
  BY <1>1, <1>2, <1>6, <1>7 DEF Work
<1>10. ws' = [ws EXCEPT ![w] = k] /\ IF Inside(w) THEN SetLocal(mine, s) ELSE Acquire(c, w, s)
  BY <1>1 DEF b, mine
<1> HIDE DEF k
<1>11. BlocksOK(k)
  <2>1. CASE ws[w].kind = "exempt"
    <3>1. Bindable(ws[w]) \subseteq Bindable(k) /\ b.var \in Bindable(k)
          /\ b.was.tenant \in Bindable(k)
      BY <1>1, <1>2, <1>3, <1>4, <1>8, <1>9, <2>1 DEF WorkOK, Bindable, Inside
    <3> QED
      BY <1>2, <1>3, <1>4, <1>5, <1>8, <1>9, <2>1, <3>1, Pushed DEF WorkOK
  <2>2. CASE ws[w].kind = "task"
    <3>1. ws[w].blocks = <<>> /\ b.outer /\ was = Unset
      BY <1>1, <1>3, <1>8, <2>2 DEF was
    <3>2. BlockOK(k, 1) /\ Len(k.blocks) = 1
      <4>1. k.blocks[1] = b /\ Len(k.blocks) = 1
        BY <3>1, <1>5, <1>7, <1>9
      <4> QED
        BY <1>8, <1>9, <2>2, <3>1, <4>1 DEF BlockOK, Unset, Bindable
    <3> QED
      BY <3>2 DEF BlocksOK
  <2> QED
    BY <1>3, <2>1, <2>2
<1>12. WorkOK(k)
  BY <1>1, <1>3, <1>6, <1>7, <1>9, <1>11, TenancyConstants DEF WorkOK, Bindable
<1>13. s \in Setting /\ BoundTo(k, s)
  BY <1>9 DEF Setting, BoundTo, Bindable
<1> HIDE DEF s
<1>14. CASE Inside(w)
  <2>1. mine = ws[w].conn /\ ws[w].conn # None
    BY <1>14 DEF mine, Inside
  <2> QED
    BY <1>1, <1>9, <1>10, <1>12, <1>13, <1>14, <2>1, Rebinds
<1>15. CASE ~Inside(w)
  <2>1. mine = c /\ ws[w].conn = None /\ session[c].user = None
        /\ session' = [session EXCEPT ![c] = [user |-> w, now |-> s]]
    BY <1>10, <1>15 DEF mine, Inside, Acquire
  <2> QED
    BY <1>1, <1>9, <1>10, <1>12, <1>13, <2>1, Connects
<1> QED
  BY <1>14, <1>15

(* A step of open work keeps all that WorkOK says of the other fields.     *)
LEMMA StillOpen ==
  ASSUME NEW k \in Work, WorkOK(k), k.at = "open", NEW k2 \in Work,
         k2.at = "open", k2.kind = k.kind, k2.granted = k.granted,
         k2.touched \subseteq {k.granted}, k2.conn # None => k2.var \in Bindable(k),
         k.kind = "task" => (k2.conn = None <=> k2.blocks = <<>>),
         k.kind # "task" => k2.conn # None,
         Len(k2.blocks) <= MaxDepth, BlocksOK(k2)
  PROVE  WorkOK(k2)
BY DEF WorkOK, Bindable

LEMMA LeaveTenantKeeps ==
  ASSUME Inv, NEW w \in Worker, LeaveTenant(w)
  PROVE  Inv'
<1> DEFINE block == Last(ws[w].blocks)
           c == ws[w].conn
           to == IF block.outer THEN None ELSE c
           k == [ws[w] EXCEPT !.blocks = Front(ws[w].blocks), !.var = block.var, !.conn = to]
<1>1. PICK fails \in BOOLEAN :
        /\ ws[w].blocks # <<>> /\ block.kind = "tenant" /\ member' = member
        /\ IF block.outer THEN session' = [session EXCEPT ![c] = Cleared(session[c])]
           ELSE SetLocal(c, IF fails THEN block.was ELSE Now(w))
        /\ ws' = [ws EXCEPT ![w] = k]
  BY DEF LeaveTenant
<1>2. ws[w] \in Work /\ WorkOK(ws[w]) /\ BlocksOK(ws[w])
  BY OfWorker DEF WorkOK
<1>3. ws[w].blocks \in Seq(Block) /\ Front(ws[w].blocks) \in Seq(Block) /\ block \in Block
  BY <1>1, <1>2, LastAndFront DEF Work
<1>4. ws[w].at = "open" /\ c # None
  BY <1>1, <1>2 DEF WorkOK
<1>5. c \in Connection /\ session[c].user = w /\ BoundTo(ws[w], Now(w)) /\ Now(w) \in Setting
  BY <1>4, OfWorker DEF Now, DbSession
<1>6. to \in Connection \cup {None} /\ (to = None <=> block.outer)
  BY <1>4, <1>5
<1>7. block.var \in Tenant \cup {None} /\ block.was \in Setting
  BY <1>3 DEF Block
<1> HIDE DEF block, to
<1>8. /\ k \in Work /\ k.conn = to /\ k.blocks = Front(ws[w].blocks) /\ k.at = "open"
      /\ k.kind = ws[w].kind /\ k.var = block.var /\ k.touched = ws[w].touched
      /\ k.granted = ws[w].granted
  BY <1>2, <1>3, <1>4, <1>6, <1>7 DEF Work
<1> HIDE DEF k
<1>9. /\ BlocksOK(k) /\ BlockOK(ws[w], Len(ws[w].blocks)) /\ block = ws[w].blocks[Len(ws[w].blocks)]
      /\ Len(k.blocks) = Len(ws[w].blocks) - 1 /\ Len(ws[w].blocks) \in Nat \ {0}
      /\ block.was.bypass => Ends(k)
  BY <1>1, <1>2, <1>8, Popped DEF block
<1>10. block.outer <=> ws[w].kind = "task" /\ k.blocks = <<>>
  <2>1. k.blocks = <<>> <=> Len(ws[w].blocks) = 1
    <3>1. k.blocks \in Seq(Block)
      BY <1>8 DEF Work
    <3>2. k.blocks = <<>> <=> Len(k.blocks) = 0
      BY <3>1
    <3> QED
      BY <1>9, <3>2
  <2> QED
    BY <1>9, <2>1 DEF BlockOK
<1>11. k.conn # None => k.var \in Bindable(ws[w])
  BY <1>1, <1>6, <1>8, <1>9 DEF BlockOK
<1>12. WorkOK(k)
  <2>1. Len(k.blocks) <= MaxDepth
    BY <1>2, <1>9, TenancyConstants DEF WorkOK
  <2>2. k.touched \subseteq {ws[w].granted}
    BY <1>2, <1>8 DEF WorkOK
  <2>3. k.kind = "task" => (k.conn = None <=> k.blocks = <<>>)
    BY <1>6, <1>8, <1>10
  <2>4. k.kind # "task" => k.conn # None
    BY <1>6, <1>8, <1>10
  <2> QED
    BY <1>2, <1>4, <1>8, <1>9, <1>11, <2>1, <2>2, <2>3, <2>4, StillOpen
<1>13. CASE block.outer
  <2>1. session' = [d \in Connection |-> IF session[d].user = w THEN Free ELSE session[d]]
    <3>1. session' = [session EXCEPT ![c] = Free]
      BY <1>1, <1>13 DEF Cleared
    <3>2. \A d \in Connection : session[d].user = w <=> d = c
      BY <1>5, OfWorker
    <3>3. session \in [Connection -> DbSession]
      BY DEF Inv, Typed
    <3> QED
      BY <3>1, <3>2, <3>3
  <2> QED
    BY <1>1, <1>6, <1>8, <1>12, <1>13, <2>1, Disconnects
<1>14. CASE ~block.outer
  <2> DEFINE s == IF fails THEN block.was ELSE Now(w)
  <2>1. s \in Setting /\ s.tenant \in Bindable(k)
    BY <1>5, <1>7, <1>8, <1>9 DEF BlockOK, BoundTo, Bindable
  <2>2. ~Ends(ws[w])
    BY <1>1, <1>9 DEF Ends
  <2>3. BoundTo(k, s)
    BY <1>5, <1>9, <2>1, <2>2 DEF BoundTo
  <2>4. SetLocal(c, s) /\ k.conn = c
    BY <1>1, <1>8, <1>14 DEF to
  <2> HIDE DEF s
  <2> QED
    BY <1>1, <1>4, <1>8, <1>12, <2>1, <2>3, <2>4, Rebinds
<1> QED
  BY <1>13, <1>14

LEMMA EnterLookupKeeps ==
  ASSUME Inv, NEW w \in Worker, EnterLookup(w)
  PROVE  Inv'
<1> DEFINE b == [kind |-> "lookup", var |-> None, was |-> Now(w), outer |-> FALSE]
           k == [ws[w] EXCEPT !.blocks = Append(ws[w].blocks, b)]
           s == [tenant |-> ws[w].var, bypass |-> TRUE]
<1>1. /\ ws[w].at = "open" /\ Inside(w) /\ Len(ws[w].blocks) < MaxDepth /\ member' = member
      /\ SetLocal(ws[w].conn, s) /\ ws' = [ws EXCEPT ![w] = k]
  BY DEF EnterLookup
<1>2. ws[w] \in Work /\ WorkOK(ws[w]) /\ ws[w].conn # None
  BY <1>1, OfWorker DEF Inside
<1>3. BoundTo(ws[w], Now(w)) /\ Now(w) \in Setting
  BY <1>2, OfWorker DEF Now, DbSession
<1>4. b \in Block /\ b.kind = "lookup" /\ b.was = Now(w) /\ b.outer = FALSE
  BY <1>3 DEF Block
<1> HIDE DEF b
<1>5. /\ Append(ws[w].blocks, b) \in Seq(Block) /\ Append(ws[w].blocks, b) # <<>>
      /\ Len(Append(ws[w].blocks, b)) = Len(ws[w].blocks) + 1 /\ Len(ws[w].blocks) \in Nat
      /\ Append(ws[w].blocks, b)[Len(ws[w].blocks) + 1] = b
  BY <1>2, <1>4, LastOfAppend DEF Work
<1>6. /\ k \in Work /\ k.conn = ws[w].conn /\ k.blocks = Append(ws[w].blocks, b) /\ k.at = "open"
      /\ k.kind = ws[w].kind /\ k.var = ws[w].var /\ k.touched = ws[w].touched
      /\ k.granted = ws[w].granted
  BY <1>1, <1>2, <1>5 DEF Work
<1>7. ws[w].var \in Bindable(k) /\ (ws[w].kind = "task" => ws[w].blocks # <<>>)
  BY <1>1, <1>2, <1>6 DEF WorkOK, Bindable
<1> HIDE DEF k
<1>8. BlocksOK(k)
  <2>1. Bindable(ws[w]) \subseteq Bindable(k)
    BY <1>6 DEF Bindable
  <2> QED
    BY <1>2, <1>3, <1>4, <1>6, <1>7, <2>1, Pushed DEF WorkOK, BoundTo
<1>9. WorkOK(k)
  <2>1. Len(k.blocks) <= MaxDepth
    BY <1>1, <1>5, <1>6, TenancyConstants
  <2>2. k.touched \subseteq {ws[w].granted} /\ (k.conn # None => k.var \in Bindable(ws[w]))
    BY <1>2, <1>6 DEF WorkOK
  <2> QED
    BY <1>1, <1>2, <1>5, <1>6, <1>8, <2>1, <2>2, StillOpen
<1>10. s \in Setting /\ BoundTo(k, s)
  <2>1. s \in Setting /\ s.tenant \in Bindable(k)
    BY <1>2, <1>7 DEF Setting, Work
  <2>2. Ends(k)
    BY <1>4, <1>5, <1>6 DEF Ends
  <2> QED
    BY <2>1, <2>2 DEF BoundTo
<1> HIDE DEF s
<1> QED
  BY <1>1, <1>2, <1>6, <1>9, <1>10, Rebinds

LEMMA LeaveLookupKeeps ==
  ASSUME Inv, NEW w \in Worker, LeaveLookup(w)
  PROVE  Inv'
<1> DEFINE block == Last(ws[w].blocks)
           k == [ws[w] EXCEPT !.blocks = Front(ws[w].blocks)]
<1>1. PICK fails \in BOOLEAN :
        /\ ws[w].blocks # <<>> /\ block.kind = "lookup" /\ member' = member
        /\ SetLocal(ws[w].conn, IF fails THEN block.was ELSE AfterLookup(w))
        /\ ws' = [ws EXCEPT ![w] = k]
  BY DEF LeaveLookup, InLookup
<1>2. ws[w] \in Work /\ WorkOK(ws[w]) /\ BlocksOK(ws[w]) /\ ws[w].at = "open" /\ ws[w].conn # None
  BY <1>1, OfWorker DEF WorkOK
<1>3. ws[w].blocks \in Seq(Block) /\ Front(ws[w].blocks) \in Seq(Block) /\ block \in Block
  BY <1>1, <1>2, LastAndFront DEF Work
<1> HIDE DEF block
<1>4. /\ k \in Work /\ k.conn = ws[w].conn /\ k.blocks = Front(ws[w].blocks) /\ k.at = "open"
      /\ k.kind = ws[w].kind /\ k.var = ws[w].var /\ k.touched = ws[w].touched
      /\ k.granted = ws[w].granted
  BY <1>2, <1>3 DEF Work
<1> HIDE DEF k
<1>5. /\ BlocksOK(k) /\ BlockOK(ws[w], Len(ws[w].blocks)) /\ block = ws[w].blocks[Len(ws[w].blocks)]
      /\ Len(k.blocks) = Len(ws[w].blocks) - 1 /\ Len(ws[w].blocks) \in Nat \ {0}
      /\ block.was.bypass => Ends(k)
  BY <1>1, <1>2, <1>4, Popped DEF block
<1>6. ~block.outer
  BY <1>1, <1>5 DEF BlockOK
<1>7. k.kind = "task" => k.blocks # <<>>
  <2>1. k.kind = "task" => Len(k.blocks) # 0
    BY <1>4, <1>5, <1>6 DEF BlockOK
  <2>2. k.blocks = <<>> => Len(k.blocks) = 0
    OBVIOUS
  <2> QED
    BY <2>1, <2>2
<1>8. WorkOK(k)
  <2>1. Len(k.blocks) <= MaxDepth
    BY <1>2, <1>5, TenancyConstants DEF WorkOK
  <2>2. k.touched \subseteq {ws[w].granted} /\ (k.conn # None => k.var \in Bindable(ws[w]))
    BY <1>2, <1>4 DEF WorkOK
  <2> QED
    BY <1>2, <1>4, <1>5, <1>7, <2>1, <2>2, StillOpen
<1> DEFINE s == IF fails THEN block.was ELSE AfterLookup(w)
<1>9. s \in Setting /\ BoundTo(k, s)
  <2>1. ws[w].var \in Bindable(k) /\ ws[w].var \in Tenant \cup {None} /\ block.was \in Setting
    BY <1>2, <1>3, <1>4 DEF WorkOK, Bindable, Work, Block
  <2>2. AfterLookup(w) \in Setting /\ BoundTo(k, AfterLookup(w))
    BY <2>1 DEF AfterLookup, Setting, BoundTo
  <2>3. BoundTo(k, block.was)
    BY <1>4, <1>5 DEF BlockOK, BoundTo, Bindable
  <2> QED
    BY <2>1, <2>2, <2>3
<1>10. SetLocal(ws[w].conn, s)
  BY <1>1
<1> HIDE DEF s
<1> QED
  BY <1>1, <1>2, <1>4, <1>8, <1>9, <1>10, Rebinds

LEMMA StatementKeeps ==
  ASSUME Inv, NEW w \in Worker, Statement(w)
  PROVE  Inv'
<1> DEFINE k == [ws[w] EXCEPT !.touched = ws[w].touched \cup Visible(Now(w))]
<1>1. /\ ws[w].at = "open" /\ Inside(w) /\ ~InLookup(w) /\ UNCHANGED <<member, session>>
      /\ ws' = [ws EXCEPT ![w] = k]
  BY DEF Statement
<1>2. ws[w] \in Work /\ WorkOK(ws[w]) /\ ws[w].conn # None
  BY <1>1, OfWorker DEF Inside
<1>3. BoundTo(ws[w], Now(w)) /\ Now(w) \in Setting
  BY <1>2, OfWorker DEF Now, DbSession
<1>4. ~Ends(ws[w])
  BY <1>1, <1>2, LastAndFront DEF Ends, InLookup, Work
<1>5. Visible(Now(w)) \subseteq {ws[w].granted} /\ Visible(Now(w)) \subseteq Tenant
  BY <1>3, <1>4 DEF Visible, BoundTo, Bindable, Setting
<1>6. /\ k \in Work /\ k.conn = ws[w].conn /\ k.blocks = ws[w].blocks /\ k.at = "open"
      /\ k.kind = ws[w].kind /\ k.var = ws[w].var /\ k.granted = ws[w].granted
      /\ k.touched = ws[w].touched \cup Visible(Now(w))
  BY <1>1, <1>2, <1>5 DEF Work
<1> HIDE DEF k
<1>7. BlocksOK(k) /\ BoundTo(k, session[k.conn].now)
  <2>1. BlocksOK(ws[w]) /\ BoundTo(ws[w], session[ws[w].conn].now)
    BY <1>2, <1>3 DEF WorkOK, Now
  <2> QED
    BY <1>6, <2>1 DEF BlocksOK, BlockOK, Within, Bindable, BoundTo, Ends
<1>8. WorkOK(k)
  <2>1. /\ k.touched \subseteq {ws[w].granted} /\ (k.conn # None => k.var \in Bindable(ws[w]))
        /\ Len(k.blocks) <= MaxDepth
        /\ k.kind = "task" => (k.conn = None <=> k.blocks = <<>>)
    BY <1>1, <1>2, <1>5, <1>6 DEF WorkOK
  <2> QED
    BY <1>1, <1>2, <1>6, <1>7, <2>1, StillOpen
<1> QED
  BY <1>1, <1>6, <1>7, <1>8, QuietMove

LEMMA FinishKeeps ==
  ASSUME Inv, NEW w \in Worker, Finish(w)
  PROVE  Inv'
<1>1. /\ ws' = [ws EXCEPT ![w] = Idle] /\ member' = member /\ Idle.conn = None
      /\ session' = [d \in Connection |-> IF session[d].user = w THEN Free ELSE session[d]]
  BY DEF Finish, Cleared, Idle
<1> QED
  BY <1>1, IdleOK, Disconnects

LEMMA MembersKeep ==
  ASSUME Inv, NEW u \in User, NEW t \in Tenant, Join(u, t) \/ Leave(u, t)
  PROVE  Inv'
<1>1. member' \subseteq User \X Tenant /\ UNCHANGED <<session, ws>>
  BY DEF Join, Leave, Inv, Typed
<1> QED
  BY <1>1 DEF Inv, Typed, Pooled, WorkerInv

-----------------------------------------------------------------------------
LEMMA InitInv == Init => Inv
<1> SUFFICES ASSUME Init PROVE Inv
  OBVIOUS
<1>1. Free \in DbSession
  BY DEF Free, Unset, DbSession, Setting
<1>2. Typed
  BY <1>1, IdleOK DEF Init, Typed
<1>3. \A c \in Connection : session[c] = Free
  BY DEF Init
<1>4. Pooled
  BY <1>3, TenancyConstants DEF Pooled, Free
<1>5. \A w \in Worker : ws[w] = Idle
  BY DEF Init
<1>6. Idle.conn = None
  BY DEF Idle
<1> QED
  BY <1>2, <1>4, <1>5, <1>6, IdleOK DEF Inv, WorkerInv

LEMMA StepInv == Inv /\ [Next]_vars => Inv'
<1> SUFFICES ASSUME Inv, [Next]_vars PROVE Inv'
  OBVIOUS
<1>1. CASE UNCHANGED vars
  BY <1>1 DEF vars, Inv, Typed, Pooled, WorkerInv
<1>2. CASE Next
  <2>1. ASSUME NEW w \in Worker, NEW u \in User, Arrive(w, u) \/ ArriveExempt(w, u)
        PROVE Inv'
    BY <2>1, ArriveKeeps, ArriveExemptKeeps
  <2>2. ASSUME NEW w \in Worker, Admit(w) \/ Bind(w) \/ StartTask(w) PROVE Inv'
    BY <2>2, AdmitKeeps, BindKeeps, StartTaskKeeps
  <2>3. ASSUME NEW w \in Worker, NEW t \in Tenant, EnterTenant(w, t) PROVE Inv'
    BY <2>3, EnterTenantKeeps
  <2>4. ASSUME NEW w \in Worker, LeaveTenant(w) \/ EnterLookup(w) \/ LeaveLookup(w) PROVE Inv'
    BY <2>4, LeaveTenantKeeps, EnterLookupKeeps, LeaveLookupKeeps
  <2>5. ASSUME NEW w \in Worker, Statement(w) \/ Finish(w) PROVE Inv'
    BY <2>5, StatementKeeps, FinishKeeps
  <2>6. ASSUME NEW u \in User, NEW t \in Tenant, Join(u, t) \/ Leave(u, t) PROVE Inv'
    BY <2>6, MembersKeep
  <2> QED
    BY <1>2, <2>1, <2>2, <2>3, <2>4, <2>5, <2>6 DEF Next
<1> QED
  BY <1>1, <1>2

LEMMA InvAlways == Spec => []Inv
<1> QED
  BY InitInv, StepInv, PTL DEF Spec

(* Every variable has the values it can hold, however blocks are nested.   *)
THEOREM TenancyTypes == Spec => []TenancyTypeOK
<1>1. Inv => TenancyTypeOK
  BY DEF Inv, Typed, WorkerInv, WorkOK, Work, DbSession, TenancyTypeOK
<1> QED
  BY <1>1, InvAlways, PTL

(* Work touches rows of the tenant it was admitted for and of no other,    *)
(* whichever connection the pool hands it, however blocks are nested and   *)
(* fail, and whatever ran on the worker before (core/tenancy_context.py,   *)
(* tenancy/middleware.py).                                                 *)
THEOREM TenantsApart == Spec => []OnlyItsTenant
<1>1. Inv => OnlyItsTenant
  BY DEF Inv, WorkerInv, WorkOK, Bindable, OnlyItsTenant, Inside
<1> QED
  BY <1>1, InvAlways, PTL

-----------------------------------------------------------------------------
(* The team: a request at the screen, and what it is about to write.       *)

Cell == [roles : SUBSET (Screen!Role \cup {None}), expires : BOOLEAN]

Request ==
  [at : {"idle", "loaded", "checked", "decided", "written"}, actor : Person \cup {None},
   held : SUBSET (Screen!Role \cup {None}), on : Person \cup {None},
   old : Screen!MemberRow, new : Screen!MemberRow, whole : BOOLEAN]

Rules(row) == row.active /\ Screen!Owns(row)

(* Would somebody administer the organisation if m had this row?           *)
StillRuled(m, row) == Rules(row) \/ \E u \in Person \ {m} : Rules(roles[u])

ReadyToWrite(w) ==
  /\ team[w].on \in Person /\ team[w].old = roles[team[w].on] /\ ~team[w].whole
  /\ StillRuled(team[w].on, team[w].new)

TeamTyped ==
  /\ roles \in [Person -> Screen!MemberRow] /\ cache \in [Person -> Cell]
  /\ team \in [Worker -> Request]
  /\ \A w \in Worker : team[w].at = "loaded" => team[w].actor \in Person

(* One request at a time is about to write, on rows as it read them.       *)
Ruled ==
  /\ Screen!AlwaysAnOwner
  /\ \A w \in Worker : Screen!Changing(w) =>
       ReadyToWrite(w) /\ \A v \in Worker : Screen!Changing(v) => v = w

TeamInv == TeamTyped /\ (part = "team" => Ruled)

LEMMA SameDefinitions ==
  /\ \A row : Screen!Owns(row) <=> (row.is_owner \/ "owner" \in row.roles)
  /\ Screen!AlwaysAnOwner <=> \E u \in Person : Rules(roles[u])
BY DEF Screen!Owns, Screen!AlwaysAnOwner, Rules

(* A row written where nothing changed since it was read is the new row.   *)
LEMMA WrittenIsNew ==
  ASSUME NEW old \in Screen!MemberRow, NEW new \in Screen!MemberRow
  PROVE  Screen!Written(old, old, new, FALSE) = new
<1>1. (old.roles \cup (new.roles \ old.roles)) \ (old.roles \ new.roles) = new.roles
  OBVIOUS
<1>2. Screen!Written(old, old, new, FALSE) =
        [active |-> new.active, is_owner |-> new.is_owner, roles |-> new.roles]
  BY <1>1 DEF Screen!Written
<1> QED BY <1>2 DEF Screen!MemberRow

LEMMA WrittenTyped ==
  ASSUME NEW row \in Screen!MemberRow, NEW old \in Screen!MemberRow,
         NEW new \in Screen!MemberRow, NEW whole \in BOOLEAN
  PROVE  Screen!Written(row, old, new, whole) \in Screen!MemberRow
BY DEF Screen!Written, Screen!MemberRow

(* What the team screen wants to write leaves somebody in charge.          *)
LEMMA VerbsKeepAnOwner ==
  ASSUME TeamTyped, Screen!AlwaysAnOwner,
         NEW w \in Worker, NEW m \in Person, NEW row \in Screen!MemberRow,
         Screen!Verb(w, m, row)
  PROVE  StillRuled(m, row)
<1>1. PICK u \in Person : Rules(roles[u])
  BY SameDefinitions
<1>2. roles[m] \in Screen!MemberRow /\ roles[u] \in Screen!MemberRow
  BY DEF TeamTyped
<1>3. Screen!OtherOwners(m) # {} => StillRuled(m, row)
  BY DEF Screen!OtherOwners, StillRuled, Rules
<1>4. (u = m => Rules(row)) => StillRuled(m, row)
  BY <1>1 DEF StillRuled
<1>5. CASE Screen!Grant(w, m, row)
  BY <1>1, <1>2, <1>4, <1>5 DEF Screen!Grant, Rules, Screen!Owns, Screen!MemberRow
<1>6. CASE Screen!Revoke(w, m, row)
  <2>1. PICK r \in roles[m].roles :
          /\ r = "owner" => Screen!OtherOwners(m) # {}
          /\ row = [roles[m] EXCEPT !.roles = roles[m].roles \ {r},
                                    !.is_owner = roles[m].is_owner /\ r # "owner"]
    BY <1>6 DEF Screen!Revoke
  <2>2. CASE r = "owner"
    BY <1>3, <2>1, <2>2
  <2>3. CASE r # "owner"
    BY <1>1, <1>2, <1>4, <2>1, <2>3 DEF Rules, Screen!Owns, Screen!MemberRow
  <2> QED BY <2>2, <2>3
<1>7. CASE Screen!Deactivate(w, m, row)
  BY <1>1, <1>3, <1>4, <1>7 DEF Screen!Deactivate, Rules
<1>8. CASE Screen!Activate(w, m, row)
  BY <1>1, <1>2, <1>4, <1>8 DEF Screen!Activate, Rules, Screen!Owns, Screen!MemberRow
<1>9. ~Screen!Assign(w, m, row) /\ ~Screen!Unassign(w, m, row)
  BY DEF Screen!Assign, Screen!Unassign
<1> QED BY <1>5, <1>6, <1>7, <1>8, <1>9 DEF Screen!Verb
LEMMA TeamInit == PlatformInit => TeamInv
<1> SUFFICES ASSUME Screen!Init PROVE TeamInv
  BY DEF PlatformInit
<1>1. TeamTyped
  BY DEF Screen!Init, Screen!Idle, Screen!Uncached, Screen!Outsider, TeamTyped, Request, Cell,
         Screen!MemberRow, Screen!Role
<1>2. Screen!AlwaysAnOwner
  <2>1. Founder \in Person
    BY TeamConstants DEF Screen!TeamConstantsOK
  <2>2. Rules(roles[Founder])
    BY <2>1 DEF Screen!Init, Rules, Screen!Owns
  <2> QED BY <2>1, <2>2, SameDefinitions
<1>3. \A w \in Worker : ~Screen!Changing(w)
  BY DEF Screen!Init, Screen!Idle, Screen!Changing
<1> QED BY <1>1, <1>2, <1>3 DEF TeamInv, Ruled

(* A step of either set of endpoints is one of these.                      *)
Decided(w, m, row, whole) ==
  /\ team[w].at = "checked"
  /\ team' = [team EXCEPT ![w] = [team[w] EXCEPT !.at = "decided", !.on = m, !.old = roles[m],
                                                !.new = row, !.whole = whole]]
  /\ UNCHANGED <<roles, cache>>

Handled(w) ==
  \/ \E u \in Person : Screen!Ask(w, u)
  \/ Screen!Store(w) \/ Screen!Write(w) \/ Screen!Commit(w) \/ Screen!Leave(w)

LEMMA TeamCases ==
  ASSUME TeamNext
  PROVE  \/ \E u \in Person : Screen!Expire(u)
         \/ \E w \in Worker : Handled(w)
         \/ \E w \in Worker, m \in Person, row \in Screen!MemberRow, whole \in BOOLEAN :
              /\ Decided(w, m, row, whole)
              /\ part = "team" => ~whole /\ Screen!Alone(w) /\ Screen!Verb(w, m, row)
<1>1. CASE part = "team" /\ Screen!Next
  <2>1. ASSUME NEW w \in Worker, Screen!Decide(w)
        PROVE  \E m \in Person, row \in Screen!MemberRow, whole \in BOOLEAN :
                 Decided(w, m, row, whole) /\ ~whole /\ Screen!Alone(w) /\ Screen!Verb(w, m, row)
    <3>1. PICK m \in Person, row \in Screen!MemberRow, whole \in BOOLEAN :
            /\ Screen!Alone(w) /\ Decided(w, m, row, whole)
            /\ IF whole THEN Screen!Patch(w, m, row) ELSE Screen!Verb(w, m, row)
      BY <2>1 DEF Screen!Decide, Decided
    <3>2. ~whole
      BY <3>1 DEF Screen!Patch
    <3> QED BY <3>1, <3>2
  <2> QED BY <1>1, <2>1 DEF Screen!Next, Handled
<1>2. CASE part = "doors" /\ AllDoors!Next
  <2>1. ASSUME NEW w \in Worker, AllDoors!Decide(w)
        PROVE  \E m \in Person, row \in Screen!MemberRow, whole \in BOOLEAN :
                 Decided(w, m, row, whole)
    <3>1. PICK m \in Person, row \in AllDoors!MemberRow, whole \in BOOLEAN :
            Decided(w, m, row, whole)
      BY <2>1 DEF AllDoors!Decide, Decided
    <3> QED BY <3>1 DEF AllDoors!MemberRow, Screen!MemberRow, AllDoors!Role, Screen!Role
  <2>2. ASSUME NEW w \in Worker
        PROVE  /\ AllDoors!Store(w) => Screen!Store(w)
               /\ AllDoors!Leave(w) => Screen!Leave(w)
               /\ AllDoors!Write(w) => Screen!Write(w)
               /\ AllDoors!Commit(w) => Screen!Commit(w)
               /\ \A u \in Person : AllDoors!Ask(w, u) => Screen!Ask(w, u)
    BY DEF AllDoors!Store, Screen!Store, AllDoors!Leave, Screen!Leave, AllDoors!Write,
           Screen!Write, AllDoors!Commit, Screen!Commit, AllDoors!Ask, Screen!Ask,
           AllDoors!Cached, Screen!Cached, AllDoors!Idle, Screen!Idle, AllDoors!Outsider,
           Screen!Outsider, AllDoors!Uncached, Screen!Uncached, AllDoors!Written, Screen!Written,
           AllDoors!Effective, Screen!Effective
  <2>3. \A u \in Person : AllDoors!Expire(u) => Screen!Expire(u)
    BY DEF AllDoors!Expire, Screen!Expire, AllDoors!Uncached, Screen!Uncached
  <2>4. part # "team"
    BY <1>2
  <2> QED BY <1>2, <2>1, <2>2, <2>3, <2>4 DEF AllDoors!Next, Handled
<1> QED BY <1>1, <1>2 DEF TeamNext

(* The types last.                                                         *)
LEMMA TeamTypes ==
  ASSUME TeamTyped, TeamNext
  PROVE  TeamTyped'
<1> USE DEF TeamTyped
<1>1. \A u \in Person : roles[u] \in Screen!MemberRow /\ cache[u] \in Cell
  OBVIOUS
<1>2. Screen!Idle \in Request /\ Screen!Uncached \in Cell /\ Screen!Idle.at = "idle"
  BY DEF Screen!Idle, Screen!Uncached, Screen!Outsider, Request, Cell, Screen!MemberRow
<1>3. ASSUME NEW u \in Person, Screen!Expire(u) PROVE TeamTyped'
  BY <1>2, <1>3 DEF Screen!Expire
<1>4. ASSUME NEW w \in Worker, Handled(w) PROVE TeamTyped'
  <2>1. team[w] \in Request
    OBVIOUS
  <2>2. ASSUME NEW u \in Person, Screen!Ask(w, u) PROVE TeamTyped'
    <3>1. Screen!Effective(u) \in SUBSET (Screen!Role \cup {None})
          /\ cache[u].roles \in SUBSET (Screen!Role \cup {None})
      BY <1>1 DEF Screen!Effective, Screen!MemberRow, Cell
    <3>2. team'[w] \in Request /\ team'[w].actor = u
      BY <2>1, <2>2, <3>1 DEF Screen!Ask, Request
    <3> QED BY <2>2, <3>2 DEF Screen!Ask
  <2>3. CASE Screen!Store(w)
    <3>1. team[w].actor \in Person /\ Screen!Cached(team[w].held) \in Cell
      BY <2>1, <2>3 DEF Screen!Store, Screen!Cached, Request, Cell
    <3>2. team'[w] \in Request /\ team'[w].at = "checked"
      BY <2>1, <2>3 DEF Screen!Store, Request
    <3> QED BY <2>3, <3>1, <3>2 DEF Screen!Store
  <2>4. CASE Screen!Write(w)
    <3>1. team'[w] \in Request /\ team'[w].at = "written"
      BY <2>1, <2>4 DEF Screen!Write, Request
    <3> QED BY <1>2, <2>4, <3>1 DEF Screen!Write
  <2>5. CASE Screen!Commit(w)
    <3>1. ASSUME NEW m \in Person
          PROVE  Screen!Written(roles[m], team[w].old, team[w].new, team[w].whole)
                   \in Screen!MemberRow
      BY <1>1, <2>1, WrittenTyped DEF Request
    <3>2. roles' \in [Person -> Screen!MemberRow]
      BY <2>5, <3>1 DEF Screen!Commit
    <3> QED BY <1>2, <2>5, <3>2 DEF Screen!Commit
  <2>6. CASE Screen!Leave(w)
    BY <1>2, <2>6 DEF Screen!Leave
  <2> QED BY <1>4, <2>2, <2>3, <2>4, <2>5, <2>6 DEF Handled
<1>5. ASSUME NEW w \in Worker, NEW m \in Person, NEW row \in Screen!MemberRow,
             NEW whole \in BOOLEAN, Decided(w, m, row, whole)
      PROVE  TeamTyped'
  <2>1. team[w] \in Request /\ roles[m] \in Screen!MemberRow
    OBVIOUS
  <2>2. team'[w] \in Request /\ team'[w].at = "decided"
    BY <1>5, <2>1 DEF Decided, Request
  <2> QED BY <1>5, <2>2 DEF Decided
<1> QED BY <1>3, <1>4, <1>5, TeamCases

(* And so does somebody in charge.                                         *)
LEMMA TeamRuled ==
  ASSUME OneDesk = TRUE, TeamTyped, part = "team", Ruled, TeamNext
  PROVE  Ruled'
<1> USE DEF TeamTyped
<1>1. ASSUME NEW u \in Person, Screen!Expire(u) PROVE Ruled'
  BY <1>1 DEF Screen!Expire, Ruled, Screen!AlwaysAnOwner, Screen!Owns, Screen!Changing,
             ReadyToWrite, StillRuled, Rules
<1>2. ASSUME NEW w \in Worker, roles' = roles,
             \A v \in Worker \ {w} : team'[v] = team[v],
             team'[w].at \in {"decided", "written"} =>
               /\ team[w].at \in {"decided", "written"}
               /\ team'[w].on = team[w].on /\ team'[w].old = team[w].old
               /\ team'[w].new = team[w].new /\ team'[w].whole = team[w].whole
      PROVE  Ruled'
  <2>1. Screen!AlwaysAnOwner'
    BY <1>2 DEF Ruled, Screen!AlwaysAnOwner, Screen!Owns
  <2>2. ASSUME NEW v \in Worker, Screen!Changing(v)'
        PROVE  Screen!Changing(v) /\ ReadyToWrite(v)'
    BY <1>2, <2>2 DEF Ruled, Screen!Changing, ReadyToWrite, StillRuled, Rules, Screen!Owns
  <2> QED BY <2>1, <2>2 DEF Ruled
<1>3. ASSUME NEW w \in Worker, Handled(w) PROVE Ruled'
  <2>1. team[w] \in Request
    OBVIOUS
  <2>2. ASSUME NEW u \in Person, Screen!Ask(w, u) PROVE Ruled'
    BY <1>2, <2>1, <2>2 DEF Screen!Ask, Request
  <2>3. CASE Screen!Store(w)
    BY <1>2, <2>1, <2>3 DEF Screen!Store, Request
  <2>4. CASE Screen!Write(w)
    BY <1>2, <2>1, <2>4 DEF Screen!Write, Request
  <2>5. CASE Screen!Leave(w)
    BY <1>2, <2>1, <2>5 DEF Screen!Leave, Request, Screen!Idle
  <2>6. CASE Screen!Commit(w)
    <3>1. PICK m \in Person : team[w].on = m
      BY <2>6 DEF Screen!Commit, Ruled, ReadyToWrite, Screen!Changing
    <3>2. /\ team[w].old = roles[m] /\ ~team[w].whole /\ StillRuled(m, team[w].new)
          /\ \A v \in Worker : Screen!Changing(v) => v = w
      BY <2>6, <3>1 DEF Screen!Commit, Ruled, ReadyToWrite, Screen!Changing
    <3>3. team[w].new \in Screen!MemberRow /\ roles[m] \in Screen!MemberRow
      BY <2>1 DEF Request
    <3>4. roles' = [roles EXCEPT ![m] = team[w].new]
      <4>1. team[w].whole = FALSE
        BY <2>1, <3>2 DEF Request
      <4>2. Screen!Written(roles[m], team[w].old, team[w].new, team[w].whole) = team[w].new
        BY <3>2, <3>3, <4>1, WrittenIsNew
      <4> QED BY <2>6, <3>1, <4>2 DEF Screen!Commit
    <3>5. Screen!AlwaysAnOwner'
      <4>1. roles'[m] = team[w].new /\ \A u \in Person \ {m} : roles'[u] = roles[u]
        BY <3>4
      <4>2. \E u \in Person : roles'[u].active /\ Screen!Owns(roles'[u])
        BY <3>2, <4>1 DEF StillRuled, Rules
      <4> QED BY <4>2 DEF Screen!AlwaysAnOwner, Screen!Owns
    <3>6. \A v \in Worker : ~Screen!Changing(v)'
      BY <2>6, <3>2 DEF Screen!Commit, Screen!Changing, Screen!Idle
    <3> QED BY <3>5, <3>6 DEF Ruled
  <2> QED BY <1>3, <2>2, <2>3, <2>4, <2>5, <2>6 DEF Handled
<1>4. ASSUME NEW w \in Worker, NEW m \in Person, NEW row \in Screen!MemberRow,
             Decided(w, m, row, FALSE), Screen!Alone(w), Screen!Verb(w, m, row)
      PROVE  Ruled'
  <2>1. StillRuled(m, row) /\ roles' = roles
    BY <1>4, VerbsKeepAnOwner DEF Ruled, Decided
  <2>2. \A v \in Worker : ~Screen!Changing(v)
    BY <1>4 DEF Screen!Alone
  <2>3. /\ team'[w].on = m /\ team'[w].old = roles[m] /\ team'[w].new = row
        /\ ~team'[w].whole
    BY <1>4 DEF Decided, Request
  <2>4. \A v \in Worker : Screen!Changing(v)' => v = w
    BY <1>4, <2>2 DEF Decided, Screen!Changing
  <2>5. ReadyToWrite(w)'
    BY <2>1, <2>3 DEF ReadyToWrite, StillRuled, Rules, Screen!Owns
  <2>6. Screen!AlwaysAnOwner'
    BY <2>1 DEF Ruled, Screen!AlwaysAnOwner, Screen!Owns
  <2> QED BY <2>4, <2>5, <2>6 DEF Ruled
<1> QED BY <1>1, <1>3, <1>4, TeamCases

-----------------------------------------------------------------------------
(* The invitations.                                                        *)

Task == [verb : {"idle", "create", "resend", "revoke", "accept"}, on : SUBSET Offer,
         secret : 0..MaxSent, member : Offers!Membership]

OffersTyped ==
  /\ offer \in [Offer -> Offers!OfferRow] /\ invited \in Offers!Membership
  /\ granted \in BOOLEAN /\ desk \in [Worker -> Task]

OffersInv == OffersTyped /\ Offers!TracesAgree

LEMMA OffersInit == PlatformInit => OffersInv
<1> SUFFICES ASSUME Offers!Init PROVE OffersInv
  BY DEF PlatformInit
<1>1. MaxSent \in Nat \ {0}
  BY OffersConstants DEF Offers!InvitationsConstantsOK
<1>2. OffersTyped
  <2>1. Offers!Idle \in Task
    BY <1>1 DEF Offers!Idle, Task, Offers!Membership
  <2>2. [status |-> "absent", secret |-> 0, late |-> FALSE, used |-> 0] \in Offers!OfferRow
    BY <1>1 DEF Offers!OfferRow, Offers!Status
  <2> QED BY <2>1, <2>2 DEF Offers!Init, OffersTyped, Offers!Membership
<1>3. Offers!TracesAgree
  BY DEF Offers!Init, Offers!TracesAgree, Offers!Is
<1> QED BY <1>2, <1>3 DEF OffersInv

(* A row that was not read as pending cannot be, when create supersedes:   *)
(* so each step leaves the offer, the membership and the role in step.     *)
LEMMA OffersStep ==
  ASSUME OffersInv, Offers!Next
  PROVE  OffersInv'
<1> USE DEF OffersInv, OffersTyped
<1>0. /\ MaxSent \in Nat \ {0} /\ Offers!Idle \in Task
      /\ \A w \in Worker : desk[w] \in Task
      /\ \A i \in Offer : offer[i] \in Offers!OfferRow
  BY OffersConstants DEF Offers!InvitationsConstantsOK, Offers!Idle, Task, Offers!Membership
<1>1. ASSUME NEW w \in Worker, NEW verb \in {"create", "resend", "revoke", "accept"},
             NEW on \in SUBSET Offer, NEW secret \in 0..MaxSent,
             Offers!Read(w, verb, on, secret)
      PROVE  OffersInv'
  <2>1. [verb |-> verb, on |-> on, secret |-> secret, member |-> invited] \in Task
    BY DEF Task
  <2> QED BY <1>1, <2>1 DEF Offers!Read, Offers!TracesAgree, Offers!Is
<1>2. \A s \in {"absent", "pending", "accepted"} : Offers!Is(s) \in SUBSET Offer
  BY DEF Offers!Is
<1>3. ASSUME NEW w \in Worker,
             Offers!ReadCreate(w) \/ Offers!ReadResend(w) \/ Offers!ReadRevoke(w)
             \/ Offers!ReadAccept(w)
      PROVE  OffersInv'
  <2>1. CASE Offers!ReadCreate(w)
    BY <1>0, <1>1, <1>2, <2>1 DEF Offers!ReadCreate
  <2>2. CASE Offers!ReadResend(w)
    BY <1>0, <1>1, <1>2, <2>2 DEF Offers!ReadResend
  <2>3. CASE Offers!ReadRevoke(w)
    BY <1>0, <1>1, <1>2, <2>3 DEF Offers!ReadRevoke
  <2>4. CASE Offers!ReadAccept(w)
    <3>1. PICK i \in Offer : Offers!Read(w, "accept", {i}, offer[i].secret)
      BY <1>2, <2>4 DEF Offers!ReadAccept
    <3>2. offer[i].secret \in 0..MaxSent
      BY <1>0 DEF Offers!OfferRow
    <3> QED BY <1>1, <3>1, <3>2
  <2> QED BY <1>3, <2>1, <2>2, <2>3, <2>4
<1>4. ASSUME NEW w \in Worker, Offers!Create(w) PROVE OffersInv'
  <2>1. PICK i \in Offers!Is("absent") :
          /\ Offers!Serves(w, "create")
          /\ desk[w].on \cap Offers!Is("accepted") = {}
          /\ Offers!Is("pending") \subseteq desk[w].on
          /\ offer' = [j \in Offer |->
               IF j = i THEN [status |-> "pending", secret |-> 1, late |-> FALSE, used |-> 0]
               ELSE IF j \in desk[w].on THEN [offer[j] EXCEPT !.status = "revoked"]
               ELSE offer[j]]
          /\ invited' = IF invited = "absent" THEN "invited" ELSE invited
          /\ granted' = TRUE
    BY <1>4 DEF Offers!Create
  <2>2. i \in Offer
    BY DEF Offers!Is
  <2>3. \A j \in Offer : offer'[j] \in Offers!OfferRow
    BY <1>0, <2>1 DEF Offers!OfferRow, Offers!Status
  <2>4. OffersTyped'
    BY <1>0, <2>1, <2>3 DEF Offers!Serves, Offers!Membership
  <2>5. offer'[i].status = "pending"
    BY <2>1, <2>2
  <2>6. \A j \in Offer : offer'[j].status = "accepted" => offer[j].status = "accepted"
    BY <1>0, <2>1 DEF Offers!OfferRow
  <2>7. Offers!TracesAgree'
    BY <2>1, <2>2, <2>5, <2>6 DEF Offers!TracesAgree, Offers!Is, Offers!Membership
  <2> QED BY <2>4, <2>7
<1>5. ASSUME NEW w \in Worker, Offers!Resend(w) PROVE OffersInv'
  <2>1. PICK i \in Offer :
          /\ Offers!Serves(w, "resend") /\ offer[i].secret < MaxSent
          /\ offer' = [offer EXCEPT ![i] = [offer[i] EXCEPT !.secret = offer[i].secret + 1,
                                                            !.late = FALSE]]
          /\ UNCHANGED <<invited, granted>>
    BY <1>0, <1>5 DEF Offers!Resend, Task
  <2>2. offer'[i] \in Offers!OfferRow /\ offer'[i].status = offer[i].status
    <3>1. offer[i] \in Offers!OfferRow /\ offer[i].secret + 1 \in 0..MaxSent
      BY <1>0, <2>1 DEF Offers!OfferRow
    <3>2. offer'[i] = [offer[i] EXCEPT !.secret = offer[i].secret + 1, !.late = FALSE]
      BY <2>1
    <3> QED BY <3>1, <3>2 DEF Offers!OfferRow
  <2>3. OffersTyped'
    BY <1>0, <2>1, <2>2 DEF Offers!Serves
  <2>4. \A j \in Offer : offer'[j].status = offer[j].status
    BY <2>1, <2>2
  <2> QED BY <2>1, <2>3, <2>4 DEF Offers!TracesAgree, Offers!Is
<1>6. ASSUME NEW w \in Worker, Offers!Revoke(w) PROVE OffersInv'
  <2>1. PICK i \in Offer :
          /\ Offers!Serves(w, "revoke") /\ offer[i].status # "accepted"
          /\ offer' = [offer EXCEPT ![i] = [offer[i] EXCEPT !.status = "revoked"]]
          /\ invited' = IF Offers!Unaccepted(invited) THEN "absent" ELSE invited
          /\ granted' = (granted /\ ~Offers!Unaccepted(invited))
    BY <1>0, <1>6 DEF Offers!Revoke, Task
  <2>2. offer'[i] \in Offers!OfferRow /\ offer'[i].status = "revoked"
    BY <1>0, <2>1 DEF Offers!OfferRow, Offers!Status
  <2>3. OffersTyped'
    BY <1>0, <2>1, <2>2 DEF Offers!Serves, Offers!Membership
  <2>4. \A j \in Offer : offer'[j].status = "accepted" => offer[j].status = "accepted"
    BY <2>1, <2>2
  <2> QED BY <2>1, <2>3, <2>4 DEF Offers!TracesAgree, Offers!Is, Offers!Unaccepted
<1>7. ASSUME NEW w \in Worker, Offers!Accept(w) PROVE OffersInv'
  <2>1. PICK i \in Offer :
          /\ Offers!Serves(w, "accept") /\ invited # "absent"
          /\ offer' = [offer EXCEPT ![i] = [offer[i] EXCEPT !.status = "accepted",
                                                            !.used = desk[w].secret]]
          /\ invited' = "active" /\ UNCHANGED granted
    BY <1>0, <1>7 DEF Offers!Accept, Task
  <2>2. offer'[i] \in Offers!OfferRow
    BY <1>0, <2>1 DEF Offers!OfferRow, Offers!Status, Task
  <2>3. OffersTyped'
    BY <1>0, <2>1, <2>2 DEF Offers!Serves, Offers!Membership
  <2> QED BY <2>1, <2>3 DEF Offers!TracesAgree, Offers!Is
<1>8. ASSUME NEW w \in Worker, Offers!GiveUp(w) PROVE OffersInv'
  BY <1>0, <1>8 DEF Offers!GiveUp, Offers!TracesAgree, Offers!Is
<1>9. CASE Offers!Offboard
  BY <1>9 DEF Offers!Offboard, Offers!TracesAgree, Offers!Is, Offers!Membership
<1>10. ASSUME NEW i \in Offer, Offers!Late(i) PROVE OffersInv'
  <2>1. offer'[i] \in Offers!OfferRow /\ offer'[i].status = offer[i].status
    BY <1>0, <1>10 DEF Offers!Late, Offers!OfferRow
  <2>2. \A j \in Offer : offer'[j].status = offer[j].status
    BY <1>10, <2>1 DEF Offers!Late
  <2> QED BY <1>10, <2>1, <2>2 DEF Offers!Late, Offers!TracesAgree, Offers!Is
<1> QED BY <1>3, <1>4, <1>5, <1>6, <1>7, <1>8, <1>9, <1>10 DEF Offers!Next
-----------------------------------------------------------------------------
(* The scheduled reports: a sweep, and the schedules it has still to do    *)
(* with the times they were due at.                                        *)
Job == [at : {"idle", "next", "generate"}, now : 0..MaxTime, due : Seq(Schedule \X (0..MaxTime))]

Jobs == /\ sweeps \in [Sweeper -> Job]
        /\ \A w \in Sweeper : sweeps[w].at # "idle" => sweeps[w].due # <<>>

ReportsTyped == Reports!SchedulesTypeOK /\ Jobs

(* What one sweep finds due is still due when it comes to it.              *)
StillDue(n, k) ==
  /\ \A i \in DOMAIN k.due : n[k.due[i][1]] = k.due[i][2] /\ k.due[i][2] <= k.now
  /\ \A i, j \in DOMAIN k.due : i # j => k.due[i][1] # k.due[j][1]

ReportsInv ==
  /\ ReportsTyped /\ DeliveredOnce
  /\ \A w \in Sweeper : sweeps[w].at # "idle" => StillDue(next, sweeps[w])

LEMMA ReportsSizes ==
  /\ MaxTime \in Nat /\ MaxCrash \in Nat /\ None \notin Sweeper /\ IsFiniteSet(Schedule)
  /\ \A s \in Schedule : Cadence[s] \in Nat \ {0}
BY ReportsConstants DEF Reports!SchedulesConstantsOK, Reports!IsFiniteSet, IsFiniteSet

(* _advance_schedule leaves the time of the sweep behind.                  *)
LEMMA AdvancedPast ==
  ASSUME NEW from \in Nat, NEW by \in Nat \ {0}, NEW now \in 0..MaxTime
  PROVE  Reports!Advanced(from, by, now) \in Nat /\ Reports!Advanced(from, by, now) > now
<1> DEFINE later == {from + by * k : k \in 1..(MaxTime + 1)}
           past  == {t \in later : t > now}
<1>1. MaxTime \in Nat
  BY ReportsSizes
<1>2. \A k \in 1..(MaxTime + 1) : by * k \in Nat /\ by * k >= k
  BY <1>1
<1>3. later \subseteq Nat
  BY <1>1, <1>2
<1>4. from + by * (MaxTime + 1) \in past
  BY <1>1, <1>2
<1>5. PICK m \in past : \A t \in past : m <= t
  BY <1>3, <1>4, LeastNumber
<1>6. \E t \in later : t > now /\ \A u \in later : u > now => t <= u
  BY <1>5
<1>7. Reports!Advanced(from, by, now) =
        CHOOSE t \in later : t > now /\ \A u \in later : u > now => t <= u
  BY DEF Reports!Advanced
<1> HIDE DEF later
<1>8. Reports!Advanced(from, by, now) \in later /\ Reports!Advanced(from, by, now) > now
  BY <1>6, <1>7
<1> QED BY <1>3, <1>8

(* What is left when the first schedule of a sweep is done.                *)
Left(k) == IF Len(k.due) = 1 THEN Reports!Idle ELSE [k EXCEPT !.at = "next", !.due = Tail(k.due)]

LEMMA RestLeft == \A w : Reports!Rest(w) = [sweeps EXCEPT ![w] = Left(sweeps[w])]
BY DEF Reports!Rest, Left

LEMMA IdleJob == Reports!Idle \in Job /\ Reports!Idle.at = "idle"
BY ReportsSizes, EmptySeq DEF Reports!Idle, Job

LEMMA LeftTyped ==
  ASSUME NEW k \in Job, k.due # <<>>
  PROVE  /\ Left(k) \in Job /\ Left(k).at # "generate"
         /\ k.due[1] \in Schedule \X (0..MaxTime) /\ Head(k.due) = k.due[1]
         /\ Left(k).at # "idle" =>
              /\ Left(k).due # <<>> /\ Left(k).now = k.now
              /\ \A i \in DOMAIN Left(k).due : i + 1 \in DOMAIN k.due /\ i + 1 # 1
                                               /\ Left(k).due[i] = k.due[i + 1]
<1>1. PICK q \in Seq(Schedule \X (0..MaxTime)) : q = k.due /\ q # <<>>
  BY DEF Job
<1>2. Len(q) \in Nat \ {0} /\ q[1] \in Schedule \X (0..MaxTime) /\ Head(q) = q[1]
  BY <1>1
<1>3. CASE Len(q) = 1
  BY <1>1, <1>2, <1>3, IdleJob DEF Left
<1>4. CASE Len(q) # 1
  <2>1. /\ Tail(q) \in Seq(Schedule \X (0..MaxTime)) /\ Len(Tail(q)) = Len(q) - 1
        /\ \A i \in 1..Len(Tail(q)) : Tail(q)[i] = q[i + 1]
    BY <1>1, HeadTailProperties
  <2>2. PICK r : r = Tail(q)
    OBVIOUS
  <2>3. Left(k) = [k EXCEPT !.at = "next", !.due = r]
    BY <1>1, <1>4, <2>2 DEF Left
  <2>4. /\ Left(k) \in Job /\ Left(k).at = "next" /\ Left(k).due = r /\ Left(k).now = k.now
    BY <2>1, <2>2, <2>3 DEF Job
  <2>5. r # <<>> /\ DOMAIN r = 1..(Len(q) - 1) /\ DOMAIN q = 1..Len(q)
    <3>1. r \in Seq(Schedule \X (0..MaxTime)) /\ Len(r) = Len(q) - 1 /\ Len(r) # 0
      BY <1>2, <1>4, <2>1, <2>2
    <3>2. DOMAIN r = 1..Len(r) /\ DOMAIN q = 1..Len(q)
      BY <1>1, <3>1
    <3>3. r # <<>>
      BY <3>1
    <3> QED BY <3>1, <3>2, <3>3
  <2>6. \A i \in DOMAIN r : i + 1 \in DOMAIN q /\ i + 1 # 1 /\ r[i] = q[i + 1]
    BY <1>2, <2>1, <2>2, <2>5
  <2> QED BY <1>1, <1>2, <2>4, <2>5, <2>6
<1> QED BY <1>3, <1>4

LEMMA ReportsBegin == Reports!Init => ReportsInv
<1> SUFFICES ASSUME Reports!Init PROVE ReportsInv
  OBVIOUS
<1>1. Reports!SchedulesTypeOK
  BY ReportsSizes DEF Reports!Init, Reports!SchedulesTypeOK, Reports!Idle
<1>2. Jobs /\ \A w \in Sweeper : sweeps[w].at = "idle"
  BY IdleJob DEF Reports!Init, Jobs
<1>3. DeliveredOnce
  BY DEF Reports!Init, DeliveredOnce, Reports!DeliveredOnce
<1> QED BY <1>1, <1>2, <1>3 DEF ReportsInv, ReportsTyped

(* What a step leaves typed that gives the sweep of one worker the job k.  *)
LEMMA SweepTyped ==
  ASSUME ReportsTyped, NEW w \in Sweeper, NEW k \in Job, k.at # "idle" => k.due # <<>>,
         sweeps' = [sweeps EXCEPT ![w] = k],
         next' \in [Schedule -> Nat], sent' \in [Schedule -> [0..MaxTime -> Nat]],
         failures' \subseteq Schedule, clock' = clock, crashes' \in 0..MaxCrash,
         lock' \in [Schedule -> Sweeper \cup {None}],
         \A s \in Schedule : lock'[s] = w <=> k.at = "generate" /\ Head(k.due)[1] = s,
         \A s \in Schedule, v \in Sweeper \ {w} : lock'[s] = v <=> lock[s] = v
  PROVE  ReportsTyped'
<1>1. \A v \in Sweeper : sweeps'[v] = IF v = w THEN k ELSE sweeps[v]
  BY DEF ReportsTyped, Jobs
<1>2. Jobs'
  BY <1>1 DEF ReportsTyped, Jobs
<1>3. ASSUME NEW s \in Schedule, NEW v \in Sweeper
      PROVE  lock'[s] = v <=> sweeps'[v].at = "generate" /\ Head(sweeps'[v].due)[1] = s
  <2>1. CASE v = w
    BY <1>1, <2>1
  <2>2. CASE v # w
    <3>1. lock[s] = v <=> sweeps[v].at = "generate" /\ Head(sweeps[v].due)[1] = s
      BY DEF ReportsTyped, Reports!SchedulesTypeOK, Reports!Head1
    <3>2. sweeps'[v] = sweeps[v] /\ (lock'[s] = v <=> lock[s] = v)
      BY <1>1, <2>2
    <3> QED BY <3>1, <3>2
  <2> QED BY <2>1, <2>2
<1>4. Reports!SchedulesTypeOK'
  BY <1>3 DEF ReportsTyped, Reports!SchedulesTypeOK, Reports!Head1
<1> QED BY <1>2, <1>4 DEF ReportsTyped

(* The first schedule a sweep has still to do.                             *)
LEMMA FirstJob ==
  ASSUME ReportsTyped, NEW w \in Sweeper, sweeps[w].at # "idle"
  PROVE  /\ sweeps[w] \in Job /\ sweeps[w].due # <<>> /\ sweeps[w].now \in 0..MaxTime
         /\ sweeps[w].due[1] = Reports!Head1(w) /\ 1 \in DOMAIN sweeps[w].due
         /\ Reports!Head1(w)[1] \in Schedule /\ Reports!Head1(w)[2] \in 0..MaxTime
<1>1. PICK k \in Job : k = sweeps[w] /\ k.due # <<>>
  BY DEF ReportsTyped, Jobs
<1>2. k.now \in 0..MaxTime /\ k.due \in Seq(Schedule \X (0..MaxTime))
  BY DEF Job
<1>3. k.due[1] \in Schedule \X (0..MaxTime) /\ Head(k.due) = k.due[1]
  BY <1>1, LeftTyped
<1>4. 1 \in DOMAIN k.due
  BY <1>1, <1>2
<1> QED BY <1>1, <1>2, <1>3, <1>4 DEF Reports!Head1

(* The list of a new sweep.                                                *)
LEMMA SweepFinds ==
  ASSUME ReportsTyped, NEW w \in Sweeper, Reports!Sweep(w)
  PROVE  /\ ReportsTyped'
         /\ UNCHANGED <<next, sent>>
         /\ \E k \in Job : sweeps' = [sweeps EXCEPT ![w] = k] /\ StillDue(next, k)
<1> DEFINE due == {s \in Schedule : next[s] <= clock}
<1>1. PICK q \in Reports!SetToSeqs(due) :
        sweeps' = [sweeps EXCEPT ![w] = [at |-> "next", now |-> clock,
                     due |-> [i \in DOMAIN q |-> <<q[i], next[q[i]]>>]]]
  BY DEF Reports!Sweep
<1>2. due # {} /\ sweeps[w].at = "idle" /\ UNCHANGED <<clock, next, sent, failures, lock, crashes>>
  BY DEF Reports!Sweep
<1>3. IsFiniteSet(due)
  BY ReportsSizes, FS_Subset
<1>4. PICK n \in Nat : n = Cardinality(due) /\ n # 0
  BY <1>2, <1>3, FS_CardinalityType, FS_EmptySet
<1>5. q \in [1..n -> due] /\ \A i, j \in 1..n : i # j => q[i] # q[j]
  BY <1>1, <1>4 DEF Reports!SetToSeqs, Reports!Cardinality, Cardinality
<1>6. PICK r : r = [i \in DOMAIN q |-> <<q[i], next[q[i]]>>]
  OBVIOUS
<1>7. clock \in 0..MaxTime /\ next \in [Schedule -> Nat]
  BY DEF ReportsTyped, Reports!SchedulesTypeOK
<1>8. \A i \in 1..n : q[i] \in Schedule /\ next[q[i]] \in 0..MaxTime /\ next[q[i]] <= clock
  BY <1>5, <1>7, ReportsSizes
<1>9. /\ DOMAIN r = 1..n /\ r \in [1..n -> Schedule \X (0..MaxTime)]
      /\ \A i \in 1..n : r[i] = <<q[i], next[q[i]]>>
  BY <1>5, <1>6, <1>8
<1>10. r \in Seq(Schedule \X (0..MaxTime)) /\ r # <<>>
  <2>1. r \in Seq(Schedule \X (0..MaxTime))
    BY <1>9, IsASeq
  <2>2. 1 \in DOMAIN r
    BY <1>4, <1>9
  <2>3. DOMAIN <<>> = {}
    OBVIOUS
  <2> QED BY <2>1, <2>2, <2>3
<1>11. PICK k : k = [at |-> "next", now |-> clock, due |-> r]
  OBVIOUS
<1>12. k \in Job /\ sweeps' = [sweeps EXCEPT ![w] = k]
  BY <1>1, <1>6, <1>7, <1>10, <1>11 DEF Job
<1>13. \A s \in Schedule : lock'[s] # w
  BY <1>2 DEF ReportsTyped, Reports!SchedulesTypeOK
<1>14. ReportsTyped'
  <2>1. k.at = "next" /\ k.due # <<>>
    BY <1>10, <1>11
  <2> QED BY <1>2, <1>12, <1>13, <2>1, SweepTyped DEF ReportsTyped, Reports!SchedulesTypeOK
<1>15. StillDue(next, k)
  <2>1. k.due = r /\ k.now = clock
    BY <1>11
  <2>2. \A i \in 1..n : r[i][1] = q[i] /\ r[i][2] = next[q[i]]
    BY <1>9
  <2> QED BY <1>5, <1>8, <1>9, <2>1, <2>2 DEF StillDue
<1> QED BY <1>2, <1>12, <1>14, <1>15

(* A step that is done with the first schedule of the sweep.               *)
LEMMA DoneWithFirst ==
  ASSUME ReportsTyped, NEW w \in Sweeper, sweeps[w].at # "idle",
         sweeps' = Reports!Rest(w) \/ sweeps' = [sweeps EXCEPT ![w] = Reports!Idle],
         next' \in [Schedule -> Nat], sent' \in [Schedule -> [0..MaxTime -> Nat]],
         failures' \subseteq Schedule, clock' = clock, crashes' \in 0..MaxCrash,
         lock' = Reports!Unlocked(w) \/ (lock' = lock /\ sweeps[w].at = "next")
  PROVE  ReportsTyped'
<1>1. PICK k : /\ k = Left(sweeps[w]) \/ k = Reports!Idle
               /\ sweeps' = [sweeps EXCEPT ![w] = k]
  BY RestLeft
<1>2. k \in Job /\ k.at # "generate" /\ (k.at # "idle" => k.due # <<>>)
  BY <1>1, FirstJob, LeftTyped, IdleJob
<1>3. lock \in [Schedule -> Sweeper \cup {None}]
  BY DEF ReportsTyped, Reports!SchedulesTypeOK
<1>4. /\ lock' \in [Schedule -> Sweeper \cup {None}]
      /\ \A s \in Schedule : lock'[s] # w
      /\ \A s \in Schedule, v \in Sweeper \ {w} : lock'[s] = v <=> lock[s] = v
  <2>1. CASE lock' = Reports!Unlocked(w)
    BY <1>3, <2>1, ReportsSizes DEF Reports!Unlocked
  <2>2. CASE lock' = lock /\ sweeps[w].at = "next"
    BY <1>3, <2>2 DEF ReportsTyped, Reports!SchedulesTypeOK
  <2> QED BY <2>1, <2>2
<1> QED BY <1>1, <1>2, <1>4, SweepTyped

(* Every step of the sweeps keeps the types.                               *)
LEMMA ReportsTypes ==
  ASSUME ReportsTyped, Reports!Next
  PROVE  ReportsTyped'
<1>1. /\ clock \in 0..MaxTime /\ crashes \in 0..MaxCrash /\ next \in [Schedule -> Nat]
      /\ failures \subseteq Schedule /\ sent \in [Schedule -> [0..MaxTime -> Nat]]
      /\ lock \in [Schedule -> Sweeper \cup {None}]
  BY DEF ReportsTyped, Reports!SchedulesTypeOK
<1>2. CASE Reports!Tick
  <2>1. clock' \in 0..MaxTime
    BY <1>1, <1>2, ReportsSizes DEF Reports!Tick
  <2> QED BY <1>2, <2>1 DEF Reports!Tick, ReportsTyped, Reports!SchedulesTypeOK, Reports!Head1, Jobs
<1>3. ASSUME NEW w \in Sweeper, sweeps[w].at # "idle"
      PROVE  Reports!Advanced(next[Reports!Head1(w)[1]], Cadence[Reports!Head1(w)[1]], sweeps[w].now)
               \in Nat
  BY <1>1, <1>3, FirstJob, AdvancedPast, ReportsSizes
<1>4. ASSUME NEW w \in Sweeper, Reports!SkipStale(w) PROVE ReportsTyped'
  <2>1. sweeps[w].at = "next" /\ sweeps' = Reports!Rest(w)
        /\ UNCHANGED <<clock, sent, failures, lock, crashes>>
    BY <1>4 DEF Reports!SkipStale
  <2>2. next' \in [Schedule -> Nat]
    BY <1>1, <1>3, <1>4, <2>1 DEF Reports!SkipStale
  <2> QED BY <1>1, <2>1, <2>2, DoneWithFirst
<1>5. ASSUME NEW w \in Sweeper, Reports!Deliver(w) PROVE ReportsTyped'
  <2>1. sweeps[w].at = "generate" /\ sweeps' = Reports!Rest(w) /\ lock' = Reports!Unlocked(w)
        /\ UNCHANGED <<clock, failures, crashes>>
    BY <1>5 DEF Reports!Deliver
  <2>2. next' \in [Schedule -> Nat]
    BY <1>1, <1>3, <1>5, <2>1 DEF Reports!Deliver
  <2>3. sent' \in [Schedule -> [0..MaxTime -> Nat]]
    <3>1. PICK s \in Schedule : s = Reports!Head1(w)[1]
      BY <2>1, FirstJob
    <3>2. PICK t \in 0..MaxTime : t = Reports!Head1(w)[2]
      BY <2>1, FirstJob
    <3>3. sent' = [sent EXCEPT ![s] = [sent[s] EXCEPT ![t] = sent[s][t] + 1]]
      BY <1>5, <3>1, <3>2 DEF Reports!Deliver
    <3>4. [sent[s] EXCEPT ![t] = sent[s][t] + 1] \in [0..MaxTime -> Nat]
      <4>1. PICK f \in [0..MaxTime -> Nat] : f = sent[s]
        BY <1>1
      <4>2. f[t] + 1 \in Nat
        OBVIOUS
      <4> QED BY <4>1, <4>2
    <3> QED BY <1>1, <3>3, <3>4
  <2> QED BY <1>1, <2>1, <2>2, <2>3, DoneWithFirst
<1>6. ASSUME NEW w \in Sweeper, Reports!Fail(w) PROVE ReportsTyped'
  <2>1. sweeps[w].at = "generate" /\ sweeps' = Reports!Rest(w) /\ lock' = Reports!Unlocked(w)
        /\ UNCHANGED <<clock, next, sent, crashes>>
    BY <1>6 DEF Reports!Fail
  <2>2. failures' \subseteq Schedule
    BY <1>1, <1>6, <2>1, FirstJob DEF Reports!Fail
  <2> QED BY <1>1, <2>1, <2>2, DoneWithFirst
<1>7. ASSUME NEW w \in Sweeper, Reports!Crash(w) PROVE ReportsTyped'
  <2>1. /\ sweeps[w].at # "idle" /\ sweeps' = [sweeps EXCEPT ![w] = Reports!Idle]
        /\ lock' = Reports!Unlocked(w) /\ UNCHANGED <<clock, next, sent, failures>>
    BY <1>7 DEF Reports!Crash
  <2>2. crashes' \in 0..MaxCrash
    BY <1>1, <1>7, ReportsSizes DEF Reports!Crash
  <2> QED BY <1>1, <2>1, <2>2, DoneWithFirst
<1>8. ASSUME NEW w \in Sweeper, Reports!Advance(w) PROVE ReportsTyped'
  <2>1. sweeps[w].at = "next" /\ UNCHANGED <<clock, next, sent, failures, crashes>>
    BY <1>8 DEF Reports!Advance
  <2>2. PICK s \in Schedule : s = Reports!Head1(w)[1]
    BY <2>1, FirstJob
  <2>3. lock[s] = None /\ lock' = [lock EXCEPT ![s] = w]
    BY <1>8, <2>2 DEF Reports!Advance
  <2>4. PICK j \in Job : j = sweeps[w] /\ j.due # <<>>
    BY <2>1, FirstJob
  <2>5. PICK k : k = [j EXCEPT !.at = "generate"]
    OBVIOUS
  <2>6. k \in Job /\ k.at = "generate" /\ k.due = j.due
    BY <2>4, <2>5 DEF Job
  <2>7. sweeps' = [sweeps EXCEPT ![w] = k] /\ Head(k.due)[1] = s
    BY <1>8, <2>2, <2>4, <2>5, <2>6 DEF Reports!Advance, Reports!Head1
  <2>8. \A t \in Schedule : lock[t] # w
    BY <2>1 DEF ReportsTyped, Reports!SchedulesTypeOK
  <2>9. /\ lock' \in [Schedule -> Sweeper \cup {None}]
        /\ \A t \in Schedule : lock'[t] = w <=> t = s
        /\ \A t \in Schedule, v \in Sweeper \ {w} : lock'[t] = v <=> lock[t] = v
    BY <1>1, <2>3, <2>8, ReportsSizes
  <2>10. \A t \in Schedule : lock'[t] = w <=> k.at = "generate" /\ Head(k.due)[1] = t
    BY <2>6, <2>7, <2>9
  <2>11. k.due # <<>>
    BY <2>4, <2>6
  <2>12. /\ next' \in [Schedule -> Nat] /\ sent' \in [Schedule -> [0..MaxTime -> Nat]]
         /\ failures' \subseteq Schedule /\ clock' = clock /\ crashes' \in 0..MaxCrash
    BY <1>1, <2>1
  <2>13. /\ sweeps' = [sweeps EXCEPT ![w] = k] /\ lock' \in [Schedule -> Sweeper \cup {None}]
         /\ \A t \in Schedule, v \in Sweeper \ {w} : lock'[t] = v <=> lock[t] = v
    BY <2>7, <2>9
  <2> QED BY ONLY ReportsTyped, <2>6, <2>10, <2>11, <2>12, <2>13, SweepTyped
<1> QED
  BY <1>2, <1>4, <1>5, <1>6, <1>7, <1>8, SweepFinds DEF Reports!Next, Reports!Step

(* What is left of a sweep whose first schedule is moved is still due.     *)
LEMMA RestStillDue ==
  ASSUME NEW k \in Job, k.due # <<>>, Left(k).at # "idle", NEW n, NEW m, StillDue(n, k),
         \A s \in Schedule : s # k.due[1][1] => m[s] = n[s]
  PROVE  StillDue(m, Left(k))
<1>1. PICK j : j = Left(k)
  OBVIOUS
<1>2. /\ j.now = k.now /\ 1 \in DOMAIN k.due
      /\ \A i \in DOMAIN j.due : i + 1 \in DOMAIN k.due /\ i + 1 # 1 /\ j.due[i] = k.due[i + 1]
  <2>1. 1 \in DOMAIN k.due
    BY DEF Job
  <2> QED BY <1>1, <2>1, LeftTyped
<1>3. \A i \in DOMAIN k.due : k.due[i][1] \in Schedule
  BY DEF Job
<1>4. \A i \in DOMAIN j.due : i \in Int
  <2>1. j \in Job
    BY <1>1, LeftTyped
  <2> QED BY <2>1 DEF Job
<1>5. ASSUME NEW i \in DOMAIN j.due
      PROVE  m[j.due[i][1]] = j.due[i][2] /\ j.due[i][2] <= j.now
  <2>1. k.due[i + 1][1] # k.due[1][1]
    BY <1>2 DEF StillDue
  <2>2. m[k.due[i + 1][1]] = n[k.due[i + 1][1]]
    BY <1>2, <1>3, <2>1
  <2> QED BY <1>2, <2>2 DEF StillDue
<1>6. ASSUME NEW i \in DOMAIN j.due, NEW l \in DOMAIN j.due, i # l
      PROVE  j.due[i][1] # j.due[l][1]
  <2>1. i + 1 # l + 1
    BY <1>4, <1>6
  <2> QED BY <1>2, <2>1 DEF StillDue
<1> QED BY <1>1, <1>5, <1>6 DEF StillDue

(* With one sweep at a time no report is delivered twice.                  *)
LEMMA ReportsOnce ==
  ASSUME \A v, w \in Sweeper : v = w, ReportsInv, Reports!Next
  PROVE  ReportsInv'
<1>1. ReportsTyped /\ ReportsTyped'
  BY ReportsTypes DEF ReportsInv
<1>2. /\ next \in [Schedule -> Nat] /\ sent \in [Schedule -> [0..MaxTime -> Nat]]
      /\ \A s \in Schedule, t \in 0..MaxTime : sent[s][t] <= 1 /\ (sent[s][t] > 0 => next[s] > t)
  BY DEF ReportsInv, ReportsTyped, Reports!SchedulesTypeOK, DeliveredOnce, Reports!DeliveredOnce
<1>3. ASSUME NEW w \in Sweeper, NEW k, sweeps' = [sweeps EXCEPT ![w] = k],
             k.at # "idle" => StillDue(next', k)
      PROVE  \A v \in Sweeper : sweeps'[v].at # "idle" => StillDue(next', sweeps'[v])
  <2>1. \A v \in Sweeper : v = w /\ sweeps'[v] = k
    BY <1>1, <1>3 DEF ReportsTyped, Jobs
  <2> QED BY <1>3, <2>1
<1>4. ASSUME NEW w \in Sweeper, sweeps' = Reports!Rest(w), sweeps[w].at # "idle",
             \A s \in Schedule : s # Reports!Head1(w)[1] => next'[s] = next[s]
      PROVE  \A v \in Sweeper : sweeps'[v].at # "idle" => StillDue(next', sweeps'[v])
  <2>1. PICK k \in Job : k = sweeps[w] /\ k.due # <<>> /\ k.due[1] = Reports!Head1(w)
    BY <1>1, <1>4, FirstJob
  <2>2. StillDue(next, k)
    BY <1>4, <2>1 DEF ReportsInv
  <2>3. PICK n : n = next'
    OBVIOUS
  <2>4. PICK o : o = next
    OBVIOUS
  <2>5. StillDue(o, k) /\ \A s \in Schedule : s # k.due[1][1] => n[s] = o[s]
    BY <1>4, <2>1, <2>2, <2>3, <2>4 DEF StillDue
  <2>6. Left(k).at # "idle" => StillDue(n, Left(k))
    BY <2>1, <2>5, RestStillDue
  <2>7. PICK j : j = Left(k)
    OBVIOUS
  <2>8. sweeps' = [sweeps EXCEPT ![w] = j]
    BY <1>4, <2>1, <2>7, RestLeft
  <2>9. j.at # "idle" => StillDue(next', j)
    BY <2>3, <2>6, <2>7 DEF StillDue
  <2> QED BY <1>3, <2>8, <2>9
<1>5. ASSUME UNCHANGED <<next, sent>> PROVE DeliveredOnce'
  BY <1>2, <1>5 DEF DeliveredOnce, Reports!DeliveredOnce
<1>6. CASE Reports!Tick
  BY <1>1, <1>5, <1>6 DEF Reports!Tick, ReportsInv, StillDue
<1>7. ASSUME NEW w \in Sweeper, Reports!Sweep(w) PROVE ReportsInv'
  <2>1. UNCHANGED <<next, sent>>
    BY <1>1, <1>7, SweepFinds
  <2>2. PICK k \in Job : sweeps' = [sweeps EXCEPT ![w] = k] /\ StillDue(next, k)
    BY <1>1, <1>7, SweepFinds
  <2>3. StillDue(next', k)
    BY <2>1, <2>2 DEF StillDue
  <2> QED BY <1>1, <1>3, <1>5, <2>1, <2>2, <2>3 DEF ReportsInv
<1>8. ASSUME NEW w \in Sweeper, sweeps[w].at # "idle"
      PROVE  /\ next[Reports!Head1(w)[1]] = Reports!Head1(w)[2]
             /\ Reports!Head1(w)[2] <= sweeps[w].now /\ Reports!Head1(w)[1] \in Schedule
             /\ sweeps[w].now \in 0..MaxTime /\ Reports!Head1(w)[2] \in 0..MaxTime
  <2>1. PICK k \in Job : k = sweeps[w] /\ 1 \in DOMAIN k.due /\ k.due[1] = Reports!Head1(w)
    BY <1>1, <1>8, FirstJob
  <2>2. StillDue(next, k)
    BY <1>8, <2>1 DEF ReportsInv
  <2>3. next[k.due[1][1]] = k.due[1][2] /\ k.due[1][2] <= k.now
    BY <2>1, <2>2 DEF StillDue
  <2> QED BY <1>1, <1>8, <2>1, <2>3, FirstJob
<1>9. ASSUME NEW w \in Sweeper, sweeps[w].at # "idle", NEW s, s = Reports!Head1(w)[1]
      PROVE  /\ Reports!Advanced(next[s], Cadence[s], sweeps[w].now) \in Nat
             /\ Reports!Advanced(next[s], Cadence[s], sweeps[w].now) > sweeps[w].now
  BY <1>2, <1>8, <1>9, AdvancedPast, ReportsSizes
<1>10. ASSUME NEW w \in Sweeper, Reports!SkipStale(w) PROVE ReportsInv'
  <2>1. PICK s \in Schedule : s = Reports!Head1(w)[1]
    BY <1>8, <1>10 DEF Reports!SkipStale
  <2>2. PICK a \in Nat : /\ a = Reports!Advanced(next[s], Cadence[s], sweeps[w].now)
                         /\ a > sweeps[w].now
    BY <1>9, <1>10, <2>1 DEF Reports!SkipStale
  <2>3. /\ next' = [next EXCEPT ![s] = a] /\ sweeps' = Reports!Rest(w) /\ UNCHANGED sent
        /\ sweeps[w].at # "idle"
    BY <1>10, <2>1, <2>2 DEF Reports!SkipStale
  <2>4. next[s] <= sweeps[w].now /\ sweeps[w].now \in Nat
    BY <1>8, <2>1, <2>3, ReportsSizes
  <2>5. \A t \in Schedule : next'[t] >= next[t] /\ (t # s => next'[t] = next[t])
    BY <1>2, <2>2, <2>3, <2>4
  <2>6. DeliveredOnce'
    <3>1. ASSUME NEW t \in Schedule, NEW u \in 0..MaxTime
          PROVE  sent'[t][u] <= 1 /\ (sent'[t][u] > 0 => next'[t] > u)
      <4>1. next[t] \in Nat /\ next'[t] \in Nat /\ sent'[t][u] = sent[t][u]
        BY <1>1, <1>2, <2>3 DEF ReportsTyped, Reports!SchedulesTypeOK
      <4> QED BY <1>2, <2>5, <4>1, ReportsSizes
    <3> QED BY <3>1 DEF DeliveredOnce, Reports!DeliveredOnce
  <2> QED BY <1>1, <1>4, <2>1, <2>3, <2>5, <2>6 DEF ReportsInv
<1>11. ASSUME NEW w \in Sweeper, Reports!Deliver(w) PROVE ReportsInv'
  <2>1. PICK s \in Schedule : s = Reports!Head1(w)[1]
    BY <1>8, <1>11 DEF Reports!Deliver
  <2>2. PICK a \in Nat : /\ a = Reports!Advanced(next[s], Cadence[s], sweeps[w].now)
                         /\ a > sweeps[w].now
    BY <1>9, <1>11, <2>1 DEF Reports!Deliver
  <2>3. PICK d \in 0..MaxTime : d = Reports!Head1(w)[2]
    BY <1>8, <1>11 DEF Reports!Deliver
  <2>4. /\ next' = [next EXCEPT ![s] = a] /\ sweeps' = Reports!Rest(w)
        /\ sent' = [sent EXCEPT ![s] = [sent[s] EXCEPT ![d] = sent[s][d] + 1]]
        /\ sweeps[w].at # "idle"
    BY <1>11, <2>1, <2>2, <2>3 DEF Reports!Deliver
  <2>5. next[s] = d /\ d <= sweeps[w].now /\ sweeps[w].now \in Nat
    BY <1>8, <2>1, <2>3, <2>4, ReportsSizes
  <2>6. \A t \in Schedule : next'[t] >= next[t] /\ (t # s => next'[t] = next[t])
    BY <1>2, <2>2, <2>4, <2>5
  <2>7. DeliveredOnce'
    <3>1. ASSUME NEW t \in Schedule, NEW u \in 0..MaxTime
          PROVE  sent'[t][u] <= 1 /\ (sent'[t][u] > 0 => next'[t] > u)
      <4>1. next[t] \in Nat /\ next'[t] \in Nat /\ sent[t][u] \in Nat
        <5>1. next[t] \in Nat /\ sent[t] \in [0..MaxTime -> Nat]
          BY <1>2
        <5>2. next'[t] \in Nat
          BY <1>2, <2>2, <2>4
        <5> QED BY <5>1, <5>2
      <4>2. sent'[t][u] = IF t = s /\ u = d THEN sent[t][u] + 1 ELSE sent[t][u]
        BY <1>2, <2>4
      <4>3. CASE t = s /\ u = d
        <5>1. sent[t][u] = 0
          BY <1>2, <2>5, <4>1, <4>3, ReportsSizes
        <5>2. next'[t] = a
          BY <1>2, <2>4, <4>3
        <5> QED BY <2>2, <2>5, <4>2, <4>3, <5>1, <5>2, ReportsSizes
      <4>4. CASE ~(t = s /\ u = d)
        BY <1>2, <2>6, <4>1, <4>2, <4>4, ReportsSizes
      <4> QED BY <4>3, <4>4
    <3> QED BY <3>1 DEF DeliveredOnce, Reports!DeliveredOnce
  <2> QED BY <1>1, <1>4, <2>1, <2>4, <2>6, <2>7 DEF ReportsInv
<1>12. ASSUME NEW w \in Sweeper, Reports!Fail(w) PROVE ReportsInv'
  BY <1>1, <1>4, <1>5, <1>12 DEF Reports!Fail, ReportsInv
<1>13. ASSUME NEW w \in Sweeper, Reports!Crash(w) PROVE ReportsInv'
  BY <1>1, <1>3, <1>5, <1>13, IdleJob DEF Reports!Crash, ReportsInv
<1>14. ASSUME NEW w \in Sweeper, Reports!Advance(w) PROVE ReportsInv'
  <2>1. PICK k : k = [sweeps[w] EXCEPT !.at = "generate"]
    OBVIOUS
  <2>2. sweeps' = [sweeps EXCEPT ![w] = k] /\ sweeps[w].at = "next" /\ UNCHANGED <<next, sent>>
    BY <1>14, <2>1 DEF Reports!Advance
  <2>3. StillDue(next, sweeps[w]) /\ k.due = sweeps[w].due /\ k.now = sweeps[w].now
    <3>1. sweeps[w] \in Job
      BY <1>1, <2>2, FirstJob
    <3> QED BY <2>1, <2>2, <3>1 DEF ReportsInv, Job
  <2>4. StillDue(next', k)
    BY <2>2, <2>3 DEF StillDue
  <2> QED BY <1>1, <1>3, <1>5, <2>2, <2>4 DEF ReportsInv
<1> QED
  BY <1>6, <1>7, <1>10, <1>11, <1>12, <1>13, <1>14 DEF Reports!Next, Reports!Step

-----------------------------------------------------------------------------
(* Every step of the composition works in one part.                        *)

LEMMA TeamStep ==
  ASSUME OneDesk = TRUE, TeamInv, [PlatformNext]_allVars
  PROVE  TeamInv'
<1>1. CASE UNCHANGED <<teamVars, part>>
  BY <1>1 DEF teamVars, TeamInv, TeamTyped, Ruled, Screen!AlwaysAnOwner, Screen!Owns,
             Screen!Changing, ReadyToWrite, StillRuled, Rules
<1>2. CASE TeamNext /\ UNCHANGED part
  BY <1>2, TeamTypes, TeamRuled DEF TeamInv
<1> QED BY <1>1, <1>2 DEF PlatformNext, allVars

LEMMA OffersGo ==
  ASSUME OffersInv, [PlatformNext]_allVars
  PROVE  OffersInv'
<1>1. CASE UNCHANGED offerVars
  BY <1>1 DEF offerVars, OffersInv, OffersTyped, Offers!TracesAgree, Offers!Is
<1>2. CASE Offers!Next
  BY <1>2, OffersStep
<1> QED BY <1>1, <1>2 DEF PlatformNext, allVars

LEMMA ReportsGo ==
  ASSUME ReportsTyped, [PlatformNext]_allVars
  PROVE  ReportsTyped'
<1>1. CASE UNCHANGED scheduleVars
  BY <1>1 DEF scheduleVars, ReportsTyped, Jobs, Reports!SchedulesTypeOK, Reports!Head1
<1>2. CASE Reports!Next
  BY <1>2, ReportsTypes
<1> QED BY <1>1, <1>2 DEF PlatformNext, allVars

LEMMA TenancyGoes ==
  ASSUME Inv, [PlatformNext]_allVars
  PROVE  Inv'
<1>1. [Next]_vars
  BY DEF PlatformNext, allVars
<1> QED BY <1>1, StepInv

LEMMA TeamGoes ==
  ASSUME TeamTyped, [PlatformNext]_allVars
  PROVE  TeamTyped'
<1>1. CASE UNCHANGED teamVars
  BY <1>1 DEF teamVars, TeamTyped
<1>2. CASE TeamNext
  BY <1>2, TeamTypes
<1> QED BY <1>1, <1>2 DEF PlatformNext, allVars

(* PlatformTypeOK (the columns and records of reporting/models.py,         *)
(* tenancy/models.py and iam/models.py): the types of the four modules     *)
(* hold together, and a row of a schedule is locked exactly by the sweep   *)
(* that is generating its report, whatever dies when.                      *)
THEOREM PlatformTypes == PlatformSpec => []PlatformTypeOK
<1> DEFINE Typing == ReportsTyped /\ Inv /\ TeamTyped /\ OffersInv
<1>1. PlatformInit => Typing
  BY ReportsBegin, InitInv, TeamInit, OffersInit DEF PlatformInit, ReportsInv, TeamInv
<1>2. Typing /\ [PlatformNext]_allVars => Typing'
  BY ReportsGo, TenancyGoes, TeamGoes, OffersGo
<1>3. Typing => PlatformTypeOK
  <2>1. Inv => TenancyTypeOK
    BY DEF Inv, Typed, WorkerInv, WorkOK, Work, DbSession, TenancyTypeOK
  <2>2. TeamTyped => Screen!TeamTypeOK
    BY DEF TeamTyped, Cell, Request, Screen!TeamTypeOK
  <2>3. OffersInv => Offers!InvitationsTypeOK
    BY DEF OffersInv, OffersTyped, Task, Offers!InvitationsTypeOK
  <2> QED BY <2>1, <2>2, <2>3 DEF ReportsTyped, PlatformTypeOK
<1> QED BY <1>1, <1>2, <1>3, PTL DEF PlatformSpec

(* DeliveredOnce (reporting/tasks.py, run_scheduled_reports): where one    *)
(* worker runs the sweeps, a report is delivered at most once for each     *)
(* time it was due, however often that worker dies and the sweep is        *)
(* delivered again.                                                        *)
THEOREM SentOnce ==
  (\A v, w \in Sweeper : v = w) => (PlatformSpec => []DeliveredOnce)
<1> SUFFICES ASSUME \A v, w \in Sweeper : v = w PROVE PlatformSpec => []DeliveredOnce
  OBVIOUS
<1>1. PlatformInit => ReportsInv
  BY ReportsBegin DEF PlatformInit
<1>2. ReportsInv /\ [PlatformNext]_allVars => ReportsInv'
  <2> SUFFICES ASSUME ReportsInv, [PlatformNext]_allVars PROVE ReportsInv'
    OBVIOUS
  <2>1. CASE UNCHANGED scheduleVars
    BY <2>1 DEF scheduleVars, ReportsInv, ReportsTyped, Jobs, Reports!SchedulesTypeOK,
               Reports!Head1, DeliveredOnce, Reports!DeliveredOnce, StillDue
  <2>2. CASE Reports!Next
    BY <2>2, ReportsOnce
  <2> QED BY <2>1, <2>2 DEF PlatformNext, allVars
<1>3. ReportsInv => DeliveredOnce
  BY DEF ReportsInv
<1> QED BY <1>1, <1>2, <1>3, PTL DEF PlatformSpec

(* MembersAgree (iam/services/team.py, iam/services/invitations.py): where *)
(* the team is changed by one request at a time, somebody can always       *)
(* administer the organisation through its screen, however many people and *)
(* readers there are; and however requests about invitations interleave,   *)
(* an invited membership has an open offer, whoever came in keeps the row  *)
(* that proves it, and a role is held by a membership only.                *)
THEOREM TheTeamIsRuled == OneDesk = TRUE => (PlatformSpec => []MembersAgree)
<1> SUFFICES ASSUME OneDesk = TRUE PROVE PlatformSpec => []MembersAgree
  OBVIOUS
<1>1. PlatformInit => TeamInv /\ OffersInv
  BY TeamInit, OffersInit
<1>2. TeamInv /\ OffersInv /\ [PlatformNext]_allVars => (TeamInv /\ OffersInv)'
  BY TeamStep, OffersGo
<1>3. TeamInv /\ OffersInv => MembersAgree
  BY DEF TeamInv, Ruled, OffersInv, MembersAgree
<1> QED BY <1>1, <1>2, <1>3, PTL DEF PlatformSpec
===============================================================================
