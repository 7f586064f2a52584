---------------------------- MODULE AccessProofs ----------------------------
(***************************************************************************)
(* Proofs about Admission and WorkspaceSessions for any number of          *)
(* requests, workspaces and sessions: how far overlapping requests pass    *)
(* the quotas, that old sessions are refused, and what the counter of      *)
(* sessions tells.                                                         *)
(***************************************************************************)
EXTENDS Admission, WorkspaceSessions, FiniteSetTheorems, TLAPS

-----------------------------------------------------------------------------
(* Admission: the inductive invariant *)

AskRow == {NotAsked} \cup [t : Offered, w : Owned]

\* A workspace that is stopped or deleted has given its reservation back.
AdmTyping ==
    /\ status \in [Owned -> Statuses]
    /\ asked \in [Requesters -> AskRow]
    /\ queued \in [Owned -> [LifecycleTypes -> Nat]]
    /\ reserved \in [Owned -> BOOLEAN]
    /\ returned \in [own : SUBSET Owned, run : SUBSET Owned]
    /\ \A w \in Owned : status[w] \in {"STOPPED", "DELETED"} => ~reserved[w]

\* The workspaces that requests f are about, for the given job types.
AskedIn(f, types) ==
    {w \in Owned : \E r \in Requesters : f[r] # NotAsked /\ f[r].w = w /\ f[r].t \in types}

KeepTypes == LifecycleTypes \ {"DELETE"}
UpTypes == {"CREATE", "START", "RESTART"}

\* The workspaces that count, or will count when the requests under way commit:
\* those were counted when they were asked about, or are new.
OwnHeld == (CountedIn(OwnStatuses) \cup AskedIn(asked, KeepTypes)) \ returned.own

OwnInv == Cardinality(OwnHeld) < OwnLimit + Cardinality(Requesters)

\* A commit takes its workspace out of returned.run, so those asked about count anyway.
RunHeld == (CountedIn(RunStatuses) \ returned.run) \cup AskedIn(asked, UpTypes)

RunInv == Cardinality(RunHeld) < RunLimit + Cardinality(Requesters)

-----------------------------------------------------------------------------
(* Sessions: the inductive invariant *)

AttachRow == [pc : {"idle", "checked", "flushed"}, t : Tokens \cup {"none"},
              cnt : 0 .. Cardinality(Tokens), loaded : 0 .. Cardinality(Tokens)]

AccessRow == [pc : {"idle", "expiring"}, t : Tokens \cup {"none"},
              cnt : 0 .. Cardinality(Tokens), loaded : 0 .. Cardinality(Tokens)]

JobRow == [pc : {"none", "runs", "revoked"}, loaded : 0 .. Cardinality(Tokens),
           cnt : 0 .. Cardinality(Tokens), gone : SUBSET Tokens]

SessTyping ==
    /\ wsUp \in {"RUNNING", "BUSY", "DOWN"}
    /\ sess \in [Tokens -> {"NONE", "ACTIVE", "EXPIRED", "REVOKED"}]
    /\ expired \in [Tokens -> BOOLEAN]
    /\ attach \in [Attachers -> AttachRow] /\ access \in AccessRow
    /\ count \in 0 .. Cardinality(Tokens) /\ job \in JobRow
    /\ run \in 1 .. MaxRuns /\ born \in [Tokens -> Nat]
    /\ slipped \in SUBSET Tokens /\ raced \in BOOLEAN

\* A flushed row is its request's own, an expiring one is past its time, and a request
\* that is over leaves nothing.
RequestInv ==
    /\ \A a \in Attachers :
         /\ attach[a].pc = "idle" => attach[a] = NoRequest
         /\ attach[a].pc = "flushed" =>
              /\ attach[a].t \in Tokens /\ sess[attach[a].t] = "NONE"
              /\ \A b \in Attachers : attach[b].pc = "flushed" /\ attach[b].t = attach[a].t => a = b
    /\ access.pc = "idle" => access = NoRequest
    /\ access.pc = "expiring" => access.t \in Tokens /\ expired[access.t] /\ sess[access.t] # "NONE"
    /\ \A t \in Tokens : sess[t] = "EXPIRED" => expired[t]

\* Whatever comes up revokes the rows it has read, which are all that are ACTIVE but
\* those that slipped in since.
BornInv ==
    /\ wsUp = "BUSY" <=> job.pc # "none"
    /\ \A t \in job.gone : sess[t] # "NONE"
    /\ \A t \in Tokens :
         sess[t] = "ACTIVE" => born[t] = run \/ (t \in slipped /\ born[t] + 1 = run)
    /\ job.pc = "revoked" =>
         \A t \in Tokens :
            sess[t] = "ACTIVE" => t \in job.gone \/ (t \in slipped /\ born[t] = run)

SessInv == SessTyping /\ RequestInv /\ BornInv

\* While nothing has raced, an open transaction has seen the last commit: what it
\* counted can only have expired since.
CountInv ==
    ~raced =>
        /\ Cardinality(Effective) <= count /\ count <= MaxSessions
        /\ job.pc # "none" => job.loaded = count
        /\ job.pc = "revoked" => ActiveRows \subseteq job.gone /\ job.cnt <= MaxSessions
        /\ \A a \in Attachers :
             /\ attach[a].pc # "idle" => attach[a].loaded = count /\ count < MaxSessions
             /\ attach[a].pc = "flushed" =>
                  Cardinality(Effective) + 1 <= attach[a].cnt /\ attach[a].cnt <= MaxSessions
        /\ access.pc = "expiring" =>
             /\ access.loaded = count
             /\ Cardinality(Effective) <= access.cnt /\ access.cnt <= MaxSessions

-----------------------------------------------------------------------------
(* Counting *)

LEMMA UnionCounts ==
    ASSUME NEW S, NEW T, IsFiniteSet(S), IsFiniteSet(T)
    PROVE  Cardinality(S \cup T) <= Cardinality(S) + Cardinality(T) /\ IsFiniteSet(S \cup T)
<1>1. IsFiniteSet(S \cup T) /\ Cardinality(S \cup T) = Cardinality(S) + Cardinality(T) - Cardinality(S \cap T)
  BY FS_Union
<1>2. IsFiniteSet(S \cap T)
  BY FS_Intersection
<1>3. Cardinality(S) \in Nat /\ Cardinality(T) \in Nat /\ Cardinality(S \cap T) \in Nat
  BY <1>2, FS_CardinalityType
<1> QED
  BY <1>1, <1>3

LEMMA SomeOwned ==
    ASSUME NEW S \in SUBSET Owned
    PROVE  IsFiniteSet(S) /\ Cardinality(S) \in Nat
BY AdmissionAssumption, FS_Subset, FS_CardinalityType

LEMMA Limits == /\ OwnLimit \in Nat \ {0} /\ RunLimit \in Nat \ {0} /\ Cardinality(Requesters) \in Nat \ {0}
                /\ Offered \subseteq LifecycleTypes
<1>1. Cardinality(Requesters) \in Nat /\ Cardinality(Requesters) # 0
  BY AdmissionAssumption, FS_CardinalityType, FS_EmptySet
<1> QED
  BY <1>1, AdmissionAssumption

\* Every request is about one workspace.
LEMMA AskedCount ==
    ASSUME NEW f, NEW types
    PROVE  Cardinality(AskedIn(f, types)) <= Cardinality(Requesters)
<1> DEFINE P == {r \in Requesters : f[r] # NotAsked /\ f[r].w \in Owned /\ f[r].t \in types}
           A == AskedIn(f, types)
           g == [r \in P |-> f[r].w]
<1>1. IsFiniteSet(P) /\ Cardinality(P) <= Cardinality(Requesters) /\ Cardinality(P) \in Nat
  <2>1. P \in SUBSET Requesters
    OBVIOUS
  <2> HIDE DEF P
  <2> QED
    BY <2>1, AdmissionAssumption, FS_Subset, FS_CardinalityType
<1>2. g \in Surjection(P, A)
  BY DEF Surjection, AskedIn
<1>3. A \in SUBSET Owned
  BY DEF AskedIn
<1>4. Cardinality(A) \in Nat
  BY <1>3, SomeOwned
<1> HIDE DEF P, A, g
<1>5. Cardinality(A) <= Cardinality(P)
  BY <1>1, <1>2, FS_Surjection
<1> QED
  BY <1>1, <1>4, <1>5, Limits DEF A

\* Fewer than the limit, and those asked about.
LEMMA HeldCount ==
    ASSUME NEW S \in SUBSET Owned, NEW H \in SUBSET Owned, NEW f, NEW types,
           NEW limit \in Nat, Cardinality(S) < limit, H \subseteq S \cup AskedIn(f, types)
    PROVE  Cardinality(H) < limit + Cardinality(Requesters)
<1> DEFINE A == AskedIn(f, types)
<1>1. A \in SUBSET Owned /\ S \cup A \in SUBSET Owned
  BY DEF AskedIn
<1>2. Cardinality(A) <= Cardinality(Requesters)
  BY AskedCount
<1> HIDE DEF A
<1>3. /\ IsFiniteSet(S) /\ IsFiniteSet(A) /\ IsFiniteSet(S \cup A) /\ Cardinality(S) \in Nat
      /\ Cardinality(A) \in Nat /\ Cardinality(S \cup A) \in Nat /\ Cardinality(H) \in Nat
  BY <1>1, SomeOwned
<1>4. Cardinality(S \cup A) <= Cardinality(S) + Cardinality(A)
  BY <1>3, UnionCounts
<1>5. Cardinality(H) <= Cardinality(S \cup A)
  <2>1. H \in SUBSET (S \cup A)
    BY DEF A
  <2> QED
    BY <1>3, <2>1, FS_Subset
<1> QED
  BY <1>2, <1>3, <1>4, <1>5, Limits

LEMMA FewerHeld ==
    ASSUME NEW S \in SUBSET Owned, NEW T \in SUBSET S
    PROVE  Cardinality(T) <= Cardinality(S) /\ Cardinality(T) \in Nat /\ Cardinality(S) \in Nat
<1>1. T \in SUBSET Owned
  OBVIOUS
<1> QED
  BY <1>1, SomeOwned, FS_Subset

-----------------------------------------------------------------------------
(* Admission: the steps *)

LEMMA AskStatuses ==
    ASSUME NEW t \in LifecycleTypes
    PROVE  /\ IntentStatus(t) \in Statuses \ {"STOPPED", "DELETED"}
           /\ IntentStatus(t) \in OwnStatuses => t \in KeepTypes
           /\ IntentStatus(t) \in RunStatuses => t \in UpTypes
           /\ t \in KeepTypes /\ t # "CREATE" => IntentFrom(t) \subseteq OwnStatuses
           /\ UpTypes \subseteq KeepTypes
BY DEF LifecycleTypes, IntentStatus, IntentFrom, Statuses, Busy, Settled, OwnStatuses, RunStatuses,
       KeepTypes, UpTypes

LEMMA EndStatuses ==
    ASSUME NEW t \in LifecycleTypes, NEW v, NEW st \in SuccessStatus(t, v) \cup {"ERROR"}
    PROVE  st \in {"RUNNING", "STOPPED", "DELETED", "ERROR"} /\ st \in Statuses
BY DEF LifecycleTypes, SuccessStatus, Statuses, Settled, SideTypes, SnapshotTypes

\* What a step of each kind does, in the terms of the invariant.
AskStep(r, t, w) ==
    /\ asked' = [asked EXCEPT ![r] = [t |-> t, w |-> w]]
    /\ UNCHANGED <<status, queued, reserved, returned>>

LEMMA AsksKeepTyping ==
    ASSUME AdmTyping, NEW r \in Requesters, NEW t \in Offered, NEW w \in Owned, AskStep(r, t, w)
    PROVE  AdmTyping'
<1>1. [t |-> t, w |-> w] \in AskRow
  BY DEF AskRow
<1> QED
  BY <1>1 DEF AdmTyping, AskStep

LEMMA CommitsAre ==
    ASSUME AdmTyping, NEW r \in Requesters, AskCommits(r)
    PROVE  /\ asked[r] # NotAsked /\ asked[r].t \in Offered /\ asked[r].t \in LifecycleTypes
           /\ asked[r].w \in Owned
           /\ status' = [status EXCEPT ![asked[r].w] = IntentStatus(asked[r].t)]
           /\ queued' = [queued EXCEPT ![asked[r].w][asked[r].t] = @ + 1]
           /\ returned'.own = returned.own
           /\ returned'.run = (IF asked[r].t \in UpTypes THEN returned.run \ {asked[r].w} ELSE returned.run)
           /\ returned' \in [own : SUBSET Owned, run : SUBSET Owned]
           /\ asked' = [asked EXCEPT ![r] = NotAsked] /\ reserved' = reserved
<1>1. asked[r] # NotAsked /\ asked[r] \in AskRow
  BY DEF AdmTyping, AskCommits
<1>2. asked[r].t \in Offered /\ asked[r].w \in Owned
  BY <1>1 DEF AskRow
<1>3. /\ status' = [status EXCEPT ![asked[r].w] = IntentStatus(asked[r].t)]
      /\ queued' = [queued EXCEPT ![asked[r].w][asked[r].t] = @ + 1]
      /\ returned' = [returned EXCEPT !.run = IF asked[r].t \in UpTypes THEN @ \ {asked[r].w} ELSE @]
      /\ asked' = [asked EXCEPT ![r] = NotAsked] /\ reserved' = reserved
  BY Zenon DEF AskCommits, UpTypes
<1>4. returned \in [own : SUBSET Owned, run : SUBSET Owned]
  BY DEF AdmTyping
<1> QED
  BY <1>1, <1>2, <1>3, <1>4, Limits

LEMMA CommitsKeepTyping ==
    ASSUME AdmTyping, NEW r \in Requesters, AskCommits(r)
    PROVE  AdmTyping'
<1> DEFINE t == asked[r].t  w == asked[r].w  s == IntentStatus(t)
<1>1. /\ t \in LifecycleTypes /\ w \in Owned /\ status' = [status EXCEPT ![w] = s]
      /\ queued' = [queued EXCEPT ![w][t] = @ + 1]
      /\ returned' \in [own : SUBSET Owned, run : SUBSET Owned]
      /\ asked' = [asked EXCEPT ![r] = NotAsked] /\ reserved' = reserved
  BY CommitsAre
<1>2. s \in Statuses \ {"STOPPED", "DELETED"}
  BY <1>1, AskStatuses
<1>3. NotAsked \in AskRow
  BY DEF AskRow
<1> HIDE DEF s, t, w
<1>4. queued' \in [Owned -> [LifecycleTypes -> Nat]]
  BY <1>1 DEF AdmTyping
<1> QED
  BY <1>1, <1>2, <1>3, <1>4 DEF AdmTyping

LEMMA EndsAre ==
    ASSUME AdmTyping, NEW w \in Owned, NEW t \in Offered,
           NEW st \in SuccessStatus(t, status[w]) \cup {"ERROR"}, QuotaJobEnds(w, t, st)
    PROVE  /\ st \in {"RUNNING", "STOPPED", "DELETED", "ERROR"} /\ st \in Statuses
           /\ t \in LifecycleTypes /\ queued[w][t] > 0
           /\ status' = [status EXCEPT ![w] = st]
           /\ queued' = [queued EXCEPT ![w][t] = @ - 1]
           /\ returned'.own = (IF Came(OwnStatuses, w, st) THEN returned.own \cup {w} ELSE returned.own)
           /\ returned'.run = (IF Came(RunStatuses, w, st) THEN returned.run \cup {w} ELSE returned.run)
           /\ returned' \in [own : SUBSET Owned, run : SUBSET Owned]
           /\ asked' = asked
           /\ \E res \in BOOLEAN : /\ reserved' = [reserved EXCEPT ![w] = res]
                                   /\ st \in {"STOPPED", "DELETED"} => ~res
<1>1. t \in LifecycleTypes
  BY Limits
<1>2. st \in {"RUNNING", "STOPPED", "DELETED", "ERROR"} /\ st \in Statuses
  BY <1>1, EndStatuses
<1>3. \E res \in BOOLEAN : /\ reserved' = [reserved EXCEPT ![w] = res]
                           /\ st \in {"STOPPED", "DELETED"} => ~res
  <2>1. PICK res \in ReservedAfter(w, st) : reserved' = [reserved EXCEPT ![w] = res]
    BY Zenon DEF QuotaJobEnds
  <2>2. reserved[w] \in BOOLEAN
    BY Zenon DEF AdmTyping
  <2>3. res \in BOOLEAN /\ (st \in {"STOPPED", "DELETED"} => ~res)
    BY <1>2, <2>2 DEF ReservedAfter
  <2> QED
    BY <2>1, <2>3
<1>4. returned \in [own : SUBSET Owned, run : SUBSET Owned]
  BY DEF AdmTyping
<1>5. /\ queued[w][t] > 0 /\ status' = [status EXCEPT ![w] = st]
      /\ queued' = [queued EXCEPT ![w][t] = @ - 1] /\ asked' = asked
      /\ returned' = [own |-> IF Came(OwnStatuses, w, st) THEN returned.own \cup {w} ELSE returned.own,
                      run |-> IF Came(RunStatuses, w, st) THEN returned.run \cup {w} ELSE returned.run]
  BY DEF QuotaJobEnds, JobWrites
<1> QED
  BY <1>1, <1>2, <1>3, <1>4, <1>5

LEMMA EndsKeepTyping ==
    ASSUME AdmTyping, NEW w \in Owned, NEW t \in Offered,
           NEW st \in SuccessStatus(t, status[w]) \cup {"ERROR"}, QuotaJobEnds(w, t, st)
    PROVE  AdmTyping'
<1>1. /\ st \in Statuses /\ t \in LifecycleTypes /\ queued[w][t] > 0
      /\ status' = [status EXCEPT ![w] = st] /\ queued' = [queued EXCEPT ![w][t] = @ - 1]
      /\ returned' \in [own : SUBSET Owned, run : SUBSET Owned] /\ asked' = asked
  BY EndsAre
<1>2. PICK res \in BOOLEAN : /\ reserved' = [reserved EXCEPT ![w] = res]
                             /\ st \in {"STOPPED", "DELETED"} => ~res
  BY EndsAre
<1>3. queued' \in [Owned -> [LifecycleTypes -> Nat]]
  <2>1. queued \in [Owned -> [LifecycleTypes -> Nat]]
    BY DEF AdmTyping
  <2>2. queued[w][t] \in Nat /\ queued[w][t] - 1 \in Nat
    BY <1>1, <2>1
  <2> QED
    BY <1>1, <2>1, <2>2
<1>4. reserved' \in [Owned -> BOOLEAN]
  BY <1>2 DEF AdmTyping
<1>5. \A v \in Owned : status'[v] \in {"STOPPED", "DELETED"} => ~reserved'[v]
  BY <1>1, <1>2 DEF AdmTyping
<1> QED
  BY <1>1, <1>3, <1>4, <1>5 DEF AdmTyping

\* The steps of a job that leave it queued, and those of a side job.
WritesBeside(w, st) ==
    \/ CreateProceeds(w) /\ st = "CREATING"
    \/ JobWaits(w) /\ st = "PENDING"
    \/ SideJobFails(w) /\ st = "ERROR"

LEMMA BesideAre ==
    ASSUME AdmTyping, NEW w \in Owned, NEW st, WritesBeside(w, st)
    PROVE  /\ st \in {"CREATING", "PENDING", "ERROR"} /\ JobWrites(w, st)
           /\ asked' = asked /\ queued' = queued /\ reserved' \in [Owned -> BOOLEAN]
           /\ \A v \in Owned : v # w => reserved'[v] = reserved[v]
BY DEF WritesBeside, CreateProceeds, JobWaits, SideJobFails, AdmTyping

LEMMA BesideKeepTyping ==
    ASSUME AdmTyping, NEW w \in Owned, NEW st, WritesBeside(w, st)
    PROVE  AdmTyping'
<1>1. /\ st \in {"CREATING", "PENDING", "ERROR"} /\ JobWrites(w, st)
      /\ asked' = asked /\ queued' = queued /\ reserved' \in [Owned -> BOOLEAN]
      /\ \A v \in Owned : v # w => reserved'[v] = reserved[v]
  BY BesideAre
<1>2. st \in Statuses
  BY <1>1 DEF Statuses, Busy, Settled
<1>3. status' = [status EXCEPT ![w] = st] /\ returned' \in [own : SUBSET Owned, run : SUBSET Owned]
  BY <1>1 DEF JobWrites, AdmTyping
<1>4. \A v \in Owned : status'[v] \in {"STOPPED", "DELETED"} => ~reserved'[v]
  BY <1>1, <1>3 DEF AdmTyping
<1> QED
  BY <1>1, <1>2, <1>3, <1>4 DEF AdmTyping

-----------------------------------------------------------------------------
(* Admission: the quotas *)

\* The workspaces held are some of the owner's, before and after a step.
LEMMA HeldOwned ==
    /\ OwnHeld \in SUBSET Owned /\ OwnHeld' \in SUBSET Owned
    /\ RunHeld \in SUBSET Owned /\ RunHeld' \in SUBSET Owned
BY DEF OwnHeld, RunHeld, CountedIn, AskedIn

LEMMA FewerKeep ==
    /\ OwnInv /\ OwnHeld' \subseteq OwnHeld => OwnInv'
    /\ RunInv /\ RunHeld' \subseteq RunHeld => RunInv'
BY HeldOwned, FewerHeld, Limits DEF OwnInv, RunInv

\* Outside CREATE a request is about a workspace that counts already.
LEMMA AsksKeepOwn ==
    ASSUME AdmTyping, OwnInv, NEW r \in Requesters, NEW t \in Offered, NEW w \in Owned, Asks(r, t, w)
    PROVE  OwnInv'
<1>1. /\ asked' = [asked EXCEPT ![r] = [t |-> t, w |-> w]] /\ status' = status /\ returned' = returned
      /\ status[w] \in IntentFrom(t)
  BY DEF Asks
<1>2. t \in LifecycleTypes
  BY Limits
<1>3. CASE t = "CREATE"
  <2>1. Cardinality(CountedIn(OwnStatuses)) < OwnLimit
    BY <1>3 DEF Asks, Admitted, UnderOwnLimit
  <2>2. OwnHeld' \subseteq CountedIn(OwnStatuses) \cup AskedIn(asked', KeepTypes)
    BY <1>1 DEF OwnHeld, CountedIn, AskedIn
  <2>3. CountedIn(OwnStatuses) \in SUBSET Owned
    BY DEF CountedIn
  <2>4. OwnLimit \in Nat
    BY Limits
  <2>5. Cardinality(OwnHeld') < OwnLimit + Cardinality(Requesters)
    BY <2>1, <2>2, <2>3, <2>4, HeldOwned, HeldCount
  <2> QED
    BY <2>5 DEF OwnInv
<1>4. CASE t # "CREATE"
  <2>1. t \in KeepTypes => w \in CountedIn(OwnStatuses)
    BY <1>1, <1>2, <1>4, AskStatuses DEF CountedIn
  <2>2. AskedIn(asked', KeepTypes) \subseteq AskedIn(asked, KeepTypes) \cup CountedIn(OwnStatuses)
    BY <1>1, <2>1 DEF AskedIn, AdmTyping
  <2>3. OwnHeld' \subseteq OwnHeld
    BY <1>1, <2>2 DEF OwnHeld, CountedIn, AskedIn
  <2> QED
    BY <2>3, FewerKeep
<1> QED
  BY <1>3, <1>4

LEMMA AsksKeepRun ==
    ASSUME AdmTyping, RunInv, NEW r \in Requesters, NEW t \in Offered, NEW w \in Owned, Asks(r, t, w)
    PROVE  RunInv'
<1>1. asked' = [asked EXCEPT ![r] = [t |-> t, w |-> w]] /\ status' = status /\ returned' = returned
  BY DEF Asks
<1>2. asked'[r] = [t |-> t, w |-> w] /\ t \in LifecycleTypes
  BY <1>1, Limits DEF AdmTyping
<1>3. CASE t \in UpTypes
  <2> DEFINE S == CountedIn(RunStatuses) \ {w}
  <2>1. Cardinality(S) < RunLimit
    BY <1>3 DEF Asks, Admitted, UnderRunLimit, UpTypes
  <2>2. w \in AskedIn(asked', UpTypes)
    BY <1>2, <1>3 DEF AskedIn, NotAsked, LifecycleTypes
  <2>3. RunHeld' \subseteq S \cup AskedIn(asked', UpTypes)
    BY <1>1, <2>2 DEF RunHeld, CountedIn, AskedIn
  <2>4. S \in SUBSET Owned
    BY DEF CountedIn
  <2> HIDE DEF S
  <2>5. RunLimit \in Nat
    BY Limits
  <2>6. Cardinality(RunHeld') < RunLimit + Cardinality(Requesters)
    BY <2>1, <2>3, <2>4, <2>5, HeldOwned, HeldCount
  <2> QED
    BY <2>6 DEF RunInv
<1>4. CASE t \notin UpTypes
  <2>1. AskedIn(asked', UpTypes) \subseteq AskedIn(asked, UpTypes)
    BY <1>1, <1>4 DEF AskedIn, AdmTyping
  <2>2. RunHeld' \subseteq RunHeld
    BY <1>1, <2>1 DEF RunHeld, CountedIn, AskedIn
  <2> QED
    BY <2>2, FewerKeep
<1> QED
  BY <1>3, <1>4

\* A commit brings into the counts only what was asked about.
LEMMA CommitsKeepQuotas ==
    ASSUME AdmTyping, OwnInv, RunInv, NEW r \in Requesters, AskCommits(r)
    PROVE  OwnInv' /\ RunInv'
<1> DEFINE t == asked[r].t  w == asked[r].w  s == IntentStatus(t)
<1>1. /\ asked[r] # NotAsked /\ t \in LifecycleTypes /\ w \in Owned /\ status' = [status EXCEPT ![w] = s]
      /\ returned'.own = returned.own
      /\ returned'.run = (IF t \in UpTypes THEN returned.run \ {w} ELSE returned.run)
      /\ asked' = [asked EXCEPT ![r] = NotAsked]
  BY CommitsAre
<1>2. (s \in OwnStatuses => t \in KeepTypes) /\ (s \in RunStatuses => t \in UpTypes)
  BY <1>1, AskStatuses
<1>3. /\ t \in KeepTypes => w \in AskedIn(asked, KeepTypes)
      /\ t \in UpTypes => w \in AskedIn(asked, UpTypes)
  BY <1>1 DEF AskedIn
<1>4. /\ AskedIn(asked', KeepTypes) \subseteq AskedIn(asked, KeepTypes)
      /\ AskedIn(asked', UpTypes) \subseteq AskedIn(asked, UpTypes)
  BY <1>1 DEF AskedIn, AdmTyping
<1> HIDE DEF s, t, w
<1>5. /\ \A v \in Owned : status'[v] \in OwnStatuses => status[v] \in OwnStatuses \/ v \in AskedIn(asked, KeepTypes)
      /\ \A v \in Owned : status'[v] \in RunStatuses => v \in AskedIn(asked, UpTypes) \/
                          (status[v] \in RunStatuses /\ v # w)
  <2>1. \A v \in Owned : v # w => status'[v] = status[v]
    BY <1>1 DEF AdmTyping
  <2>2. status'[w] = s
    BY <1>1 DEF AdmTyping
  <2> QED
    BY <1>2, <1>3, <2>1, <2>2
<1>6. OwnHeld' \subseteq OwnHeld
  BY <1>1, <1>4, <1>5 DEF OwnHeld, CountedIn
<1>7. RunHeld' \subseteq RunHeld
  BY <1>1, <1>4, <1>5 DEF RunHeld, CountedIn
<1> QED
  BY <1>6, <1>7, FewerKeep

\* What a job writes brings back only what the history notes.
LEMMA WritesKeepQuotas ==
    ASSUME AdmTyping, OwnInv, RunInv, NEW w \in Owned, NEW st, JobWrites(w, st), asked' = asked
    PROVE  OwnInv' /\ RunInv'
<1>1. /\ status' = [status EXCEPT ![w] = st]
      /\ returned'.own = (IF Came(OwnStatuses, w, st) THEN returned.own \cup {w} ELSE returned.own)
      /\ returned'.run = (IF Came(RunStatuses, w, st) THEN returned.run \cup {w} ELSE returned.run)
  BY DEF JobWrites
<1>2. (\A v \in Owned : v # w => status'[v] = status[v]) /\ status'[w] = st
  BY <1>1 DEF AdmTyping
<1>3. OwnHeld' \subseteq OwnHeld
  BY <1>1, <1>2 DEF OwnHeld, CountedIn, AskedIn, Came
<1>4. RunHeld' \subseteq RunHeld
  BY <1>1, <1>2 DEF RunHeld, CountedIn, AskedIn, Came
<1> QED
  BY <1>3, <1>4, FewerKeep

-----------------------------------------------------------------------------
(* Admission: the theorems *)

AdmInv == AdmTyping /\ OwnInv /\ RunInv

LEMMA AdmStarts == ASSUME AdmInit PROVE AdmInv
<1>1. AdmTyping
  BY DEF AdmInit, AdmTyping, AskRow, Statuses
<1>2. OwnHeld = {} /\ RunHeld = {}
  BY DEF AdmInit, OwnHeld, RunHeld, CountedIn, AskedIn, OwnStatuses, RunStatuses
<1>3. Cardinality({}) = 0
  BY FS_EmptySet
<1> QED
  BY <1>1, <1>2, <1>3, Limits DEF AdmInv, OwnInv, RunInv

LEMMA AdmStutters == ASSUME AdmInv, UNCHANGED admVars PROVE AdmInv'
BY DEF AdmInv, AdmTyping, OwnInv, RunInv, OwnHeld, RunHeld, CountedIn, AskedIn, admVars

LEMMA AdmSteps == ASSUME AdmInv, [AdmNext]_admVars PROVE AdmInv'
<1>1. ASSUME NEW r \in Requesters, AskCommits(r) PROVE AdmInv'
  BY <1>1, CommitsKeepTyping, CommitsKeepQuotas DEF AdmInv
<1>2. ASSUME NEW r \in Requesters, NEW w \in Owned, NEW t \in Offered, Asks(r, t, w) PROVE AdmInv'
  <2>1. AskStep(r, t, w)
    BY <1>2 DEF Asks, AskStep
  <2> QED
    BY <1>2, <2>1, AsksKeepTyping, AsksKeepOwn, AsksKeepRun DEF AdmInv
<1>3. ASSUME NEW w \in Owned, NEW t \in Offered,
             NEW st \in SuccessStatus(t, status[w]) \cup {"ERROR"}, QuotaJobEnds(w, t, st)
      PROVE  AdmInv'
  <2>1. JobWrites(w, st) /\ asked' = asked
    BY <1>3 DEF QuotaJobEnds
  <2> QED
    BY <1>3, <2>1, EndsKeepTyping, WritesKeepQuotas DEF AdmInv
<1>4. ASSUME NEW w \in Owned, CreateProceeds(w) \/ JobWaits(w) \/ SideJobFails(w) PROVE AdmInv'
  <2>1. PICK st : WritesBeside(w, st)
    BY <1>4 DEF WritesBeside
  <2>2. JobWrites(w, st) /\ asked' = asked
    BY <2>1, BesideAre DEF AdmInv
  <2> QED
    BY <2>1, <2>2, BesideKeepTyping, WritesKeepQuotas DEF AdmInv
<1> QED
  BY <1>1, <1>2, <1>3, <1>4, AdmStutters DEF AdmNext

LEMMA AdmInvAlways == AdmSpec => []AdmInv
BY AdmStarts, AdmSteps, PTL DEF AdmSpec

\* Statuses, requests and reservations keep their kinds, and no workspace that is
\* stopped or deleted holds a reservation of the owner's cpu quota.
THEOREM AdmTypingAlways == AdmSpec => []AdmTypeOK
<1>1. AdmInv => AdmTypeOK
  BY DEF AdmInv, AdmTyping, AskRow, AdmTypeOK
<1> QED
  BY <1>1, AdmInvAlways, PTL

\* However many requests overlap between check_workspace_quota and their commit, the
\* owner passes max_workspaces by less than the number of requests.
THEOREM OwnedWithinLimitAlways == AdmSpec => []OwnedWithinLimit
<1>1. ASSUME AdmInv PROVE OwnedWithinLimit
  <2>1. CountedIn(OwnStatuses) \ returned.own \in SUBSET OwnHeld
    BY DEF OwnHeld
  <2> QED
    BY <1>1, <2>1, HeldOwned, FewerHeld, Limits DEF AdmInv, OwnInv, OwnedWithinLimit
<1> QED
  BY <1>1, AdmInvAlways, PTL

\* The same for check_running_workspace_quota and max_running_workspaces, for the
\* workspaces that no job brought into the count.
THEOREM AdmittedWithinLimitAlways == AdmSpec => []AdmittedWithinLimit
<1>1. ASSUME AdmInv PROVE AdmittedWithinLimit
  <2>1. CountedIn(RunStatuses) \ returned.run \in SUBSET RunHeld
    BY DEF RunHeld
  <2> QED
    BY <1>1, <2>1, HeldOwned, FewerHeld, Limits DEF AdmInv, RunInv, AdmittedWithinLimit
<1> QED
  BY <1>1, AdmInvAlways, PTL

-----------------------------------------------------------------------------
(* Sessions: rows and counts *)

Bound == Cardinality(Tokens)

LEMMA SomeTokens ==
    ASSUME NEW S \in SUBSET Tokens
    PROVE  IsFiniteSet(S) /\ Cardinality(S) \in Nat /\ Cardinality(S) <= Bound /\ Bound \in Nat
BY WorkspaceSessionsAssumption, FS_Subset, FS_CardinalityType DEF Bound

LEMMA FewerTokens ==
    ASSUME NEW S \in SUBSET Tokens, NEW T \in SUBSET S
    PROVE  Cardinality(T) <= Cardinality(S)
BY SomeTokens, FS_Subset

LEMMA OneMoreToken ==
    ASSUME NEW S \in SUBSET Tokens, NEW t \in Tokens, t \notin S
    PROVE  Cardinality(S \cup {t}) = Cardinality(S) + 1 /\ Cardinality(S) + 1 <= Bound
<1>1. S \cup {t} \in SUBSET Tokens
  OBVIOUS
<1>2. Cardinality(S \cup {t}) = Cardinality(S) + 1
  BY SomeTokens, FS_AddElement
<1> QED
  BY <1>1, <1>2, SomeTokens

LEMMA RowSets ==
    /\ ActiveRows \in SUBSET Tokens /\ Effective \in SUBSET ActiveRows /\ Effective \in SUBSET Tokens
    /\ ActiveRows' \in SUBSET Tokens /\ Effective' \in SUBSET ActiveRows' /\ Effective' \in SUBSET Tokens
BY DEF ActiveRows, Effective

LEMMA RowCounts ==
    /\ Cardinality(ActiveRows) \in Nat /\ Cardinality(Effective) \in Nat
    /\ Cardinality(Effective) <= Cardinality(ActiveRows) /\ Cardinality(ActiveRows) <= Bound
    /\ Cardinality(ActiveRows') \in Nat /\ Cardinality(Effective') \in Nat
    /\ Cardinality(Effective') <= Cardinality(ActiveRows') /\ Cardinality(ActiveRows') <= Bound
    /\ Bound \in Nat
BY RowSets, SomeTokens, FewerTokens

LEMMA RunBound == MaxRuns \in Nat \ {0} /\ MaxSessions \in Nat \ {0}
BY WorkspaceSessionsAssumption

-----------------------------------------------------------------------------
(* Sessions: the steps *)

LEMMA RequestFields ==
    ASSUME NEW f, NEW S, f = [b \in S |-> f[b]], NEW a \in S, NEW x, NEW y, NEW z
    PROVE  /\ [f EXCEPT ![a].pc = x, ![a].loaded = y] =
                [f EXCEPT ![a] = [f[a] EXCEPT !.pc = x, !.loaded = y]]
           /\ [f EXCEPT ![a].pc = x, ![a].t = y, ![a].cnt = z] =
                [f EXCEPT ![a] = [f[a] EXCEPT !.pc = x, !.t = y, !.cnt = z]]
OBVIOUS

LEMMA AttachChecksIs ==
    ASSUME SessInv, NEW a \in Attachers, AttachChecks(a)
    PROVE  /\ \E v \in AttachRow : /\ v.pc = "checked" /\ v.loaded = count
                                   /\ attach' = [attach EXCEPT ![a] = v]
           /\ UNCHANGED <<wsUp, sess, expired, access, count, job, run, born, slipped, raced>>
<1> DEFINE v == [attach[a] EXCEPT !.pc = "checked", !.loaded = count]
<1>1. /\ attach = [b \in Attachers |-> attach[b]] /\ attach[a] \in AttachRow
      /\ count \in 0 .. Cardinality(Tokens)
  BY DEF SessInv, SessTyping
<1>2. attach' = [attach EXCEPT ![a].pc = "checked", ![a].loaded = count]
  BY DEF AttachChecks
<1>3. attach' = [attach EXCEPT ![a] = v]
  BY <1>1, <1>2, RequestFields, Zenon
<1>4. v \in AttachRow /\ v.pc = "checked" /\ v.loaded = count
  BY <1>1 DEF AttachRow
<1> QED
  BY <1>3, <1>4 DEF AttachChecks

LEMMA AttachChecksKeeps ==
    ASSUME SessInv, NEW a \in Attachers, AttachChecks(a)
    PROVE  SessInv'
<1>1. PICK v \in AttachRow : v.pc = "checked" /\ v.loaded = count /\ attach' = [attach EXCEPT ![a] = v]
  BY AttachChecksIs
<1>2. UNCHANGED <<wsUp, sess, expired, access, count, job, run, born, slipped, raced>>
  BY AttachChecksIs
<1>3. SessTyping'
  BY <1>1, <1>2 DEF SessInv, SessTyping
<1>4. (\A b \in Attachers : b # a => attach'[b] = attach[b]) /\ attach'[a] = v
  BY <1>1 DEF SessInv, SessTyping
<1>5. RequestInv'
  BY <1>1, <1>2, <1>4 DEF SessInv, RequestInv
<1> QED
  BY <1>2, <1>3, <1>5 DEF SessInv, BornInv

LEMMA AttachFlushesIs ==
    ASSUME SessInv, NEW a \in Attachers, NEW t \in Tokens, AttachFlushes(a, t)
    PROVE  /\ \E v \in AttachRow : /\ v.pc = "flushed" /\ v.t = t /\ v.cnt = Cardinality(Effective) + 1
                                   /\ v.loaded = attach[a].loaded
                                   /\ attach' = [attach EXCEPT ![a] = v]
           /\ attach[a].pc = "checked"
           /\ UNCHANGED <<wsUp, sess, expired, access, count, job, run, born, slipped, raced>>
           /\ sess[t] = "NONE"
           /\ \A b \in Attachers : attach[b].pc = "flushed" => attach[b].t # t
<1> DEFINE c == Cardinality(Effective) + 1
           v == [attach[a] EXCEPT !.pc = "flushed", !.t = t, !.cnt = c]
<1>1. attach = [b \in Attachers |-> attach[b]] /\ attach[a] \in AttachRow
  BY DEF SessInv, SessTyping
<1>2. attach' = [attach EXCEPT ![a].pc = "flushed", ![a].t = t, ![a].cnt = c]
  BY DEF AttachFlushes
<1>3. sess[t] = "NONE" /\ t \notin Effective
  BY DEF AttachFlushes, Effective, ActiveRows
<1>4. c \in 0 .. Cardinality(Tokens)
  <2>1. Cardinality(Effective) + 1 <= Bound /\ Cardinality(Effective) \in Nat /\ Bound \in Nat
    BY <1>3, RowSets, RowCounts, OneMoreToken
  <2> QED
    BY <2>1 DEF Bound
<1> HIDE DEF c
<1>5. attach' = [attach EXCEPT ![a] = v]
  BY <1>1, <1>2, RequestFields, Zenon
<1>6. v \in AttachRow /\ v.pc = "flushed" /\ v.t = t /\ v.cnt = c /\ v.loaded = attach[a].loaded
  BY <1>1, <1>4 DEF AttachRow
<1> QED
  BY <1>3, <1>5, <1>6 DEF AttachFlushes, Flushed, c

LEMMA AttachFlushesKeeps ==
    ASSUME SessInv, NEW a \in Attachers, NEW t \in Tokens, AttachFlushes(a, t)
    PROVE  SessInv'
<1>1. PICK v \in AttachRow : v.pc = "flushed" /\ v.t = t /\ attach' = [attach EXCEPT ![a] = v]
  BY AttachFlushesIs
<1>2. /\ UNCHANGED <<wsUp, sess, expired, access, count, job, run, born, slipped, raced>>
      /\ sess[t] = "NONE" /\ \A b \in Attachers : attach[b].pc = "flushed" => attach[b].t # t
  BY AttachFlushesIs
<1>3. SessTyping'
  BY <1>1, <1>2 DEF SessInv, SessTyping
<1>4. (\A b \in Attachers : b # a => attach'[b] = attach[b]) /\ attach'[a] = v
  BY <1>1 DEF SessInv, SessTyping
<1>5. RequestInv'
  BY <1>1, <1>2, <1>4 DEF SessInv, RequestInv
<1> QED
  BY <1>2, <1>3, <1>5 DEF SessInv, BornInv

LEMMA CountAfterIs ==
    ASSUME NEW loaded, NEW cnt
    PROVE  /\ CountAfter(loaded, cnt) \in {count, cnt}
           /\ loaded = count => CountAfter(loaded, cnt) = cnt
BY DEF CountAfter

LEMMA AttachCommitsIs ==
    ASSUME SessInv, NEW a \in Attachers, AttachCommits(a)
    PROVE  /\ attach[a].pc = "flushed" /\ attach[a].t \in Tokens /\ sess[attach[a].t] = "NONE"
           /\ sess' = [sess EXCEPT ![attach[a].t] = "ACTIVE"]
           /\ born' = [born EXCEPT ![attach[a].t] = run]
           /\ count' = CountAfter(attach[a].loaded, attach[a].cnt)
           /\ attach' = [attach EXCEPT ![a] = NoRequest]
           /\ slipped' = slipped \cup {t \in {attach[a].t} : job.pc = "revoked"}
           /\ raced' \in BOOLEAN
           /\ UNCHANGED <<wsUp, expired, access, job, run>>
<1>1. raced' \in BOOLEAN
  BY Zenon DEF AttachCommits
<1> QED
  BY <1>1 DEF AttachCommits, SessInv, RequestInv

LEMMA NoRequestRow == NoRequest \in AttachRow /\ NoRequest \in AccessRow /\ NoRequest.pc = "idle"
BY RowCounts DEF NoRequest, AttachRow, AccessRow, Bound

LEMMA AttachCommitsKeeps ==
    ASSUME SessInv, NEW a \in Attachers, AttachCommits(a)
    PROVE  SessInv'
<1> DEFINE t == attach[a].t  c == attach[a].cnt
<1>1. /\ attach[a].pc = "flushed" /\ t \in Tokens /\ sess[t] = "NONE"
      /\ sess' = [sess EXCEPT ![t] = "ACTIVE"] /\ born' = [born EXCEPT ![t] = run]
      /\ count' \in {count, c} /\ attach' = [attach EXCEPT ![a] = NoRequest]
      /\ slipped' = slipped \cup {u \in {t} : job.pc = "revoked"}
      /\ raced' \in BOOLEAN /\ UNCHANGED <<wsUp, expired, access, job, run>>
  BY AttachCommitsIs, CountAfterIs
<1>2. c \in 0..Cardinality(Tokens)
  BY DEF SessInv, SessTyping, AttachRow
<1>3. \A b \in Attachers : b # a /\ attach[b].pc = "flushed" => attach[b].t # t
  BY <1>1 DEF SessInv, RequestInv
<1> HIDE DEF t, c
<1>4. SessTyping'
  BY <1>1, <1>2, NoRequestRow, RunBound DEF SessInv, SessTyping
<1>5. (\A b \in Attachers : b # a => attach'[b] = attach[b]) /\ attach'[a] = NoRequest
  BY <1>1 DEF SessInv, SessTyping
<1>6. (\A u \in Tokens : u # t => sess'[u] = sess[u] /\ born'[u] = born[u])
      /\ sess'[t] = "ACTIVE" /\ born'[t] = run
  BY <1>1 DEF SessInv, SessTyping
<1>7. RequestInv'
  BY <1>1, <1>3, <1>5, <1>6, NoRequestRow DEF SessInv, RequestInv
<1>8. BornInv'
  BY <1>1, <1>6 DEF SessInv, BornInv
<1> QED
  BY <1>4, <1>7, <1>8 DEF SessInv

LEMMA TimePassesKeeps ==
    ASSUME SessInv, NEW t \in Tokens, TimePasses(t)
    PROVE  SessInv'
<1>1. /\ expired' = [expired EXCEPT ![t] = TRUE]
      /\ UNCHANGED <<wsUp, sess, attach, access, count, job, run, born, slipped, raced>>
  BY DEF TimePasses
<1>2. \A u \in Tokens : expired[u] => expired'[u]
  BY <1>1 DEF SessInv, SessTyping
<1>3. SessTyping'
  BY <1>1 DEF SessInv, SessTyping
<1>4. RequestInv'
  BY <1>1, <1>2 DEF SessInv, RequestInv
<1> QED
  BY <1>1, <1>3, <1>4 DEF SessInv, BornInv

LEMMA AccessExpiresIs ==
    ASSUME SessInv, NEW t \in Tokens, AccessExpires(t)
    PROVE  /\ access' \in AccessRow /\ access'.pc = "expiring" /\ access'.t = t
           /\ access'.loaded = count /\ access'.cnt = Cardinality(Effective)
           /\ t \in ActiveRows /\ t \notin Effective /\ expired[t] /\ sess[t] = "ACTIVE"
           /\ UNCHANGED <<wsUp, sess, expired, attach, count, job, run, born, slipped, raced>>
<1> DEFINE c == Cardinality(Effective)
<1>1. t \in ActiveRows /\ t \notin Effective /\ expired[t] /\ sess[t] = "ACTIVE"
  BY DEF AccessExpires, Expirable, ActiveRows, Effective
<1>2. Effective \ {t} = Effective
  BY <1>1
<1>3. access' = [pc |-> "expiring", t |-> t, loaded |-> count, cnt |-> c]
  BY <1>2 DEF AccessExpires
<1>4. c \in 0 .. Cardinality(Tokens)
  <2>1. c \in Nat /\ c <= Bound /\ Bound \in Nat
    BY RowSets, SomeTokens
  <2> QED
    BY <2>1 DEF Bound
<1>5. count \in 0 .. Cardinality(Tokens)
  BY DEF SessInv, SessTyping
<1> HIDE DEF c
<1> QED
  BY <1>1, <1>3, <1>4, <1>5 DEF AccessExpires, AccessRow, c

LEMMA AccessExpiresKeeps ==
    ASSUME SessInv, NEW t \in Tokens, AccessExpires(t)
    PROVE  SessInv'
<1>1. /\ access' \in AccessRow /\ access'.pc = "expiring" /\ access'.t = t /\ expired[t] /\ sess[t] = "ACTIVE"
      /\ UNCHANGED <<wsUp, sess, expired, attach, count, job, run, born, slipped, raced>>
  BY AccessExpiresIs
<1>2. SessTyping'
  BY <1>1 DEF SessInv, SessTyping
<1>3. RequestInv'
  BY <1>1 DEF SessInv, RequestInv
<1> QED
  BY <1>1, <1>2, <1>3 DEF SessInv, BornInv

LEMMA AccessCommitsIs ==
    ASSUME SessInv, AccessCommits
    PROVE  /\ access.pc = "expiring" /\ access.t \in Tokens /\ expired[access.t] /\ sess[access.t] # "NONE"
           /\ sess' = [sess EXCEPT ![access.t] = "EXPIRED"]
           /\ count' = CountAfter(access.loaded, access.cnt)
           /\ access' = NoRequest /\ raced' \in BOOLEAN
           /\ UNCHANGED <<wsUp, expired, attach, job, run, born, slipped>>
<1>1. raced' \in BOOLEAN
  BY Zenon DEF AccessCommits
<1> QED
  BY <1>1 DEF AccessCommits, SessInv, RequestInv

LEMMA AccessCommitsKeeps ==
    ASSUME SessInv, AccessCommits
    PROVE  SessInv'
<1> DEFINE t == access.t  c == access.cnt
<1>1. /\ t \in Tokens /\ expired[t] /\ sess[t] # "NONE" /\ sess' = [sess EXCEPT ![t] = "EXPIRED"]
      /\ count' \in {count, c} /\ access' = NoRequest /\ raced' \in BOOLEAN
      /\ UNCHANGED <<wsUp, expired, attach, job, run, born, slipped>>
  BY AccessCommitsIs, CountAfterIs
<1>2. c \in 0..Cardinality(Tokens)
  BY DEF SessInv, SessTyping, AccessRow
<1> HIDE DEF t, c
<1>3. SessTyping'
  BY <1>1, <1>2, NoRequestRow DEF SessInv, SessTyping
<1>4. (\A u \in Tokens : u # t => sess'[u] = sess[u]) /\ sess'[t] = "EXPIRED"
  BY <1>1 DEF SessInv, SessTyping
<1>5. RequestInv'
  BY <1>1, <1>4, NoRequestRow DEF SessInv, RequestInv
<1>6. BornInv'
  BY <1>1, <1>4 DEF SessInv, BornInv
<1> QED
  BY <1>3, <1>5, <1>6 DEF SessInv

\* Both ends of a job that succeeds write what it has revoked.
LEMMA JobLeavesIs ==
    ASSUME SessInv, JobLeavesDown \/ JobLeavesRunning
    PROVE  /\ job.pc = "revoked" /\ wsUp' \in {"DOWN", "RUNNING"}
           /\ run' \in 1 .. MaxRuns /\ raced' \in BOOLEAN
           /\ run' \in {run, run + 1}
           /\ sess' = [t \in Tokens |-> IF t \in job.gone THEN "REVOKED" ELSE sess[t]]
           /\ count' = CountAfter(job.loaded, job.cnt)
           /\ job' = NoJob
           /\ UNCHANGED <<expired, attach, access, born, slipped>>
           /\ ~raced' => ~raced /\ Open = {} /\ access = NoRequest
<1>1. run \in 1 .. MaxRuns /\ MaxRuns \in Nat
  BY RunBound DEF SessInv, SessTyping
<1>2. WriteRevoked
  BY DEF JobLeavesDown, JobLeavesRunning
<1>3. raced' \in BOOLEAN /\ (~raced' => ~raced /\ Open = {} /\ access = NoRequest)
  BY <1>2, Zenon DEF WriteRevoked
<1>4. CASE JobLeavesDown
  BY <1>1, <1>2, <1>3, <1>4 DEF JobLeavesDown, WriteRevoked
<1>5. CASE JobLeavesRunning
  BY <1>1, <1>2, <1>3, <1>5 DEF JobLeavesRunning, WriteRevoked
<1> QED
  BY <1>4, <1>5

LEMMA NoJobRow == NoJob \in JobRow /\ NoJob.pc = "none" /\ NoJob.gone = {}
BY RowCounts DEF NoJob, JobRow, Bound

LEMMA JobLeavesKeeps ==
    ASSUME SessInv, JobLeavesDown \/ JobLeavesRunning
    PROVE  SessInv'
<1> DEFINE c == job.cnt
<1>1. /\ job.pc = "revoked" /\ wsUp' \in {"DOWN", "RUNNING"} /\ run' \in 1 .. MaxRuns /\ raced' \in BOOLEAN
      /\ run' = run \/ run' = run + 1
      /\ job' = NoJob /\ count' \in {count, c}
      /\ UNCHANGED <<expired, attach, access, born, slipped>>
  BY JobLeavesIs, CountAfterIs
<1>2. c \in 0 .. Cardinality(Tokens) /\ job.gone \in SUBSET Tokens
  BY DEF SessInv, SessTyping, JobRow
<1> HIDE DEF c
<1>3. sess' = [t \in Tokens |-> IF t \in job.gone THEN "REVOKED" ELSE sess[t]]
  BY JobLeavesIs
<1>4. sess \in [Tokens -> {"NONE", "ACTIVE", "EXPIRED", "REVOKED"}]
  BY DEF SessInv, SessTyping
<1>5. \A t \in Tokens : \/ sess'[t] = "REVOKED" /\ sess[t] # "NONE"
                        \/ sess'[t] = sess[t] /\ t \notin job.gone
  BY <1>3, <1>4 DEF SessInv, BornInv
<1>6. SessTyping'
  <2>1. sess' \in [Tokens -> {"NONE", "ACTIVE", "EXPIRED", "REVOKED"}]
    BY <1>3, <1>4
  <2> QED
    BY <1>1, <1>2, <2>1, NoJobRow DEF SessInv, SessTyping
<1>7. RequestInv'
  BY <1>1, <1>5 DEF SessInv, RequestInv
<1>8. \A t \in Tokens : sess'[t] = "ACTIVE" => born[t] = run' \/ (t \in slipped /\ born[t] + 1 = run')
  <2>1. CASE run' = run
    BY <1>5, <2>1 DEF SessInv, BornInv
  <2>2. CASE run' = run + 1
    BY <1>1, <1>5, <2>2 DEF SessInv, BornInv
  <2> QED
    BY <1>1, <2>1, <2>2
<1>9. BornInv'
  BY <1>1, <1>8, NoJobRow DEF BornInv
<1> QED
  BY <1>6, <1>7, <1>9 DEF SessInv

LEMMA RecountIs ==
    ASSUME SessInv, NEW loaded \in {job.loaded, count}
    PROVE  /\ loaded \in 0 .. Cardinality(Tokens)
           /\ Recount(loaded) \in 0 .. Cardinality(Tokens)
           /\ Recount(loaded) \in {loaded, Cardinality(Effective)}
<1>1. loaded \in 0 .. Cardinality(Tokens)
  BY DEF SessInv, SessTyping, JobRow
<1>2. Cardinality(Effective) \in 0 .. Cardinality(Tokens)
  BY RowCounts DEF Bound
<1> QED
  BY <1>1, <1>2 DEF Recount

LEMMA JobRevokesIs ==
    ASSUME SessInv, JobRevokes
    PROVE  /\ job.pc = "runs" /\ job' \in JobRow /\ job'.pc = "revoked" /\ job'.gone = ActiveRows
           /\ job'.loaded \in {job.loaded, count}
           /\ job'.cnt \in {job'.loaded, Cardinality(Effective)}
           /\ UNCHANGED <<wsUp, sess, expired, attach, access, count, run, born, slipped, raced>>
<1>1. PICK loaded \in {job.loaded, count} :
         job' = [pc |-> "revoked", loaded |-> loaded, cnt |-> Recount(loaded), gone |-> ActiveRows]
  BY DEF JobRevokes
<1>2. ActiveRows \in SUBSET Tokens
  BY RowSets
<1> DEFINE c == Recount(loaded)
<1>3. c \in 0 .. Cardinality(Tokens) /\ loaded \in 0 .. Cardinality(Tokens) /\ c \in {loaded, Cardinality(Effective)}
  BY <1>1, RecountIs
<1> HIDE DEF c
<1>4. job' = [pc |-> "revoked", loaded |-> loaded, cnt |-> c, gone |-> ActiveRows]
  BY <1>1 DEF c
<1> QED
  BY <1>2, <1>3, <1>4 DEF JobRevokes, JobRow

LEMMA JobRevokesKeeps ==
    ASSUME SessInv, JobRevokes
    PROVE  SessInv'
<1>1. /\ job.pc = "runs" /\ job' \in JobRow /\ job'.pc = "revoked" /\ job'.gone = ActiveRows
      /\ UNCHANGED <<wsUp, sess, expired, attach, access, count, run, born, slipped, raced>>
  BY JobRevokesIs
<1>2. SessTyping'
  BY <1>1 DEF SessInv, SessTyping
<1>3. RequestInv'
  BY <1>1 DEF SessInv, RequestInv
<1>4. BornInv'
  BY <1>1 DEF SessInv, BornInv, ActiveRows
<1> QED
  BY <1>2, <1>3, <1>4 DEF SessInv

LEMMA JobIs ==
    ASSUME SessInv, JobBegins \/ JobFails \/ JobRequeued
    PROVE  /\ UNCHANGED <<sess, expired, attach, access, count, run, born, slipped, raced>>
           /\ wsUp' \in {"BUSY", "DOWN"} /\ job' \in JobRow /\ job'.gone = {}
           /\ \/ wsUp' = "BUSY" /\ job'.pc = "runs" /\ job'.loaded = count
              \/ wsUp' = "DOWN" /\ job'.pc = "none"
<1>1. count \in 0 .. Cardinality(Tokens)
  BY DEF SessInv, SessTyping
<1>2. job.pc = "revoked" => wsUp = "BUSY"
  BY DEF SessInv, BornInv
<1> QED
  BY <1>1, <1>2, NoJobRow DEF JobBegins, JobFails, JobRequeued, NoJob, JobRow

LEMMA JobKeeps ==
    ASSUME SessInv, JobBegins \/ JobFails \/ JobRequeued
    PROVE  SessInv'
<1>1. /\ UNCHANGED <<sess, expired, attach, access, count, run, born, slipped, raced>>
      /\ wsUp' \in {"BUSY", "DOWN"} /\ job' \in JobRow /\ job'.gone = {}
      /\ \/ wsUp' = "BUSY" /\ job'.pc = "runs"
         \/ wsUp' = "DOWN" /\ job'.pc = "none"
  BY JobIs
<1>2. SessTyping'
  BY <1>1 DEF SessInv, SessTyping
<1>3. RequestInv'
  BY <1>1 DEF SessInv, RequestInv
<1>4. BornInv'
  BY <1>1 DEF SessInv, BornInv
<1> QED
  BY <1>2, <1>3, <1>4 DEF SessInv

LEMMA SessStarts == ASSUME SessInit PROVE SessInv
<1>1. SessTyping
  <2>1. 0 \in 0 .. Cardinality(Tokens) /\ 1 \in 1 .. MaxRuns
    BY RunBound, RowCounts DEF Bound
  <2> QED
    BY <2>1, NoRequestRow, NoJobRow DEF SessInit, SessTyping
<1> QED
  BY <1>1, NoRequestRow, NoJobRow DEF SessInit, SessInv, RequestInv, BornInv

LEMMA SessSteps == ASSUME SessInv, [SessNext]_sessVars PROVE SessInv'
<1>1. CASE UNCHANGED sessVars
  BY <1>1 DEF sessVars, SessInv, SessTyping, RequestInv, BornInv
<1>2. CASE SessNext
  BY <1>2, AttachChecksKeeps, AttachCommitsKeeps, AttachFlushesKeeps, TimePassesKeeps, AccessExpiresKeeps,
     AccessCommitsKeeps, JobRevokesKeeps, JobLeavesKeeps, JobKeeps DEF SessNext
<1> QED
  BY <1>1, <1>2

LEMMA SessInvAlways == SessSpec => []SessInv
BY SessStarts, SessSteps, PTL DEF SessSpec

-----------------------------------------------------------------------------
(* Sessions: the counter *)

\* A step that leaves the rows, the counter and the history alone.
RowsStay == UNCHANGED <<sess, expired, count, raced>>

LEMMA StayCounts ==
    ASSUME RowsStay
    PROVE  ActiveRows' = ActiveRows /\ Effective' = Effective /\ count' = count /\ raced' = raced
BY DEF RowsStay, ActiveRows, Effective

\* What CountInv says of an attach request.
AttachCounted(v) ==
    /\ v.pc # "idle" => v.loaded = count /\ count < MaxSessions
    /\ v.pc = "flushed" =>
         Cardinality(Effective) + 1 <= v.cnt /\ v.cnt <= MaxSessions

LEMMA AttachKeepsCount ==
    ASSUME SessInv, CountInv, NEW a \in Attachers, NEW v \in AttachRow,
           attach' = [attach EXCEPT ![a] = v], ~raced => AttachCounted(v),
           RowsStay, UNCHANGED <<access, job>>
    PROVE  CountInv'
<1>1. (\A b \in Attachers : b # a => attach'[b] = attach[b]) /\ attach'[a] = v
  BY DEF SessInv, SessTyping
<1>2. sess' = sess
  BY DEF RowsStay
<1> QED
  BY <1>1, <1>2, StayCounts DEF CountInv, AttachCounted

LEMMA AttachChecksCounts ==
    ASSUME SessInv, CountInv, NEW a \in Attachers, AttachChecks(a)
    PROVE  CountInv'
<1>1. PICK v \in AttachRow : v.pc = "checked" /\ v.loaded = count /\ attach' = [attach EXCEPT ![a] = v]
  BY AttachChecksIs
<1>2. RowsStay /\ UNCHANGED <<access, job>>
  BY AttachChecksIs DEF RowsStay
<1>3. AttachCounted(v)
  BY <1>1 DEF AttachCounted, AttachChecks, UnderQuota
<1> QED
  BY <1>1, <1>2, <1>3, AttachKeepsCount

LEMMA AttachFlushesCounts ==
    ASSUME SessInv, CountInv, NEW a \in Attachers, NEW t \in Tokens, AttachFlushes(a, t)
    PROVE  CountInv'
<1>1. PICK v \in AttachRow : /\ v.pc = "flushed" /\ v.cnt = Cardinality(Effective) + 1
                             /\ v.loaded = attach[a].loaded /\ attach' = [attach EXCEPT ![a] = v]
  BY AttachFlushesIs
<1>2. RowsStay /\ UNCHANGED <<access, job>>
  BY AttachFlushesIs DEF RowsStay
<1>3. ~raced => attach[a].loaded = count /\ count < MaxSessions /\ Cardinality(Effective) <= count
  BY AttachFlushesIs DEF CountInv
<1>4. count \in Nat
  BY DEF SessInv, SessTyping
<1>5. ~raced => AttachCounted(v)
  BY <1>1, <1>3, <1>4, RowCounts, RunBound DEF AttachCounted
<1> QED
  BY <1>1, <1>2, <1>5, AttachKeepsCount

\* The commit of the only open transaction writes what it counted, and one row more.
LEMMA AttachCommitsCounts ==
    ASSUME SessInv, CountInv, NEW a \in Attachers, AttachCommits(a), ~raced'
    PROVE  CountInv'
<1> DEFINE t == attach[a].t
<1>1. /\ attach[a].pc = "flushed" /\ t \in Tokens /\ sess[t] = "NONE"
      /\ sess' = [sess EXCEPT ![t] = "ACTIVE"] /\ attach' = [attach EXCEPT ![a] = NoRequest]
      /\ count' = CountAfter(attach[a].loaded, attach[a].cnt) /\ UNCHANGED <<wsUp, expired, access, job>>
  BY AttachCommitsIs
<1>2. ~raced /\ Open = {a} /\ access = NoRequest /\ job.pc = "none"
  <2>1. ~raced /\ Open = {a} /\ access = NoRequest /\ wsUp # "BUSY"
    BY Zenon DEF AttachCommits
  <2> QED
    BY <2>1 DEF SessInv, BornInv
<1>3. /\ attach[a].loaded = count /\ attach[a].cnt <= MaxSessions
      /\ Cardinality(Effective) + 1 <= attach[a].cnt
  BY <1>1, <1>2 DEF CountInv
<1>4. count' = attach[a].cnt
  BY <1>1, <1>3, CountAfterIs
<1> HIDE DEF t
<1>5. (\A u \in Tokens : u # t => sess'[u] = sess[u]) /\ sess'[t] = "ACTIVE"
  BY <1>1 DEF SessInv, SessTyping
<1>6. t \notin Effective
  BY <1>1 DEF ActiveRows, Effective
<1>7. Effective' \in SUBSET (Effective \cup {t})
  BY <1>1, <1>5 DEF ActiveRows, Effective
<1>9. Cardinality(Effective') <= Cardinality(Effective) + 1
  <2>1. Effective \cup {t} \in SUBSET Tokens
    BY <1>1, RowSets
  <2> QED
    BY <1>1, <1>6, <1>7, <2>1, RowSets, OneMoreToken, FewerTokens
<1>10. attach[a].cnt \in Nat
  BY DEF SessInv, SessTyping, AttachRow
<1>11. Cardinality(Effective') <= count' /\ count' <= MaxSessions
  BY <1>3, <1>4, <1>9, <1>10, RowCounts
<1>12. \A b \in Attachers : attach'[b].pc = "idle"
  BY <1>1, <1>2, NoRequestRow DEF Open, SessInv, SessTyping
<1> QED
  BY <1>1, <1>2, <1>11, <1>12, NoRequestRow DEF CountInv

LEMMA TimePassesCounts ==
    ASSUME SessInv, CountInv, NEW t \in Tokens, TimePasses(t)
    PROVE  CountInv'
<1>1. /\ expired' = [expired EXCEPT ![t] = TRUE]
      /\ UNCHANGED <<sess, attach, access, count, job, raced>>
  BY DEF TimePasses
<1>2. \A u \in Tokens : expired[u] => expired'[u]
  BY <1>1 DEF SessInv, SessTyping
<1>3. ActiveRows' = ActiveRows /\ Effective' \in SUBSET Effective
  BY <1>1, <1>2 DEF ActiveRows, Effective
<1>4. Cardinality(Effective') <= Cardinality(Effective)
  BY <1>3, RowSets, FewerTokens
<1>5. /\ count \in Nat /\ access.cnt \in Nat /\ \A a \in Attachers : attach[a].cnt \in Nat
  BY DEF SessInv, SessTyping, AttachRow, AccessRow
<1> QED
  BY <1>1, <1>3, <1>4, <1>5, RowCounts DEF CountInv

LEMMA AccessExpiresCounts ==
    ASSUME SessInv, CountInv, NEW t \in Tokens, AccessExpires(t)
    PROVE  CountInv'
<1>1. /\ access'.pc = "expiring" /\ access'.t = t /\ access'.loaded = count
      /\ access'.cnt = Cardinality(Effective) /\ t \in ActiveRows /\ t \notin Effective
      /\ sess[t] = "ACTIVE" /\ UNCHANGED <<sess, attach, job>> /\ RowsStay
  BY AccessExpiresIs DEF RowsStay
<1>2. count \in Nat
  BY DEF SessInv, SessTyping
<1> QED
  BY <1>1, <1>2, StayCounts, RowCounts, RunBound DEF CountInv

LEMMA AccessCommitsCounts ==
    ASSUME SessInv, CountInv, AccessCommits, ~raced'
    PROVE  CountInv'
<1> DEFINE t == access.t
<1>1. /\ access.pc = "expiring" /\ t \in Tokens /\ expired[t] /\ sess' = [sess EXCEPT ![t] = "EXPIRED"]
      /\ count' = CountAfter(access.loaded, access.cnt) /\ access' = NoRequest
      /\ UNCHANGED <<wsUp, expired, attach, job>>
  BY AccessCommitsIs
<1>2. ~raced /\ Open = {} /\ job.pc = "none"
  <2>1. ~raced /\ Open = {} /\ wsUp # "BUSY"
    BY Zenon DEF AccessCommits
  <2> QED
    BY <2>1 DEF SessInv, BornInv
<1>3. /\ access.loaded = count
      /\ Cardinality(Effective) <= access.cnt /\ access.cnt <= MaxSessions
  BY <1>1, <1>2 DEF CountInv
<1>4. count' = access.cnt
  BY <1>1, <1>3, CountAfterIs
<1> HIDE DEF t
<1>5. (\A u \in Tokens : u # t => sess'[u] = sess[u]) /\ sess'[t] = "EXPIRED"
  BY <1>1 DEF SessInv, SessTyping
<1>6. Effective' \in SUBSET Effective
  BY <1>1, <1>3, <1>5 DEF ActiveRows, Effective
<1>8. Cardinality(Effective') <= Cardinality(Effective)
  BY <1>6, RowSets, FewerTokens
<1>9. access.cnt \in Nat
  BY DEF SessInv, SessTyping, AccessRow
<1>10. Cardinality(Effective') <= count' /\ count' <= MaxSessions
  BY <1>3, <1>4, <1>8, <1>9, RowCounts
<1>11. \A b \in Attachers : attach'[b].pc = "idle"
  BY <1>1, <1>2 DEF Open
<1> QED
  BY <1>1, <1>2, <1>10, <1>11, NoRequestRow DEF CountInv

\* No row is left that the job has not read, so any count bounds them.
LEMMA JobLeavesCounts ==
    ASSUME SessInv, CountInv, JobLeavesDown \/ JobLeavesRunning, ~raced'
    PROVE  CountInv'
<1>1. /\ job.pc = "revoked" /\ ~raced /\ Open = {} /\ access = NoRequest
      /\ job' = NoJob /\ UNCHANGED <<attach, access>>
      /\ sess' = [t \in Tokens |-> IF t \in job.gone THEN "REVOKED" ELSE sess[t]]
      /\ count' \in {count, job.cnt}
  BY JobLeavesIs, CountAfterIs
<1>2. ActiveRows \subseteq job.gone /\ job.cnt <= MaxSessions /\ count <= MaxSessions
  BY <1>1 DEF CountInv
<1>3. job.cnt \in Nat /\ count \in Nat
  BY DEF SessInv, SessTyping, JobRow
<1>4. Cardinality({}) = 0
  BY FS_EmptySet
<1>5. Effective' = {}
  BY <1>1, <1>2 DEF ActiveRows, Effective
<1>6. \A b \in Attachers : attach'[b].pc = "idle"
  BY <1>1 DEF Open
<1>7. Cardinality(Effective') <= count' /\ count' <= MaxSessions
  BY <1>1, <1>2, <1>3, <1>4, <1>5, RunBound
<1> QED
  BY <1>1, <1>6, <1>7, NoRequestRow, NoJobRow DEF CountInv

LEMMA JobRevokesCounts ==
    ASSUME SessInv, CountInv, JobRevokes
    PROVE  CountInv'
<1>1. /\ job.pc = "runs" /\ job'.pc = "revoked" /\ job'.gone = ActiveRows
      /\ job'.loaded \in {job.loaded, count} /\ job'.cnt \in {job'.loaded, Cardinality(Effective)}
      /\ RowsStay /\ UNCHANGED <<sess, attach, access>>
  BY JobRevokesIs DEF RowsStay
<1>2. count \in Nat
  BY DEF SessInv, SessTyping
<1>3. ~raced => job'.loaded = count /\ job'.cnt <= MaxSessions
  BY <1>1, <1>2, RowCounts, RunBound DEF CountInv
<1> QED
  BY <1>1, <1>3, StayCounts DEF CountInv

LEMMA JobCounts ==
    ASSUME SessInv, CountInv, JobBegins \/ JobFails \/ JobRequeued
    PROVE  CountInv'
<1>1. /\ RowsStay /\ UNCHANGED <<sess, attach, access>> /\ job'.pc # "revoked"
      /\ job'.pc # "none" => job'.loaded = count
  BY JobIs DEF RowsStay
<1> QED
  BY <1>1, StayCounts DEF CountInv

LEMMA CountSteps == ASSUME SessInv, CountInv, [SessNext]_sessVars PROVE CountInv'
<1>1. CASE UNCHANGED sessVars
  <2>1. RowsStay /\ UNCHANGED <<sess, attach, access, job>>
    BY <1>1 DEF sessVars, RowsStay
  <2> QED
    BY <2>1, StayCounts DEF CountInv
<1>2. CASE raced'
  BY <1>2 DEF CountInv
<1>3. CASE SessNext /\ ~raced'
  BY <1>3, AttachChecksCounts, AttachCommitsCounts, AttachFlushesCounts, TimePassesCounts,
     AccessExpiresCounts, AccessCommitsCounts, JobRevokesCounts, JobLeavesCounts, JobCounts DEF SessNext
<1> QED
  BY <1>1, <1>2, <1>3

LEMMA CountStarts == ASSUME SessInit PROVE CountInv
<1>1. ActiveRows = {} /\ Effective = {}
  BY DEF SessInit, ActiveRows, Effective
<1>2. Cardinality({}) = 0
  BY FS_EmptySet
<1> QED
  BY <1>1, <1>2, NoRequestRow, NoJobRow, RunBound DEF SessInit, CountInv

-----------------------------------------------------------------------------
(* Sessions: the theorems *)

\* Rows and requests keep their kinds, a row is EXPIRED only when its time has
\* passed, and no request flushes a row that is already there.
THEOREM SessTypingAlways == SessSpec => []SessTypeOK
<1>1. SessInv => SessTypeOK
  BY DEF SessInv, SessTyping, RequestInv, SessTypeOK, Flushed
<1> QED
  BY <1>1, SessInvAlways, PTL

\* gateway_forward_auth lets no token through that was issued before the workspace
\* last came up, but one whose attach slipped in between the query and the commit of
\* that job, for any number of sessions and attach requests.
THEOREM OldSessionsRefusedAlways == SessSpec => []OldSessionsRefused
<1>1. SessInv => OldSessionsRefused
  BY DEF SessInv, BornInv, OldSessionsRefused, GatewayAllows
<1> QED
  BY <1>1, SessInvAlways, PTL

\* While no two transactions have overlapped, active_sessions_count lies between the
\* number of live sessions and the quota.
THEOREM CountBracketedAlways == SessSpec => []CountBracketed
<1>1. SessSpec => [](SessInv /\ CountInv)
  BY SessStarts, SessSteps, CountStarts, CountSteps, PTL DEF SessSpec
<1>2. CountInv => CountBracketed
  BY DEF CountInv, CountBracketed
<1> QED
  BY <1>1, <1>2, PTL
=============================================================================
