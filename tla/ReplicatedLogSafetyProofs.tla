--------------------- MODULE ReplicatedLogSafetyProofs ---------------------
(***************************************************************************)
(* The safety of the replicated log of oxigeo-ha under an embedder that    *)
(* keeps Raft's rules (Handover) and appends an entry of its own term      *)
(* before it replicates (~Eager): what a node calls committed is on a      *)
(* majority for ever, committed logs agree, and answered entries are kept. *)
(*                                                                         *)
(* The argument needs some history that the code does not keep:            *)
(*   L   for each term the log its winner has had so far, or, if nobody    *)
(*       won the term, that of the winner before it;                       *)
(*   W   the latest term that was won;                                     *)
(*   K   the longest log that was ever committed, kt the term it was       *)
(*       committed in.                                                     *)
(* The invariant says that such L, W, K and kt exist.                      *)
(*                                                                         *)
(* With handlers that run one at a time and an applier that does not fail  *)
(* (~Concurrent, ~ApplyErrors) the log implements StateMachineReplication: *)
(* what is chosen is the longest committed log.                            *)
(***************************************************************************)
EXTENDS ReplicatedLogProofs

-----------------------------------------------------------------------------
(* Logs that agree up to an index.                                          *)
Agree(s, t, i) == i <= Len(s) /\ i <= Len(t) /\ \A j \in 1 .. i : s[j] = t[j]

LEMMA AgreeRefl ==
    ASSUME NEW s \in Seq(Entry), NEW i \in Int, i <= Len(s)
    PROVE  Agree(s, s, i)
BY DEF Agree

LEMMA AgreeSym ==
    ASSUME NEW s, NEW t, NEW i, Agree(s, t, i)
    PROVE  Agree(t, s, i)
BY DEF Agree

LEMMA AgreeTrans ==
    ASSUME NEW s, NEW t, NEW u, NEW i \in Int, NEW j \in Int, NEW k \in Int, i <= j, i <= k,
           Len(s) \in Nat, Len(t) \in Nat, Len(u) \in Nat, Agree(s, t, j), Agree(t, u, k)
    PROVE  Agree(s, u, i)
BY DEF Agree

LEMMA AgreeLess ==
    ASSUME NEW s, NEW t, NEW i \in Int, NEW j \in Int, i <= j, Len(s) \in Nat, Len(t) \in Nat,
           Agree(s, t, j)
    PROVE  Agree(s, t, i)
BY DEF Agree

LEMMA AgreeAppend ==
    ASSUME NEW s \in Seq(Entry), NEW e \in Entry
    PROVE  Agree(s, Append(s, e), Len(s))
BY AppendProperties, LenProperties DEF Agree

-----------------------------------------------------------------------------
(* The logs of the leaders.  A log is rooted in them when each of its       *)
(* entries, with all before it, stands in the log of the leader of its term. *)

Rooted(L, s) == \A i \in 1 .. Len(s) : Agree(s, L[s[i].term], i)

History(L) ==
    /\ L \in [Term -> Seq(Entry)]
    /\ \A t \in Term : /\ Indexed(L[t]) /\ Rooted(L, L[t])
                       /\ \A i \in 1 .. Len(L[t]) : L[t][i].term <= t

(* Nothing was won after W.                                                 *)
Settled(L, W) == \A t \in Term : t >= W => L[t] = L[W]

LEMMA EntryType ==
    ASSUME NEW s \in Seq(Entry), NEW i \in 1 .. Len(s)
    PROVE  /\ s[i] \in Entry /\ s[i].term \in Term /\ s[i].term \in Nat /\ s[i].index \in Nat \ {0}
<1>1. s[i] \in Entry
  BY ElementOfSeq
<1>2. QED BY <1>1, ConstantTypes DEF Entry

LEMMA HistoryLength ==
    ASSUME NEW L, History(L), NEW t \in Term
    PROVE  L[t] \in Seq(Entry) /\ Len(L[t]) \in Nat
BY LenProperties DEF History

(* Terms do not decrease along a log.                                       *)
LEMMA Ascending ==
    ASSUME NEW L, History(L), NEW s \in Seq(Entry), Rooted(L, s),
           NEW j \in 1 .. Len(s), NEW i \in 1 .. j
    PROVE  s[i].term <= s[j].term
<1> DEFINE t == s[j].term
<1>1. t \in Term
  BY EntryType
<1>2. Len(s) \in Nat /\ Len(L[t]) \in Nat
  BY <1>1, LenProperties, HistoryLength
<1>3. Agree(s, L[t], j)
  BY DEF Rooted
<1>4. s[i] = L[t][i] /\ i \in 1 .. Len(L[t])
  BY <1>2, <1>3 DEF Agree
<1>5. QED BY <1>1, <1>4 DEF History

(* Logs with an entry of the same term at an index agree up to there.       *)
LEMMA LogMatching ==
    ASSUME NEW L, History(L), NEW s \in Seq(Entry), Rooted(L, s),
           NEW u \in Seq(Entry), Rooted(L, u),
           NEW i \in 1 .. Len(s), i <= Len(u), s[i].term = u[i].term
    PROVE  Agree(s, u, i)
<1> DEFINE t == s[i].term
<1>1. t \in Term
  BY EntryType
<1>2. Len(s) \in Nat /\ Len(u) \in Nat /\ Len(L[t]) \in Nat
  BY <1>1, LenProperties, HistoryLength
<1>3. Agree(s, L[t], i) /\ Agree(u, L[t], i)
  BY <1>2 DEF Rooted
<1>4. QED BY <1>2, <1>3, AgreeSym, AgreeTrans

(* A log with an entry of the latest term, or later, is the latest leader's. *)
LEMMA LatestLog ==
    ASSUME NEW L, History(L), NEW W \in Term, Settled(L, W), NEW s \in Seq(Entry), Rooted(L, s),
           NEW i \in 1 .. Len(s), s[i].term >= W
    PROVE  Agree(s, L[W], Len(s))
<1>1. Len(s) \in Nat /\ Len(s) \in 1 .. Len(s) /\ i \in 1 .. Len(s)
  BY LenProperties
<1>2. /\ s[Len(s)].term \in Term /\ s[i].term <= s[Len(s)].term
  BY <1>1, EntryType, Ascending
<1>3. s[Len(s)].term >= W
  BY <1>2, EntryType, ConstantTypes
<1>4. QED BY <1>1, <1>2, <1>3 DEF Rooted, Settled

(* The index of a request's last entry.                                     *)
LastOf(q) == q.prevIndex + Len(q.entries)

(* A request from the log u fits the log l.                                 *)
Fits(q, u, l) ==
    /\ q.entries \in Seq(Entry) /\ q.prevIndex \in 0 .. Len(l) /\ LastOf(q) <= Len(u)
    /\ q.prevIndex > 0 => l[q.prevIndex].term = u[q.prevIndex].term
    /\ \A i \in 1 .. Len(q.entries) : q.entries[i] = u[q.prevIndex + i]

(* Splice makes a log agree with the leader's up to the request's last      *)
(* entry, and takes nothing away that agrees with it.                       *)
LEMMA SpliceAgrees ==
    ASSUME NEW L, History(L), NEW l \in Seq(Entry), Rooted(L, l),
           NEW u \in Seq(Entry), Rooted(L, u), NEW q, Fits(q, u, l),
           NEW s, s = Splice(l, q.prevIndex, q.entries)
    PROVE  /\ s \in Seq(Entry) /\ Agree(s, u, LastOf(q)) /\ (s = l \/ Len(s) = LastOf(q))
           /\ \A c \in Nat : Agree(l, u, c) => Agree(s, u, c)
           /\ Rooted(L, s)
<1> DEFINE es == q.entries
           prev == q.prevIndex
           e == LastOf(q)
           k == Keep(l, prev, es)
<1>0. /\ es \in Seq(Entry) /\ prev \in 0 .. Len(l) /\ e = prev + Len(es) /\ e <= Len(u)
      /\ prev > 0 => l[prev].term = u[prev].term
      /\ \A i \in 1 .. Len(es) : es[i] = u[prev + i]
      /\ s = Splice(l, prev, es)
  BY DEF Fits, LastOf
<1> HIDE DEF es, prev, e, k
<1>1. Len(l) \in Nat /\ Len(u) \in Nat /\ Len(es) \in Nat /\ prev \in Nat
  BY <1>0, LenProperties
<1>2. /\ k \in prev .. Len(l)
      /\ \A i \in prev + 1 .. k : i <= e => l[i].term = es[i - prev].term
      /\ k < Len(l) => k < e /\ l[k + 1].term # es[k + 1 - prev].term
  BY <1>0, KeepFacts DEF k
<1>3. /\ s \in Seq(Entry) /\ Len(s) = IF k < e THEN e ELSE k
      /\ \A i \in 1 .. k : s[i] = l[i]
      /\ \A i \in k + 1 .. Len(s) : s[i] = es[i - prev]
  BY <1>0, SpliceFacts DEF k
<1>4. Len(s) \in Nat /\ k \in Nat /\ e \in Nat
  BY <1>0, <1>1, <1>2, <1>3, LenProperties
<1>5. ASSUME NEW i \in prev .. k, i <= e PROVE Agree(l, u, i)
  <2>1. CASE i = 0
    BY <2>1, <1>1 DEF Agree
  <2>2. CASE i > 0
    <3>1. l[i].term = u[i].term
      <4>1. CASE i = prev
        BY <4>1, <2>2, <1>0
      <4>2. CASE i > prev
        <5>1. i - prev \in 1 .. Len(es) /\ prev + (i - prev) = i
          BY <4>2, <1>0, <1>1, <1>4, <1>5
        <5>2. QED BY SMTT(20), <5>1, <4>2, <1>0, <1>1, <1>2, <1>4
      <4>3. QED BY <4>1, <4>2, <1>1
    <3>2. i \in 1 .. Len(l) /\ i <= Len(u)
      BY <2>2, <1>0, <1>1, <1>2, <1>4, <1>5
    <3>3. QED BY <3>1, <3>2, LogMatching
  <2>3. QED BY <2>1, <2>2, <1>1
<1>6. Agree(s, u, e)
  <2>1. CASE k >= e
    <3>1. Agree(l, u, e)
      BY <2>1, <1>0, <1>1, <1>2, <1>5
    <3>2. QED BY <2>1, <3>1, <1>3, <1>4 DEF Agree
  <2>2. CASE k < e
    <3>1. Agree(l, u, k)
      BY <2>2, <1>0, <1>1, <1>2, <1>4, <1>5
    <3>2. ASSUME NEW i \in k + 1 .. e PROVE s[i] = u[i]
      <4>1. i - prev \in 1 .. Len(es) /\ prev + (i - prev) = i /\ i \in k + 1 .. Len(s)
        BY <2>2, <1>0, <1>1, <1>2, <1>3, <1>4
      <4>2. QED BY <4>1, <1>0, <1>3
    <3>3. \A i \in 1 .. k : s[i] = u[i]
      BY <3>1, <1>3 DEF Agree
    <3>4. QED BY <2>2, <3>2, <3>3, <1>0, <1>1, <1>3, <1>4 DEF Agree
  <2>3. QED BY <2>1, <2>2, <1>0, <1>1, <1>4
<1>7. s = l \/ Len(s) = e
  <2>1. CASE k < e
    BY <2>1, <1>3
  <2>2. CASE k >= e
    <3>1. k = Len(l) /\ Len(s) = Len(l)
      BY <2>2, <1>0, <1>1, <1>2, <1>3, <1>4
    <3>2. QED BY <3>1, <1>3, SeqEqual
  <2>3. QED BY <2>1, <2>2, <1>0, <1>1, <1>4
<1>8. ASSUME NEW c \in Nat, Agree(l, u, c) PROVE Agree(s, u, c)
  <2>1. CASE s = l
    BY <2>1, <1>8
  <2>2. CASE s # l /\ c <= e
    BY <2>2, <1>0, <1>1, <1>4, <1>6, AgreeLess
  <2>3. CASE s # l /\ c > e
    <3>2. k = Len(l)
      <4>1. ASSUME k < Len(l) PROVE FALSE
        <5>1. k < e /\ l[k + 1].term # es[k + 1 - prev].term
          BY <4>1, <1>2
        <5>2. k + 1 - prev \in 1 .. Len(es) /\ prev + (k + 1 - prev) = k + 1
          BY <5>1, <1>0, <1>1, <1>2, <1>4
        <5>3. l[k + 1] = u[k + 1]
          BY <1>8, <2>3, <5>1, <1>0, <1>1, <1>4 DEF Agree
        <5>4. QED BY <5>1, <5>2, <5>3, <1>0
      <4>2. QED BY <4>1, <1>0, <1>1, <1>2, <1>4
    <3>3. c <= k
      BY <3>2, <1>8 DEF Agree
    <3>4. k >= e
      BY <3>3, <2>3, <1>4
    <3>5. Len(s) = Len(l)
      BY <3>2, <3>4, <1>3, <1>4
    <3>6. s = l
      BY <3>2, <3>5, <1>3, SeqEqual
    <3>7. QED BY <3>6, <2>3
  <2>4. QED BY <2>1, <2>2, <2>3, <1>4
<1>9. Rooted(L, s)
  <2>1. CASE s = l
    BY <2>1
  <2>2. CASE Len(s) = e
    <3> SUFFICES ASSUME NEW i \in 1 .. Len(s) PROVE Agree(s, L[s[i].term], i)
      BY DEF Rooted
    <3>1. s[i] = u[i] /\ i \in 1 .. Len(u)
      BY <2>2, <1>0, <1>1, <1>4, <1>6 DEF Agree
    <3>2. Agree(u, L[u[i].term], i)
      BY <3>1 DEF Rooted
    <3>3. Len(L[u[i].term]) \in Nat
      BY <3>1, EntryType, HistoryLength
    <3>4. QED BY <2>2, <3>1, <3>2, <3>3, <1>0, <1>1, <1>4, <1>6, AgreeTrans
  <2>3. QED BY <2>1, <2>2, <1>7
<1>10. QED BY <1>3, <1>6, <1>7, <1>8, <1>9 DEF e

-----------------------------------------------------------------------------
(* The invariant, part by part. *)

(* Nothing is in a term that was not polled; W is the last one that was won. *)
Elections(W) ==
    /\ W \in Term /\ W <= polls /\ (W > 0 => winner[W] \in Node)
    /\ winner[0] = NoNode /\ \A t \in Term : t > W => winner[t] = NoNode
    /\ \A n \in Node : term[n] <= polls
    /\ \A q \in reqs : q.term <= polls

LogsRooted(L) ==
    \A n \in Node : Rooted(L, log[n]) /\ \A i \in 1 .. Len(log[n]) : log[n][i].term <= term[n]

(* A request holds a part of its leader's log.  What it calls committed is, *)
(* and one of the latest term ends with an entry of that term.              *)
RequestOK(L, K, W, q) ==
    /\ LastOf(q) <= Len(L[q.term])
    /\ q.prevIndex > 0 => q.prevTerm = L[q.term][q.prevIndex].term
    /\ \A i \in 1 .. Len(q.entries) : q.entries[i] = L[q.term][q.prevIndex + i]
    /\ q.commit <= LastOf(q)
    /\ \A t \in Term : t >= q.term => Agree(K, L[t], q.commit)
    /\ q.to # q.leader
    /\ q.term >= W => q.leader = winner[W] /\ LastOf(q) >= 1 /\ L[W][LastOf(q)].term = W

(* An answer says what the follower holds of the latest leader's log.       *)
Stored(L, W, f, r) == r.success => Agree(L[W], log[f], r.match) /\ term[f] >= W

TaskOK(L, W, n, k) ==
    k.call # NoCall => k.resp.term <= polls /\ (k.call.term >= W => Stored(L, W, n, k.resp))

(* Only the last winner leads; its log is the latest, and it knows of every *)
(* commit of its term.                                                      *)
Current(L, K, kt, W, n) ==
    /\ W > 0 /\ n = winner[W] /\ term[n] >= W /\ log[n] = L[W]
    /\ kt = W => Len(K) <= commit[n]

Matches(L, W, n) ==
    \A f \in Node : /\ next[n][f] <= Len(L[W]) + 1
                    /\ Agree(L[W], log[f], match[n][f])
                    /\ match[n][f] > 0 => term[f] >= W

(* In a round the log ends with an entry of the leader's own term.          *)
RoundOK(L, W, n, d) ==
    d.pc # "idle" =>
        /\ Len(L[W]) >= 1 /\ L[W][Len(L[W])].term = W
        /\ d.commit <= commit[n] /\ d.round \in {1, 2}
        /\ d.mine # NoCall => d.mine.index <= Len(L[W]) /\ L[W][d.mine.index] = d.mine
        /\ d.mine # NoCall /\ d.round = 2 => d.mine.index <= commit[n]

AwaitOK(L, W, n, d) ==
    d.pc = "wait" =>
        /\ d.call \in reqs /\ d.call.to = d.peer /\ d.call.leader = n /\ d.call.term >= W
        /\ d.resp # NoCall => d.resp.term <= polls /\ Stored(L, W, d.peer, d.resp)

DecidedOK(n, d) ==
    d.pc = "commit" =>
        1 + Cardinality({f \in Node \ {n} : match[n][f] >= d.target}) >= Majority

LeaderOK(L, K, kt, W, n) ==
    drv[n].pc # "off" =>
        /\ Current(L, K, kt, W, n) /\ Matches(L, W, n)
        /\ RoundOK(L, W, n, drv[n]) /\ AwaitOK(L, W, n, drv[n]) /\ DecidedOK(n, drv[n])

(* K stands in the log of every leader since kt, and on a majority.         *)
ChosenOK(L, K, kt, W) ==
    /\ kt \in Term /\ kt <= W
    /\ \A t \in Term : t >= kt => Agree(K, L[t], Len(K))
    /\ Len(K) > 0 =>
        /\ K[Len(K)].term = kt
        /\ \E Q \in SUBSET Node : /\ 2 * Cardinality(Q) > Cardinality(Node)
                                  /\ \A m \in Q : Agree(K, log[m], Len(K)) /\ term[m] >= kt

(* What a node calls committed is a part of K, for all the leaders it may   *)
(* still listen to.                                                         *)
CommitOK(L, K, n) ==
    /\ Agree(K, log[n], commit[n])
    /\ \A t \in Term : t >= term[n] => Agree(K, L[t], commit[n])

ToldOK(K, e) == e.index <= Len(K) /\ K[e.index] = e

SafeWith(L, K, kt, W) ==
    /\ History(L) /\ Settled(L, W) /\ K \in Seq(Entry)
    /\ Elections(W) /\ LogsRooted(L) /\ ChosenOK(L, K, kt, W)
    /\ \A q \in reqs : RequestOK(L, K, W, q)
    /\ \A n \in Node : \A k \in tasks[n] : TaskOK(L, W, n, k)
    /\ \A n \in Node : LeaderOK(L, K, kt, W, n)
    /\ \A n \in Node : CommitOK(L, K, n)
    /\ \A e \in answered : ToldOK(K, e)

SafeInv == \E L \in [Term -> Seq(Entry)], K \in Seq(Entry), kt \in Term, W \in Term :
              SafeWith(L, K, kt, W)

(* The task of a leader's own commit runs while its round waits for it.     *)
OwnTasks ==
    \A n \in Node : \A k \in tasks[n] :
        k.call = NoCall => /\ drv[n].pc = "apply"
                           /\ \A j \in tasks[n] : j.call = NoCall => j = k

-----------------------------------------------------------------------------
(* Steps in which no log loses anything that its leader holds. *)

Kept(L) ==
    \A f \in Node :
        /\ term[f] <= term'[f]
        /\ \A c \in Nat : Agree(log[f], L[term'[f]], c) => Agree(log'[f], L[term'[f]], c)

LEMMA NextTypes ==
    ASSUME TypeInv'
    PROVE  /\ log' \in [Node -> Seq(Entry)] /\ term' \in [Node -> Term]
           /\ commit' \in [Node -> Index]
           /\ next' \in [Node -> [Node -> 1 .. MaxLog + 1]]
           /\ match' \in [Node -> [Node -> Index]]
           /\ reqs' \subseteq Req /\ polls' \in Term
           /\ winner' \in [Term -> Node \cup {NoNode}] /\ answered' \subseteq Entry
           /\ drv' \in [Node -> Driver] /\ tasks' \in [Node -> SUBSET Task]
BY DEF TypeInv, TypeOK

(* The latest leader's entries stay on a follower that heard of its term.   *)
LEMMA LatestKept ==
    ASSUME TypeInv, TypeInv', NEW L, History(L), NEW W \in Term, Settled(L, W), Kept(L),
           NEW f \in Node, term[f] >= W, NEW c \in Nat, Agree(L[W], log[f], c)
    PROVE  Agree(L[W], log'[f], c) /\ term'[f] >= W
<1>1. term'[f] \in Term /\ term[f] \in Term
  BY TypeInvType, NextTypes
<1>2. term'[f] >= W
  BY <1>1, ConstantTypes DEF Kept
<1>3. L[term'[f]] = L[W]
  BY <1>1, <1>2 DEF Settled
<1>4. Agree(log'[f], L[W], c)
  BY <1>3, AgreeSym DEF Kept
<1>5. QED BY <1>2, <1>4, AgreeSym

LEMMA StoredKept ==
    ASSUME TypeInv, TypeInv', NEW L, History(L), NEW W \in Term, Settled(L, W), Kept(L),
           NEW f \in Node, NEW r \in Resp, Stored(L, W, f, r)
    PROVE  Stored(L, W, f, r)'
<1> SUFFICES ASSUME r.success PROVE Agree(L[W], log'[f], r.match) /\ term'[f] >= W
  BY DEF Stored, Agree
<1>1. r.match \in Nat
  BY ConstantTypes DEF Resp
<1>2. QED BY <1>1, LatestKept DEF Stored

(* What the leader n knows stays true while its own log stays.              *)
LEMMA LeaderKept ==
    ASSUME TypeInv, TypeInv', NEW L, History(L), NEW W \in Term, Settled(L, W), Kept(L),
           UNCHANGED winner, reqs \subseteq reqs', polls <= polls',
           NEW K \in Seq(Entry), NEW kt, NEW n \in Node,
           log'[n] = log[n], commit[n] <= commit'[n], NEW d \in Driver, DriverShape(d)
    PROVE  /\ Current(L, K, kt, W, n) => Current(L, K, kt, W, n)'
           /\ Matches(L, W, n) /\ next'[n] = next[n] /\ match'[n] = match[n] => Matches(L, W, n)'
           /\ RoundOK(L, W, n, d) => RoundOK(L, W, n, d)'
           /\ AwaitOK(L, W, n, d) => AwaitOK(L, W, n, d)'
           /\ DecidedOK(n, d) /\ match'[n] = match[n] => DecidedOK(n, d)'
<1>1. /\ commit[n] \in Nat /\ commit'[n] \in Nat /\ term[n] \in Nat /\ term'[n] \in Nat
      /\ Len(K) \in Nat /\ W \in Nat /\ polls \in Nat /\ polls' \in Nat
  BY TypeInvType, NextTypes, ConstantTypes, LenProperties
<1>2. Current(L, K, kt, W, n) => Current(L, K, kt, W, n)'
  BY <1>1 DEF Current, Kept
<1>3. Matches(L, W, n) /\ next'[n] = next[n] /\ match'[n] = match[n] => Matches(L, W, n)'
  <2> SUFFICES ASSUME Matches(L, W, n), next'[n] = next[n], match'[n] = match[n],
                      NEW f \in Node
               PROVE  /\ next[n][f] <= Len(L[W]) + 1
                      /\ Agree(L[W], log'[f], match[n][f])
                      /\ match[n][f] > 0 => term'[f] >= W
    BY DEF Matches, Agree
  <2>1. match[n][f] \in Nat /\ Len(log'[f]) \in Nat
    BY TypeInvType, NextTypes, ConstantTypes, LenProperties
  <2>2. CASE match[n][f] = 0
    BY <2>1, <2>2, HistoryLength DEF Matches, Agree
  <2>3. CASE match[n][f] > 0
    BY <2>1, <2>3, LatestKept DEF Matches
  <2>4. QED BY <2>1, <2>2, <2>3 DEF Matches
<1>4. RoundOK(L, W, n, d) => RoundOK(L, W, n, d)'
  <2>1. d.commit \in Nat /\ d.mine \in Entry \cup {NoCall}
    BY ConstantTypes DEF Driver
  <2>2. d.mine # NoCall => d.mine.index \in Nat
    BY <2>1 DEF Entry
  <2>3. QED BY <1>1, <2>1, <2>2 DEF RoundOK
<1>5. AwaitOK(L, W, n, d) => AwaitOK(L, W, n, d)'
  <2> SUFFICES ASSUME AwaitOK(L, W, n, d), d.pc = "wait"
               PROVE  /\ d.call \in reqs' /\ d.call.to = d.peer /\ d.call.leader = n
                      /\ d.call.term >= W
                      /\ d.resp # NoCall => d.resp.term <= polls'
                      /\ d.resp # NoCall => Stored(L, W, d.peer, d.resp)'
    BY DEF AwaitOK, Stored, Agree
  <2>1. d.peer \in Node /\ d.resp \in Resp \cup {NoCall}
    BY DEF Driver, DriverShape
  <2>2. d.resp # NoCall => d.resp.term \in Nat
    BY <2>1, ConstantTypes DEF Resp
  <2>3. d.resp # NoCall => Stored(L, W, d.peer, d.resp)'
    BY <2>1, StoredKept DEF AwaitOK
  <2>4. QED BY <1>1, <2>2, <2>3 DEF AwaitOK
<1>6. DecidedOK(n, d) /\ match'[n] = match[n] => DecidedOK(n, d)'
  BY DEF DecidedOK
<1>7. QED BY <1>2, <1>3, <1>4, <1>5, <1>6

LEMMA LeaderNext ==
    ASSUME NEW L, NEW K, NEW kt, NEW W, NEW n \in Node, NEW d, d = drv'[n],
           d.pc # "off" => /\ Current(L, K, kt, W, n)' /\ Matches(L, W, n)'
                           /\ RoundOK(L, W, n, d)' /\ AwaitOK(L, W, n, d)' /\ DecidedOK(n, d)'
    PROVE  LeaderOK(L, K, kt, W, n)'
BY DEF LeaderOK, RoundOK, AwaitOK, DecidedOK, Stored, Agree

LEMMA ChosenKept ==
    ASSUME TypeInv, TypeInv', NEW L, History(L), Kept(L), NEW K \in Seq(Entry), NEW kt,
           NEW W \in Term, ChosenOK(L, K, kt, W)
    PROVE  ChosenOK(L, K, kt, W)'
<1>1. CASE Len(K) > 0
  <2>1. PICK Q \in SUBSET Node : /\ 2 * Cardinality(Q) > Cardinality(Node)
                                 /\ \A m \in Q : Agree(K, log[m], Len(K)) /\ term[m] >= kt
    BY <1>1 DEF ChosenOK
  <2>2. ASSUME NEW m \in Q PROVE Agree(K, log'[m], Len(K)) /\ term'[m] >= kt
    <3>1. /\ Len(K) \in Nat /\ Len(log[m]) \in Nat /\ Len(log'[m]) \in Nat
          /\ term[m] \in Term /\ term'[m] \in Term /\ kt \in Term
          /\ Len(L[term'[m]]) \in Nat
      BY TypeInvType, NextTypes, LenProperties, HistoryLength DEF ChosenOK
    <3>2. term[m] <= term'[m] /\ term[m] >= kt
      BY <2>1 DEF Kept
    <3>3. term'[m] >= kt
      BY <3>1, <3>2, ConstantTypes
    <3>4. Agree(K, L[term'[m]], Len(K)) /\ Agree(K, log[m], Len(K))
      BY <2>1, <3>1, <3>3 DEF ChosenOK
    <3>5. Agree(log[m], L[term'[m]], Len(K))
      BY <3>1, <3>4, AgreeSym, AgreeTrans
    <3>6. Agree(log'[m], L[term'[m]], Len(K))
      BY <3>1, <3>5 DEF Kept
    <3>7. QED BY <3>1, <3>3, <3>4, <3>6, AgreeSym, AgreeTrans
  <2>3. QED BY <2>1, <2>2 DEF ChosenOK, Agree
<1>2. CASE ~(Len(K) > 0)
  BY <1>2 DEF ChosenOK, Agree
<1>3. QED BY <1>1, <1>2

LEMMA CommitKept ==
    ASSUME TypeInv, TypeInv', NEW L, History(L), Kept(L), NEW K \in Seq(Entry),
           NEW n \in Node, CommitOK(L, K, n), commit'[n] = commit[n]
    PROVE  CommitOK(L, K, n)'
<1>1. /\ commit[n] \in Nat /\ term[n] \in Term /\ term'[n] \in Term /\ term[n] <= term'[n]
      /\ Len(K) \in Nat /\ Len(log[n]) \in Nat /\ Len(log'[n]) \in Nat
      /\ Len(L[term'[n]]) \in Nat
  BY TypeInvType, NextTypes, ConstantTypes, LenProperties, HistoryLength DEF Kept
<1>2. Agree(K, log[n], commit[n]) /\ Agree(K, L[term'[n]], commit[n])
  BY <1>1, ConstantTypes DEF CommitOK
<1>3. Agree(log[n], L[term'[n]], commit[n])
  BY <1>1, <1>2, AgreeSym, AgreeTrans
<1>4. Agree(log'[n], L[term'[n]], commit[n])
  BY <1>1, <1>3 DEF Kept
<1>5. Agree(K, log'[n], commit[n])
  BY <1>1, <1>2, <1>4, AgreeSym, AgreeTrans
<1>6. ASSUME NEW t \in Term, t >= term'[n] PROVE Agree(K, L[t], commit[n])
  BY <1>1, <1>6, ConstantTypes DEF CommitOK
<1>7. QED BY <1>5, <1>6 DEF CommitOK, Agree

(* A step in which L, K, kt and W stay: what it must show of what it changes. *)
LEMMA CalmStep ==
    ASSUME TypeInv, TypeInv', NEW L, NEW K, NEW kt, NEW W, SafeWith(L, K, kt, W), Kept(L),
           UNCHANGED winner, reqs \subseteq reqs', polls <= polls',
           \A n \in Node : term'[n] <= polls',
           \A n \in Node : \/ log'[n] = log[n]
                           \/ /\ Rooted(L, log'[n])
                              /\ \A i \in 1 .. Len(log'[n]) : log'[n][i].term <= term'[n],
           \A q \in reqs' : q \in reqs \/ (q.term <= polls' /\ RequestOK(L, K, W, q)'),
           \A n \in Node : \A k \in tasks'[n] : k \in tasks[n] \/ TaskOK(L, W, n, k)',
           \A n \in Node : \/ LeaderOK(L, K, kt, W, n)'
                           \/ /\ drv'[n] = drv[n] /\ next'[n] = next[n] /\ match'[n] = match[n]
                              /\ log'[n] = log[n] /\ commit[n] <= commit'[n],
           \A n \in Node : commit'[n] = commit[n] \/ CommitOK(L, K, n)',
           \A e \in answered' : e \in answered \/ ToldOK(K, e)
    PROVE  SafeWith(L, K, kt, W)'
<1>1. /\ History(L) /\ Settled(L, W) /\ K \in Seq(Entry) /\ W \in Term
      /\ Elections(W) /\ LogsRooted(L) /\ ChosenOK(L, K, kt, W)
  BY DEF SafeWith, Elections
<1>2. /\ W \in Nat /\ polls \in Nat /\ polls' \in Nat
      /\ \A n \in Node : term[n] \in Nat /\ term'[n] \in Nat /\ term[n] <= term'[n]
      /\ \A q \in reqs : q.term \in Nat
  <2>1. /\ polls \in Term /\ polls' \in Term /\ term \in [Node -> Term]
        /\ term' \in [Node -> Term] /\ \A q \in reqs : q.term \in Term
    BY TypeInvType, NextTypes DEF Req
  <2>2. \A n \in Node : term[n] <= term'[n]
    BY DEF Kept
  <2>3. QED BY <1>1, <2>1, <2>2, ConstantTypes
<1>3. Elections(W)'
  <2>1. \A q \in reqs' : q.term <= polls'
    BY <1>1, <1>2 DEF Elections
  <2>2. QED BY <1>1, <1>2, <2>1 DEF Elections
<1>4. LogsRooted(L)'
  <2> SUFFICES ASSUME NEW n \in Node
               PROVE  /\ Rooted(L, log'[n])
                      /\ \A i \in 1 .. Len(log'[n]) : log'[n][i].term <= term'[n]
    BY DEF LogsRooted, Rooted, Agree
  <2>1. CASE log'[n] = log[n]
    <3>1. \A i \in 1 .. Len(log[n]) : log[n][i].term \in Nat
      BY TypeInvType, EntryType
    <3>2. QED BY <1>1, <1>2, <2>1, <3>1 DEF LogsRooted
  <2>2. QED BY <2>1
<1>5. ChosenOK(L, K, kt, W)'
  BY <1>1, ChosenKept
<1>6. \A q \in reqs' : RequestOK(L, K, W, q)'
  <2>1. ASSUME NEW q \in reqs PROVE RequestOK(L, K, W, q)'
    <3>1. RequestOK(L, K, W, q)
      BY DEF SafeWith
    <3>2. QED BY <3>1 DEF RequestOK
  <2>2. QED BY <2>1
<1>7. ASSUME NEW n \in Node, NEW k \in tasks'[n] PROVE TaskOK(L, W, n, k)'
  <2>1. CASE k \in tasks[n]
    <3>1. TaskOK(L, W, n, k) /\ TaskShape(n, k)
      BY <2>1 DEF SafeWith, TypeInv
    <3> SUFFICES ASSUME k.call # NoCall
                 PROVE  /\ k.resp.term <= polls'
                        /\ k.call.term >= W => Stored(L, W, n, k.resp)'
      BY DEF TaskOK, Stored, Agree
    <3>2. k.resp \in Resp /\ k.resp.term \in Nat /\ k.resp.term <= polls
      BY <3>1, ConstantTypes DEF TaskShape, Resp, TaskOK
    <3>3. QED BY <1>1, <1>2, <3>1, <3>2, StoredKept DEF TaskOK
  <2>2. QED BY <1>7, <2>1
<1>8. ASSUME NEW n \in Node PROVE LeaderOK(L, K, kt, W, n)'
  <2>1. CASE /\ drv'[n] = drv[n] /\ next'[n] = next[n] /\ match'[n] = match[n]
             /\ log'[n] = log[n] /\ commit[n] <= commit'[n]
    <3>1. PICK d \in Driver : d = drv[n] /\ d = drv'[n] /\ DriverShape(d)
      BY <2>1, DriverParts
    <3>2. LeaderOK(L, K, kt, W, n)
      BY DEF SafeWith
    <3>3. ASSUME d.pc # "off"
          PROVE  /\ Current(L, K, kt, W, n)' /\ Matches(L, W, n)'
                 /\ RoundOK(L, W, n, d)' /\ AwaitOK(L, W, n, d)' /\ DecidedOK(n, d)'
      <4>1. /\ Current(L, K, kt, W, n) /\ Matches(L, W, n)
            /\ RoundOK(L, W, n, d) /\ AwaitOK(L, W, n, d) /\ DecidedOK(n, d)
        BY <3>1, <3>2, <3>3 DEF LeaderOK
      <4>2. QED BY <1>1, <2>1, <3>1, <4>1, LeaderKept
    <3>4. QED BY <3>1, <3>3, LeaderNext
  <2>2. QED BY <2>1
<1>9. ASSUME NEW n \in Node PROVE CommitOK(L, K, n)'
  <2>1. CASE commit'[n] = commit[n]
    <3>1. CommitOK(L, K, n)
      BY DEF SafeWith
    <3>2. QED BY <1>1, <2>1, <3>1, CommitKept
  <2>2. QED BY <2>1
<1>10. \A e \in answered' : ToldOK(K, e)
  BY DEF SafeWith
<1>11. QED BY <1>1, <1>3, <1>4, <1>5, <1>6, <1>7, <1>8, <1>9, <1>10 DEF SafeWith, ToldOK

-----------------------------------------------------------------------------
(* A leader waits for the task of its own commit. *)

LEMMA OwnKept ==
    ASSUME TypeInv, OwnTasks,
           \A m \in Node : \/ drv'[m].pc = drv[m].pc
                           \/ \A k \in tasks'[m] : k.call # NoCall
                           \/ drv[m].pc # "apply",
           \A m \in Node : \A k \in tasks'[m] : k.call = NoCall => k \in tasks[m]
    PROVE  OwnTasks'
BY DEF OwnTasks

LEMMA OwnReply ==
    ASSUME TypeInv, NEW q, NEW r, Reply(q, r)
    PROVE  \A m \in Node : drv'[m].pc = drv[m].pc
<1>1. drv \in [Node -> Driver]
  BY TypeInvType
<1>2. CASE drv' = drv
  BY <1>2
<1>3. CASE drv' = [drv EXCEPT ![q.leader].resp = r]
  BY <1>1, <1>3 DEF Driver
<1>4. QED BY <1>2, <1>3 DEF Reply

LEMMA OwnStep == TypeInv /\ OwnTasks /\ [Next]_vars => OwnTasks'
<1> SUFFICES ASSUME TypeInv, OwnTasks, [Next]_vars PROVE OwnTasks'
  OBVIOUS
<1>0. drv \in [Node -> Driver] /\ tasks \in [Node -> SUBSET Task]
  BY TypeInvType
<1>1. CASE LoseElection
  <2>1. PICK Q \in SUBSET Node : Vote(Q, Q) /\ drv' = Without(drv, Q, Off)
    BY <1>1 DEF LoseElection
  <2>2. tasks' = tasks /\ \A m \in Q : drv[m].pc \in {"off", "idle", "wait"}
    BY <2>1 DEF Vote
  <2>3. \A m \in Node : m \in Q \/ drv'[m] = drv[m]
    BY <2>1 DEF Without
  <2>4. QED BY <2>2, <2>3, OwnKept
<1>2. ASSUME NEW n \in Node, TakeLead(n) PROVE OwnTasks'
  <2>1. PICK Q \in SUBSET Node, D \in SUBSET Node :
           /\ n \in D /\ Vote(Q, D) /\ tasks[n] = {}
           /\ drv' = [Without(drv, D, Off) EXCEPT ![n] = [Off EXCEPT !.pc = "idle"]]
    <3>1. PICK Q \in SUBSET Node : TakeLead(n)!(Q)
      BY <1>2 DEF TakeLead
    <3> DEFINE D == IF Handover THEN Node ELSE Q
    <3>2. D \in SUBSET Node /\ n \in D
      BY <3>1
    <3>3. QED BY <3>1, <3>2
  <2>2. tasks' = tasks /\ \A m \in D : drv[m].pc \in {"off", "idle", "wait"}
    BY <2>1 DEF Vote
  <2>3. \A m \in Node : m \in D \/ drv'[m] = drv[m]
    BY <2>1 DEF Without
  <2>4. QED BY <2>2, <2>3, OwnKept
<1>3. ASSUME NEW n \in Node, LeaderAppend(n) \/ Heartbeat(n) PROVE OwnTasks'
  <2>1. /\ drv[n].pc = "idle" /\ UNCHANGED tasks
        /\ \A m \in Node \ {n} : drv'[m] = drv[m]
    BY <1>0, <1>3 DEF LeaderAppend, Heartbeat, Leads
  <2>2. QED BY <2>1, OwnKept
<1>4. ASSUME NEW n \in Node, LeaderStep(n) PROVE OwnTasks'
  <2>1. CASE LeaderCommit(n)
    <3> DEFINE todo == Unapplied(log[n], lastApplied[n], drv[n].target)
               k == [todo |-> todo, call |-> NoCall, resp |-> NoCall]
    <3>1. /\ drv[n].pc = "commit"
          /\ \/ /\ UNCHANGED tasks /\ drv' = [drv EXCEPT ![n].pc = "end"]
             \/ /\ tasks' = [tasks EXCEPT ![n] = @ \cup {k}]
                /\ drv' = [drv EXCEPT ![n].pc = "apply"]
      BY <2>1 DEF LeaderCommit
    <3> HIDE DEF k
    <3>2. \A j \in tasks[n] : j.call # NoCall
      BY <3>1 DEF OwnTasks
    <3>3. CASE UNCHANGED tasks /\ drv' = [drv EXCEPT ![n].pc = "end"]
      BY <1>0, <3>1, <3>3, OwnKept
    <3>4. CASE tasks' = [tasks EXCEPT ![n] = @ \cup {k}] /\ drv' = [drv EXCEPT ![n].pc = "apply"]
      <4>1. drv'[n].pc = "apply" /\ \A m \in Node \ {n} : drv'[m] = drv[m] /\ tasks'[m] = tasks[m]
        BY <1>0, <3>4 DEF Driver
      <4>2. \A j \in tasks'[n] : j.call = NoCall => j = k
        BY <1>0, <3>2, <3>4
      <4>3. QED BY <4>1, <4>2 DEF OwnTasks
    <3>5. QED BY <3>1, <3>3, <3>4
  <2>2. CASE ~LeaderCommit(n)
    <3>1. /\ drv[n].pc # "apply" /\ UNCHANGED tasks
          /\ \A m \in Node \ {n} : drv'[m] = drv[m]
      BY <1>0, <1>4, <2>2 DEF LeaderStep, Send, CallFails, AdoptTerm, FollowerAccepts,
         FollowerRefuses, ChooseCommit, EndRound, Waits, Answers, NextFollower
    <3>2. QED BY <3>1, OwnKept
  <2>3. QED BY <2>1, <2>2
<1>5. ASSUME NEW n \in Node, NEW q \in reqs,
             RefuseStale(n, q) \/ RefuseMismatch(n, q) \/ AppendEntries(n, q)
      PROVE  OwnTasks'
  <2>1. \A m \in Node : drv'[m].pc = drv[m].pc
    <3>1. drv' = drv \/ \E r : Reply(q, r)
      BY <1>5 DEF RefuseStale, RefuseMismatch, AppendEntries
    <3>2. QED BY <3>1, OwnReply
  <2>2. q # NoCall
    BY TypeInvType, NoCallAssumption
  <2>3. \A m \in Node : \A k \in tasks'[m] : k \in tasks[m] \/ k.call = q
    <3>1. UNCHANGED tasks \/ \E k : k.call = q /\ tasks' = [tasks EXCEPT ![n] = @ \cup {k}]
      BY <1>5 DEF RefuseStale, RefuseMismatch, AppendEntries
    <3>2. QED BY <1>0, <3>1
  <2>4. QED BY <2>1, <2>2, <2>3, OwnKept
<1>6. ASSUME NEW n \in Node, NEW k \in tasks[n], ApplyEntry(n, k) \/ ApplyFails(n, k)
      PROVE  OwnTasks'
  <2> DEFINE j0 == [k EXCEPT !.todo = Tail(k.todo)]
  <2>1. /\ k \in Task /\ j0.call = k.call
        /\ \A m \in Node \ {n} : tasks'[m] = tasks[m]
        /\ \A j \in tasks'[n] : j = j0 \/ (j \in tasks[n] /\ j # k)
    <3>1. k \in Task
      BY <1>0
    <3>2. j0.call = k.call
      BY <3>1 DEF Task
    <3>3. \/ tasks' = [tasks EXCEPT ![n] = (@ \ {k}) \cup
                          (IF Tail(k.todo) = <<>> THEN {} ELSE {j0})]
          \/ tasks' = [tasks EXCEPT ![n] = @ \ {k}]
      BY <1>6 DEF ApplyEntry, ApplyFails
    <3> HIDE DEF j0
    <3>4. QED BY <1>0, <3>1, <3>2, <3>3
  <2>2. CASE k.call # NoCall
    <3>1. drv' = drv \/ \E r : Reply(k.call, r)
      BY <1>6, <2>2 DEF ApplyEntry, ApplyFails, Finish
    <3>2. \A m \in Node : drv'[m].pc = drv[m].pc
      BY <3>1, OwnReply
    <3> HIDE DEF j0
    <3>3. QED BY <2>1, <2>2, <3>2, OwnKept
  <2>3. CASE k.call = NoCall
    <3>1. drv[n].pc = "apply" /\ \A j \in tasks[n] : j.call = NoCall => j = k
      BY <2>3 DEF OwnTasks
    <3>2. \A m \in Node \ {n} : drv'[m] = drv[m]
      BY <1>0, <1>6, <2>3 DEF ApplyEntry, ApplyFails, Finish
    <3>3. CASE drv' = drv
      <4>1. \A j \in tasks'[n] : j.call = NoCall => j = j0
        BY <2>1, <3>1
      <4> HIDE DEF j0
      <4>2. QED BY <2>1, <3>1, <3>3, <4>1 DEF OwnTasks
    <3>4. CASE drv' # drv
      <4>1. tasks' = [tasks EXCEPT ![n] = (@ \ {k}) \cup {}]
            \/ tasks' = [tasks EXCEPT ![n] = @ \ {k}]
        BY <1>6, <3>4 DEF ApplyEntry, ApplyFails
      <4>2. \A j \in tasks'[n] : j.call # NoCall
        BY <1>0, <3>1, <4>1
      <4> HIDE DEF j0
      <4>3. QED BY <2>1, <3>2, <4>2 DEF OwnTasks
    <3>5. QED BY <3>3, <3>4
  <2>4. QED BY <2>2, <2>3
<1>7. CASE UNCHANGED vars
  BY <1>7 DEF vars, leaderVars, OwnTasks
<1>8. QED BY <1>1, <1>2, <1>3, <1>4, <1>5, <1>6, <1>7 DEF Next, ApplyStep

-----------------------------------------------------------------------------
(* The steps of a leader that change what it is doing, and its requests. *)

LEMMA LeaderFacts ==
    ASSUME NEW L, NEW K, NEW kt, NEW W, SafeWith(L, K, kt, W), NEW n \in Node, drv[n].pc # "off"
    PROVE  /\ Current(L, K, kt, W, n) /\ Matches(L, W, n)
           /\ RoundOK(L, W, n, drv[n]) /\ AwaitOK(L, W, n, drv[n]) /\ DecidedOK(n, drv[n])
           /\ W > 0 /\ n = winner[W] /\ term[n] >= W /\ log[n] = L[W]
BY DEF SafeWith, LeaderOK, Current

LEMMA GhostTypes ==
    ASSUME TypeInv, NEW L, NEW K, NEW kt, NEW W, SafeWith(L, K, kt, W)
    PROVE  /\ History(L) /\ Settled(L, W) /\ K \in Seq(Entry) /\ Len(K) \in Nat
           /\ W \in Term /\ W \in Nat /\ W <= polls /\ kt \in Term /\ kt \in Nat /\ kt <= W
           /\ L[W] \in Seq(Entry) /\ Len(L[W]) \in Nat
BY ConstantTypes, LenProperties, HistoryLength DEF SafeWith, Elections, ChosenOK

LEMMA SameLogsKept ==
    ASSUME TypeInv', UNCHANGED log, \A m \in Node : term[m] <= term'[m]
    PROVE  \A L : Kept(L)
BY DEF Kept

LEMMA LeaderDrives ==
    ASSUME TypeInv, TypeInv', NEW L, NEW K, NEW kt, NEW W, SafeWith(L, K, kt, W),
           NEW n \in Node, drv[n].pc # "off", NEW d \in Driver, drv' = [drv EXCEPT ![n] = d],
           UNCHANGED <<log, commit, polls, winner>>,
           \A m \in Node : term[m] <= term'[m] /\ term'[m] <= polls,
           \A m \in Node \ {n} : next'[m] = next[m] /\ match'[m] = match[m],
           reqs \subseteq reqs',
           \A q \in reqs' : q \in reqs \/ (q.term <= polls /\ RequestOK(L, K, W, q)'),
           \A m \in Node : tasks'[m] \subseteq tasks[m],
           Matches(L, W, n)', RoundOK(L, W, n, d), AwaitOK(L, W, n, d)', DecidedOK(n, d)',
           \A e \in answered' : e \in answered \/ ToldOK(K, e)
    PROVE  SafeWith(L, K, kt, W)'
<1>1. /\ drv' \in [Node -> Driver] /\ drv \in [Node -> Driver] /\ d = drv'[n]
      /\ \A m \in Node \ {n} : drv'[m] = drv[m]
  BY TypeInvType, NextTypes
<1>2. DriverShape(d)
  <2>1. DriverShape(drv[n])'
    BY DEF TypeInv
  <2>2. QED BY <1>1, <2>1 DEF DriverShape
<1>3. Kept(L)
  BY SameLogsKept
<1>4. polls \in Nat /\ \A m \in Node : commit[m] \in Nat
  BY TypeInvType, ConstantTypes
<1>5. LeaderOK(L, K, kt, W, n)'
  <2>1. Current(L, K, kt, W, n)
    BY LeaderFacts
  <2>2. Current(L, K, kt, W, n)' /\ RoundOK(L, W, n, d)'
    BY <1>2, <1>3, <1>4, <2>1, GhostTypes, LeaderKept
  <2>3. QED BY <1>1, <2>2, LeaderNext
<1>6. \A m \in Node : \/ LeaderOK(L, K, kt, W, m)'
                      \/ /\ drv'[m] = drv[m] /\ next'[m] = next[m] /\ match'[m] = match[m]
                         /\ log'[m] = log[m] /\ commit[m] <= commit'[m]
  BY <1>1, <1>4, <1>5
<1>7. polls <= polls' /\ \A m \in Node : term'[m] <= polls'
  BY <1>4
<1>8. \A q \in reqs' : q \in reqs \/ (q.term <= polls' /\ RequestOK(L, K, W, q)')
  OBVIOUS
<1>9. \A m \in Node : \A k \in tasks'[m] : k \in tasks[m] \/ TaskOK(L, W, m, k)'
  OBVIOUS
<1>10. QED BY <1>3, <1>6, <1>7, <1>8, <1>9, CalmStep

(* An idle leader that may append or replicate is in the term it won.       *)
LEMMA LeadsFacts ==
    ASSUME TypeInv, NEW L, NEW K, NEW kt, NEW W, SafeWith(L, K, kt, W), NEW n \in Node, Leads(n)
    PROVE  drv[n].pc # "off" /\ term[n] = W
<1>1. drv[n].pc # "off" /\ winner[term[n]] = n
  BY DEF Leads
<1>2. term[n] >= W /\ term[n] \in Term /\ W \in Term
  BY <1>1, LeaderFacts, GhostTypes, TypeInvType
<1>3. n # NoNode
  BY NodeAssumption
<1>4. ~(term[n] > W)
  BY <1>1, <1>2, <1>3 DEF SafeWith, Elections
<1>5. QED BY <1>1, <1>2, <1>4, ConstantTypes

LEMMA HeartbeatSafe ==
    ASSUME ~Eager, TypeInv, TypeInv', NEW L, NEW K, NEW kt, NEW W, SafeWith(L, K, kt, W),
           NEW n \in Node, Heartbeat(n)
    PROVE  SafeWith(L, K, kt, W)'
<1> DEFINE d0 == [drv[n] EXCEPT !.pc = "send", !.todo = Node \ {n}, !.commit = commit[n],
                                !.mine = NoCall, !.round = 2, !.beats = drv[n].beats + 1]
<1>1. /\ drv' = [drv EXCEPT ![n] = d0] /\ Leads(n) /\ LastTerm(log[n]) = term[n]
      /\ UNCHANGED <<log, term, commit, tasks, next, match, reqs, polls, winner, answered>>
  BY DEF Heartbeat, logVars
<1>2. PICK d \in Driver : d = d0
  BY <1>1, NextTypes, TypeInvType
<1>3. drv[n].pc # "off" /\ term[n] = W /\ drv[n] \in Driver
  BY <1>1, LeadsFacts, DriverParts
<1>4. d.pc = "send" /\ d.commit = commit[n] /\ d.mine = NoCall /\ d.round = 2
  BY <1>2, <1>3 DEF Driver
<1> HIDE DEF d0
<1>5. W > 0 /\ log[n] = L[W]
  BY <1>3, LeaderFacts
<1>6. Len(L[W]) >= 1 /\ L[W][Len(L[W])].term = W
  BY <1>1, <1>3, <1>5, GhostTypes DEF LastTerm, TermAt
<1>7. commit[n] \in Nat
  BY TypeInvType, ConstantTypes
<1>8. RoundOK(L, W, n, d) /\ AwaitOK(L, W, n, d)' /\ DecidedOK(n, d)'
  BY <1>4, <1>6, <1>7 DEF RoundOK, AwaitOK, DecidedOK
<1>9. Matches(L, W, n)'
  BY <1>1, <1>3, LeaderFacts DEF Matches, Agree
<1>10. \A m \in Node : term[m] <= term'[m] /\ term'[m] <= polls
  BY <1>1, TypeInvType, ConstantTypes DEF SafeWith, Elections
<1>11. QED BY <1>1, <1>2, <1>3, <1>8, <1>9, <1>10, LeaderDrives

(* What a request holds when the leader's next index is not past its log.   *)
Covers(q, l) ==
    /\ q.prevIndex > 0 => q.prevTerm = l[q.prevIndex].term
    /\ LastOf(q) = Len(l)
    /\ \A i \in 1 .. Len(q.entries) : q.entries[i] = l[q.prevIndex + i]

LEMMA RequestFacts ==
    ASSUME TypeInv, NEW n \in Node, NEW f \in Node, next[n][f] <= Len(log[n]) + 1,
           NEW q, q = Request(n, f)
    PROVE  /\ q \in Req /\ q.term = term[n] /\ q.leader = n /\ q.to = f
           /\ q.commit = drv[n].commit /\ q.prevIndex \in Nat /\ Covers(q, log[n])
<1> DEFINE prev == next[n][f] - 1
           l == log[n]
           es == SubSeq(l, prev + 1, Len(l))
<1>1. q \in Req
  BY RequestType
<1>2. /\ q.term = term[n] /\ q.leader = n /\ q.to = f /\ q.commit = drv[n].commit
      /\ q.prevIndex = prev /\ q.entries = es
      /\ q.prevTerm = IF Knows(l, prev) THEN TermAt(l, prev) ELSE 0
  BY DEF Request
<1>3. l \in Seq(Entry) /\ Len(l) \in Nat /\ next[n][f] \in 1 .. MaxLog + 1
  BY TypeInvType, LenProperties
<1>4. prev \in 0 .. Len(l)
  BY <1>3, ConstantTypes
<1>5. Len(es) = (IF prev + 1 <= Len(l) THEN Len(l) - prev ELSE 0)
      /\ \A i \in 1 .. Len(l) - prev : es[i] = l[prev + i]
  <2>1. \A i \in prev + 1 .. Len(l) : l[i] \in Entry
    BY <1>3, <1>4, ElementOfSeq
  <2>2. prev + 1 \in Int /\ Len(l) \in Int
    BY <1>3, <1>4
  <2>3. /\ Len(es) = IF prev + 1 <= Len(l) THEN Len(l) - (prev + 1) + 1 ELSE 0
        /\ \A i \in 1 .. Len(l) - (prev + 1) + 1 : es[i] = l[prev + 1 + i - 1]
    BY <2>1, <2>2, SubSeqProperties
  <2> HIDE DEF prev, es, l
  <2>4. QED BY <2>3, <1>3, <1>4
<1> HIDE DEF prev, es
<1>6. Len(es) \in Nat /\ prev + Len(es) = Len(l)
  BY <1>3, <1>4, <1>5
<1>7. \A i \in 1 .. Len(es) : es[i] = l[prev + i]
  BY <1>3, <1>4, <1>5
<1>8. prev > 0 => q.prevTerm = l[prev].term
  BY <1>2, <1>3, <1>4 DEF Knows, TermAt
<1>9. Covers(q, l)
  BY <1>2, <1>6, <1>7, <1>8 DEF Covers, LastOf
<1>10. QED BY <1>1, <1>2, <1>4, <1>9

LEMMA SendSafe ==
    ASSUME TypeInv, TypeInv', NEW L, NEW K, NEW kt, NEW W, SafeWith(L, K, kt, W),
           NEW n \in Node, NEW f \in Node \ {n}, Send(n, f)
    PROVE  SafeWith(L, K, kt, W)'
<1>0. PICK q \in Req : q = Request(n, f)
  BY RequestType
<1> DEFINE d0 == [drv[n] EXCEPT !.pc = "wait", !.peer = f, !.call = q, !.resp = NoCall]
<1>1. /\ drv[n].pc = "send" /\ reqs' = reqs \cup {q} /\ drv' = [drv EXCEPT ![n] = d0]
      /\ UNCHANGED <<log, term, commit, tasks, next, match, polls, winner, answered>>
  BY <1>0 DEF Send, logVars
<1>2. PICK d \in Driver : d = d0
  BY <1>1, NextTypes, TypeInvType
<1>3. drv[n] \in Driver /\ drv[n].commit \in Nat
  BY DriverParts, ConstantTypes
<1>4. /\ d.pc = "wait" /\ d.peer = f /\ d.call = q /\ d.resp = NoCall
      /\ d.commit = drv[n].commit /\ d.mine = drv[n].mine /\ d.round = drv[n].round
  BY <1>2, <1>3 DEF Driver
<1> HIDE DEF d0
<1>5. /\ Matches(L, W, n) /\ RoundOK(L, W, n, drv[n])
      /\ W > 0 /\ n = winner[W] /\ term[n] >= W /\ log[n] = L[W]
  BY <1>1, LeaderFacts
<1>6. /\ Len(L[W]) >= 1 /\ L[W][Len(L[W])].term = W /\ drv[n].commit <= commit[n]
  BY <1>1, <1>5 DEF RoundOK
<1>7. /\ q \in Req /\ q.term = term[n] /\ q.leader = n /\ q.to = f
      /\ q.commit = drv[n].commit /\ q.prevIndex \in Nat
      /\ q.prevIndex > 0 => q.prevTerm = L[W][q.prevIndex].term
      /\ LastOf(q) = Len(L[W])
      /\ \A i \in 1 .. Len(q.entries) : q.entries[i] = L[W][q.prevIndex + i]
  <2>1. next[n][f] <= Len(log[n]) + 1
    BY <1>5 DEF Matches
  <2>2. /\ q.term = term[n] /\ q.leader = n /\ q.to = f
        /\ q.commit = drv[n].commit /\ q.prevIndex \in Nat /\ Covers(q, log[n])
    BY <2>1, <1>0, RequestFacts
  <2>3. QED BY <2>2, <1>5 DEF Covers
<1>8. /\ term[n] \in Term /\ commit[n] \in Nat /\ Len(L[W]) \in Nat /\ Len(K) \in Nat
      /\ term[n] <= polls /\ L[term[n]] = L[W]
  <2>1. term[n] \in Term /\ commit[n] \in Nat
    BY TypeInvType, ConstantTypes
  <2>2. Settled(L, W) /\ Len(L[W]) \in Nat /\ Len(K) \in Nat
    BY GhostTypes
  <2>3. term[n] <= polls
    BY DEF SafeWith, Elections
  <2>4. QED BY <1>5, <2>1, <2>2, <2>3 DEF Settled
<1>9. CommitOK(L, K, n)
  BY DEF SafeWith
<1>10. q.term <= polls /\ RequestOK(L, K, W, q)'
  <2>1. \A t \in Term : t >= term[n] => Agree(K, L[t], drv[n].commit)
    BY <1>3, <1>6, <1>8, <1>9, HistoryLength, GhostTypes, AgreeLess DEF CommitOK
  <2>2. drv[n].commit <= Len(L[W])
    <3>1. commit[n] <= Len(L[W])
      BY <1>5, <1>9 DEF CommitOK, Agree
    <3>2. QED BY <3>1, <1>3, <1>6, <1>8
  <2>3. q.to # q.leader /\ winner' = winner
    BY <1>1, <1>7
  <2>4. L[q.term] = L[W] /\ LastOf(q) >= 1 /\ L[W][LastOf(q)].term = W
    BY <1>6, <1>7, <1>8
  <2>5. QED BY <1>5, <1>7, <1>8, <2>1, <2>2, <2>3, <2>4 DEF RequestOK
<1>11. RoundOK(L, W, n, d)
  BY <1>1, <1>4, <1>5 DEF RoundOK
<1>12. AwaitOK(L, W, n, d)' /\ DecidedOK(n, d)'
  BY <1>1, <1>4, <1>5, <1>7 DEF AwaitOK, DecidedOK
<1>13. Matches(L, W, n)'
  BY <1>1, <1>5 DEF Matches, Agree
<1>14. \A m \in Node : term[m] <= term'[m] /\ term'[m] <= polls
  BY <1>1, TypeInvType, ConstantTypes DEF SafeWith, Elections
<1>15. drv[n].pc # "off" /\ reqs \subseteq reqs'
       /\ \A x \in reqs' : x \in reqs \/ (x.term <= polls /\ RequestOK(L, K, W, x)')
  BY <1>1, <1>10
<1>16. QED BY <1>1, <1>2, <1>11, <1>12, <1>13, <1>14, <1>15, LeaderDrives

(* The round goes on: nothing of it changes but the follower it deals with.  *)
LEMMA RoundGoesOn ==
    ASSUME TypeInv, TypeInv', NEW L, NEW K, NEW kt, NEW W, SafeWith(L, K, kt, W),
           NEW n \in Node, drv[n].pc \notin {"off", "idle"}, NEW d \in Driver,
           drv' = [drv EXCEPT ![n] = d], d.pc # "wait",
           d.commit = drv[n].commit, d.mine = drv[n].mine, d.round = drv[n].round,
           UNCHANGED <<log, commit, polls, winner, reqs, answered>>,
           \A m \in Node : tasks'[m] \subseteq tasks[m],
           \A m \in Node : term[m] <= term'[m] /\ term'[m] <= polls,
           \A m \in Node \ {n} : next'[m] = next[m] /\ match'[m] = match[m],
           Matches(L, W, n)', DecidedOK(n, d)'
    PROVE  SafeWith(L, K, kt, W)'
<1>1. RoundOK(L, W, n, drv[n])
  BY LeaderFacts
<1>2. RoundOK(L, W, n, d) /\ AwaitOK(L, W, n, d)'
  BY <1>1 DEF RoundOK, AwaitOK
<1>3. QED BY <1>2, LeaderDrives

LEMMA TermsWithinPolls ==
    ASSUME TypeInv, NEW L, NEW K, NEW kt, NEW W, SafeWith(L, K, kt, W)
    PROVE  \A m \in Node : term[m] \in Nat /\ term[m] <= term[m] /\ term[m] <= polls
BY TypeInvType, ConstantTypes DEF SafeWith, Elections

LEMMA AnswerSafe ==
    ASSUME TypeInv, TypeInv', NEW L, NEW K, NEW kt, NEW W, SafeWith(L, K, kt, W), NEW n \in Node,
           CallFails(n) \/ AdoptTerm(n) \/ FollowerAccepts(n) \/ FollowerRefuses(n)
    PROVE  SafeWith(L, K, kt, W)'
<1>0. /\ drv[n] \in Driver /\ drv[n].pc = "wait"
      /\ UNCHANGED <<log, commit, polls, winner, tasks, reqs, answered>>
  BY DriverParts DEF CallFails, AdoptTerm, FollowerAccepts, FollowerRefuses, Waits, Answers, logVars
<1>1. Matches(L, W, n) /\ AwaitOK(L, W, n, drv[n])
  BY <1>0, LeaderFacts
<1>2. ASSUME NextFollower(n)
      PROVE  \E d \in Driver : /\ drv' = [drv EXCEPT ![n] = d] /\ d.pc = "send"
                               /\ d.commit = drv[n].commit /\ d.mine = drv[n].mine
                               /\ d.round = drv[n].round
  <2> DEFINE d == [drv[n] EXCEPT !.pc = "send", !.todo = drv[n].todo \ {drv[n].peer},
                                 !.peer = NoNode, !.call = NoCall, !.resp = NoCall]
  <2>1. d \in Driver /\ d.pc = "send" /\ d.commit = drv[n].commit /\ d.mine = drv[n].mine
        /\ d.round = drv[n].round
    BY <1>0 DEF Driver, Label
  <2>2. drv' = [drv EXCEPT ![n] = d]
    BY <1>2 DEF NextFollower
  <2> HIDE DEF d
  <2>3. QED BY <2>1, <2>2
<1>3. \A m \in Node : term[m] \in Nat /\ term[m] <= term[m] /\ term[m] <= polls
  BY TermsWithinPolls
<1>4. CASE CallFails(n)
  <2>1. NextFollower(n) /\ UNCHANGED <<term, next, match>>
    BY <1>4 DEF CallFails, logVars
  <2>2. PICK d \in Driver : /\ drv' = [drv EXCEPT ![n] = d] /\ d.pc = "send"
                            /\ d.commit = drv[n].commit /\ d.mine = drv[n].mine
                            /\ d.round = drv[n].round
    BY <1>2, <2>1
  <2>3. Matches(L, W, n)' /\ DecidedOK(n, d)'
    BY <1>0, <1>1, <2>1, <2>2 DEF Matches, Agree, DecidedOK
  <2>4. QED BY <1>0, <1>3, <2>1, <2>2, <2>3, RoundGoesOn
<1>5. CASE AdoptTerm(n)
  <2>1. /\ NextFollower(n) /\ UNCHANGED <<next, match>> /\ Answers(n)
        /\ drv[n].resp.term > term[n] /\ term' = [term EXCEPT ![n] = drv[n].resp.term]
    BY <1>5 DEF AdoptTerm
  <2>2. PICK d \in Driver : /\ drv' = [drv EXCEPT ![n] = d] /\ d.pc = "send"
                            /\ d.commit = drv[n].commit /\ d.mine = drv[n].mine
                            /\ d.round = drv[n].round
    BY <1>2, <2>1
  <2>3. drv[n].resp.term <= polls /\ drv[n].resp.term \in Nat
    BY <1>0, <1>1, <2>1, AnswerType, ConstantTypes DEF AwaitOK, Answers
  <2>4. \A m \in Node : term[m] <= term'[m] /\ term'[m] <= polls
    BY <1>3, <2>1, <2>3, TypeInvType
  <2>5. Matches(L, W, n)' /\ DecidedOK(n, d)'
    <3>1. \A f \in Node : term[f] >= W => term'[f] >= W
      BY SMTT(20), <1>3, <2>1, <2>3, TypeInvType, GhostTypes
    <3>2. QED BY <1>0, <1>1, <2>1, <2>2, <3>1 DEF Matches, Agree, DecidedOK
  <2>6. QED BY <1>0, <2>1, <2>2, <2>4, <2>5, RoundGoesOn
<1>6. CASE FollowerAccepts(n)
  <2>1. PICK f \in Node, r \in Resp : f = drv[n].peer /\ r = drv[n].resp /\ r.match \in Nat
    BY <1>6, AnswerType, ConstantTypes DEF FollowerAccepts
  <2>2. /\ NextFollower(n) /\ UNCHANGED term /\ r # NoCall /\ r.success
        /\ match' = [match EXCEPT ![n][f] = r.match]
        /\ next' = [next EXCEPT ![n][f] = r.match + 1]
    BY <1>6, <2>1 DEF FollowerAccepts, Answers, logVars
  <2>3. PICK d \in Driver : /\ drv' = [drv EXCEPT ![n] = d] /\ d.pc = "send"
                            /\ d.commit = drv[n].commit /\ d.mine = drv[n].mine
                            /\ d.round = drv[n].round
    BY <1>2, <2>2
  <2>4. Agree(L[W], log[f], r.match) /\ term[f] >= W
    BY <1>0, <1>1, <2>1, <2>2 DEF AwaitOK, Stored
  <2>5. r.match + 1 <= Len(L[W]) + 1
    BY <2>1, <2>4, GhostTypes DEF Agree
  <2>6. \A g \in Node : /\ match'[n][g] = IF g = f THEN r.match ELSE match[n][g]
                        /\ next'[n][g] = IF g = f THEN r.match + 1 ELSE next[n][g]
    BY <2>2, TypeInvType
  <2>7. Matches(L, W, n)'
    BY <1>0, <1>1, <2>2, <2>4, <2>5, <2>6 DEF Matches, Agree
  <2>8. DecidedOK(n, d)'
    BY <2>3 DEF DecidedOK
  <2>9. \A m \in Node \ {n} : next'[m] = next[m] /\ match'[m] = match[m]
    BY <2>2, TypeInvType
  <2>10. QED BY <1>0, <1>3, <2>2, <2>3, <2>7, <2>8, <2>9, RoundGoesOn
<1>7. CASE FollowerRefuses(n)
  <2>1. PICK f \in Node : f = drv[n].peer
    BY <1>7, AnswerType DEF FollowerRefuses
  <2>2. /\ UNCHANGED <<term, match>>
        /\ \/ next' = [next EXCEPT ![n][f] = @ - 1]
           \/ UNCHANGED next
    BY <1>7, <2>1 DEF FollowerRefuses, logVars, BackOff
  <2>3. \E d \in Driver : /\ drv' = [drv EXCEPT ![n] = d] /\ d.pc = "send"
                          /\ d.commit = drv[n].commit /\ d.mine = drv[n].mine
                          /\ d.round = drv[n].round
    <3>1. CASE NextFollower(n)
      BY <1>2, <3>1
    <3>2. CASE ~NextFollower(n)
      <4> DEFINE d == [drv[n] EXCEPT !.pc = "send", !.call = NoCall, !.resp = NoCall]
      <4>1. d \in Driver /\ d.pc = "send" /\ d.commit = drv[n].commit /\ d.mine = drv[n].mine
            /\ d.round = drv[n].round
        BY <1>0 DEF Driver, Label
      <4>2. drv' = [drv EXCEPT ![n] = d]
        BY <1>7, <3>2 DEF FollowerRefuses
      <4> HIDE DEF d
      <4>3. QED BY <4>1, <4>2
    <3>3. QED BY <3>1, <3>2
  <2>4. PICK d \in Driver : /\ drv' = [drv EXCEPT ![n] = d] /\ d.pc = "send"
                            /\ d.commit = drv[n].commit /\ d.mine = drv[n].mine
                            /\ d.round = drv[n].round
    BY <2>3
  <2>5. \A g \in Node : next'[n][g] <= next[n][g] /\ next'[n][g] \in Nat /\ next[n][g] \in Nat
    <3>1. \A g \in Node : next[n][g] \in 1 .. MaxLog + 1 /\ next'[n][g] \in 1 .. MaxLog + 1
      BY TypeInvType, NextTypes
    <3>2. \A g \in Node : next[n][g] \in Nat /\ next'[n][g] \in Nat
      BY <3>1, ConstantTypes
    <3>3. next \in [Node -> [Node -> 1 .. MaxLog + 1]]
      BY TypeInvType
    <3>4. CASE next' = [next EXCEPT ![n][f] = @ - 1]
      <4>1. \A g \in Node : next'[n][g] = IF g = f THEN next[n][g] - 1 ELSE next[n][g]
        BY <3>3, <3>4
      <4>2. QED BY <3>2, <4>1
    <3>5. CASE UNCHANGED next
      BY <3>2, <3>5
    <3>6. QED BY <2>2, <3>4, <3>5
  <2>6. Matches(L, W, n)'
    <3>1. \A g \in Node : next'[n][g] <= Len(L[W]) + 1
      BY <1>1, <2>5, GhostTypes DEF Matches
    <3>2. QED BY <1>0, <1>1, <2>2, <3>1 DEF Matches, Agree
  <2>7. DecidedOK(n, d)'
    BY <2>4 DEF DecidedOK
  <2>8. \A m \in Node \ {n} : next'[m] = next[m] /\ match'[m] = match[m]
    BY <2>2, TypeInvType
  <2>9. QED BY <1>0, <1>3, <2>2, <2>4, <2>6, <2>7, <2>8, RoundGoesOn
<1>8. QED BY <1>4, <1>5, <1>6, <1>7

LEMMA ChooseSafe ==
    ASSUME TypeInv, TypeInv', NEW L, NEW K, NEW kt, NEW W, SafeWith(L, K, kt, W), NEW n \in Node,
           ChooseCommit(n)
    PROVE  SafeWith(L, K, kt, W)'
<1> DEFINE d0 == IF Replicated(n) = {} THEN [drv[n] EXCEPT !.pc = "end"]
                 ELSE [drv[n] EXCEPT !.pc = "commit", !.target = Max(Replicated(n))]
<1>1. /\ drv' = [drv EXCEPT ![n] = d0] /\ drv[n].pc = "send" /\ drv[n] \in Driver
      /\ UNCHANGED <<log, term, commit, polls, winner, tasks, reqs, answered, next, match>>
  BY DriverParts DEF ChooseCommit, logVars
<1>2. PICK d \in Driver : d = d0
  BY <1>1, NextTypes, TypeInvType
<1>3. /\ d.pc # "wait" /\ d.commit = drv[n].commit /\ d.mine = drv[n].mine
      /\ d.round = drv[n].round
      /\ d.pc = "commit" => Replicated(n) # {} /\ d.target = Max(Replicated(n))
  <2>1. CASE Replicated(n) = {}
    BY <1>1, <1>2, <2>1 DEF Driver
  <2>2. CASE Replicated(n) # {}
    BY <1>1, <1>2, <2>2 DEF Driver
  <2>3. QED BY <2>1, <2>2
<1>4. DecidedOK(n, d)'
  <2>1. ASSUME d.pc = "commit" PROVE d.target \in Replicated(n)
    BY <1>3, <2>1, ReplicatedFacts
  <2>2. QED BY <1>1, <2>1 DEF DecidedOK, Replicated
<1>5. Matches(L, W, n)'
  BY <1>1, LeaderFacts DEF Matches, Agree
<1> HIDE DEF d0
<1>6. QED BY <1>1, <1>2, <1>3, <1>4, <1>5, TermsWithinPolls, RoundGoesOn

LEMMA EndRoundSafe ==
    ASSUME TypeInv, TypeInv', NEW L, NEW K, NEW kt, NEW W, SafeWith(L, K, kt, W), NEW n \in Node,
           EndRound(n)
    PROVE  SafeWith(L, K, kt, W)'
<1> DEFINE again == [drv[n] EXCEPT !.pc = "send", !.todo = Node \ {n}, !.commit = commit[n],
                                   !.round = 2]
           over == [Off EXCEPT !.pc = "idle", !.beats = drv[n].beats]
<1>0. /\ drv[n] \in Driver /\ DriverShape(drv[n]) /\ drv[n].pc = "end"
      /\ commit[n] \in Nat /\ drv[n].mine \in Entry \cup {NoCall}
      /\ UNCHANGED <<log, term, commit, polls, winner, tasks, reqs, next, match>>
  BY DriverParts, TypeInvType, ConstantTypes DEF EndRound, logVars
<1>1. drv[n].mine # NoCall => drv[n].mine \in Entry /\ drv[n].mine.index \in Nat \ {0}
  BY <1>0, ConstantTypes DEF Entry
<1>2. drv[n].round = 1 => drv[n].mine # NoCall
  BY <1>0, NoCallAssumption DEF DriverShape
<1>3. \/ drv' = [drv EXCEPT ![n] = over]
      \/ /\ drv' = [drv EXCEPT ![n] = again] /\ drv[n].round = 1
         /\ commit[n] >= drv[n].mine.index
  BY DEF EndRound, EntryCommitted
<1>4. \A e \in answered' : \/ e \in answered
                           \/ /\ e = drv[n].mine /\ e # NoCall
                              /\ commit[n] >= e.index \/ drv[n].round = 2
  <2>1. \/ answered' = answered
        \/ /\ answered' = answered \cup {drv[n].mine}
           /\ \/ drv[n].round = 1 /\ commit[n] >= drv[n].mine.index
              \/ drv[n].round = 2 /\ drv[n].mine # NoCall
    BY DEF EndRound, EntryCommitted
  <2>2. QED BY <2>1, <1>2
<1>5. /\ Matches(L, W, n) /\ RoundOK(L, W, n, drv[n]) /\ log[n] = L[W]
  BY <1>0, LeaderFacts
<1>6. \A e \in answered' : e \in answered \/ ToldOK(K, e)
  <2> SUFFICES ASSUME drv[n].mine # NoCall,
                      commit[n] >= drv[n].mine.index \/ drv[n].round = 2
               PROVE  ToldOK(K, drv[n].mine)
    BY <1>4
  <2>1. drv[n].mine.index <= commit[n] /\ L[W][drv[n].mine.index] = drv[n].mine
    BY <1>0, <1>1, <1>5 DEF RoundOK
  <2>2. Agree(K, L[W], commit[n])
    BY <1>5 DEF SafeWith, CommitOK
  <2>3. QED BY <1>0, <1>1, <2>1, <2>2, GhostTypes DEF ToldOK, Agree
<1>7. Matches(L, W, n)'
  BY <1>0, <1>5 DEF Matches, Agree
<1>8. \E d \in Driver : /\ drv' = [drv EXCEPT ![n] = d] /\ d.pc \in {"idle", "send"}
                        /\ RoundOK(L, W, n, d)
  <2>1. CASE drv' = [drv EXCEPT ![n] = over]
    <3>1. over \in Driver /\ over.pc = "idle"
      BY <1>0, IdleType, DriverParts DEF Off
    <3> HIDE DEF over
    <3>2. RoundOK(L, W, n, over)
      BY <3>1 DEF RoundOK
    <3>3. QED BY <2>1, <3>1, <3>2
  <2>2. CASE /\ drv' = [drv EXCEPT ![n] = again] /\ drv[n].round = 1
             /\ commit[n] >= drv[n].mine.index
    <3>1. again \in Driver
      BY <1>0, <2>2, NextTypes, TypeInvType
    <3>2. /\ again.pc = "send" /\ again.commit = commit[n] /\ again.round = 2
          /\ again.mine = drv[n].mine
      BY <1>0 DEF Driver
    <3> HIDE DEF again
    <3>3. RoundOK(L, W, n, again)
      BY <1>0, <1>1, <1>2, <1>5, <2>2, <3>2 DEF RoundOK
    <3>4. QED BY <2>2, <3>1, <3>2, <3>3
  <2>3. QED BY <1>3, <2>1, <2>2
<1> HIDE DEF again, over
<1>9. PICK d \in Driver : /\ drv' = [drv EXCEPT ![n] = d] /\ d.pc \in {"idle", "send"}
                          /\ RoundOK(L, W, n, d)
  BY <1>8
<1>10. AwaitOK(L, W, n, d)' /\ DecidedOK(n, d)'
  BY <1>9 DEF AwaitOK, DecidedOK
<1>11. QED BY <1>0, <1>6, <1>7, <1>9, <1>10, TermsWithinPolls, LeaderDrives

-----------------------------------------------------------------------------
(* The handlers of the followers, and their replies. *)

LEMMA ReplyLeader ==
    ASSUME TypeInv, TypeInv', NEW L, NEW K, NEW kt, NEW W, SafeWith(L, K, kt, W), Kept(L),
           UNCHANGED <<winner, next, match>>, reqs \subseteq reqs', polls <= polls',
           NEW q \in reqs, NEW r \in Resp, Reply(q, r) \/ UNCHANGED drv,
           r.term <= polls', q.term >= W => Stored(L, W, q.to, r)',
           NEW n \in Node, log'[n] = log[n] \/ drv[n].pc = "off", commit[n] <= commit'[n]
    PROVE  LeaderOK(L, K, kt, W, n)'
<1>1. /\ drv \in [Node -> Driver] /\ drv' \in [Node -> Driver] /\ r # NoCall
  BY TypeInvType, NextTypes, NoCallAssumption
<1>2. PICK d \in Driver : d = drv[n]
  BY <1>1
<1>3. PICK d1 \in Driver : d1 = drv'[n]
  BY <1>1
<1>4. DriverShape(d) /\ DriverShape(d1)
  <2>1. DriverShape(drv[n])'
    BY DEF TypeInv
  <2>2. QED BY <1>2, <1>3, <2>1, DriverParts DEF DriverShape
<1>5. \/ d1 = d
      \/ d.pc = "wait" /\ d.call = q /\ q.leader = n /\ d1 = [d EXCEPT !.resp = r]
  <2>1. CASE drv' = drv
    BY <1>2, <1>3, <2>1
  <2>2. CASE /\ drv[q.leader].pc = "wait" /\ drv[q.leader].call = q
             /\ drv' = [drv EXCEPT ![q.leader].resp = r]
    <3>1. CASE q.leader = n
      BY <1>1, <1>2, <1>3, <2>2, <3>1
    <3>2. CASE q.leader # n
      BY <1>1, <1>2, <1>3, <2>2, <3>2
    <3>3. QED BY <3>1, <3>2
  <2>3. QED BY <2>1, <2>2 DEF Reply
<1>6. /\ d1.pc = d.pc
      /\ \/ d1 = d
         \/ /\ d.pc = "wait" /\ d.call = q /\ q.leader = n
            /\ d1.call = d.call /\ d1.peer = d.peer /\ d1.resp = r
  BY <1>5 DEF Driver
<1>7. CASE d1.pc = "off"
  BY <1>3, <1>7, LeaderNext
<1>8. CASE d1.pc # "off"
  <2>1. /\ Current(L, K, kt, W, n) /\ Matches(L, W, n)
        /\ RoundOK(L, W, n, d) /\ AwaitOK(L, W, n, d) /\ DecidedOK(n, d)
    BY <1>2, <1>6, <1>8, LeaderFacts
  <2>2. log'[n] = log[n]
    BY <1>2, <1>6, <1>8
  <2>3. /\ Current(L, K, kt, W, n)' /\ Matches(L, W, n)'
        /\ RoundOK(L, W, n, d)' /\ AwaitOK(L, W, n, d)' /\ DecidedOK(n, d)'
    BY <1>4, <2>1, <2>2, GhostTypes, LeaderKept
  <2>4. CASE d1 = d
    BY <1>3, <2>3, <2>4, LeaderNext
  <2>5. CASE d1 # d
    <3>1. /\ d.pc = "wait" /\ d.call = q /\ q.leader = n /\ d1.pc = "wait"
          /\ d1.call = d.call /\ d1.peer = d.peer /\ d1.resp = r
          /\ d1 = [d EXCEPT !.resp = r]
      BY <1>5, <1>6, <2>5
    <3>2. d1.commit = d.commit /\ d1.mine = d.mine /\ d1.round = d.round
      BY <3>1 DEF Driver
    <3>3. RoundOK(L, W, n, d1)'
      BY <2>3, <3>1, <3>2 DEF RoundOK
    <3>4. DecidedOK(n, d1)'
      BY <3>1 DEF DecidedOK
    <3>5. /\ d.call \in reqs /\ d.call.to = d.peer /\ d.call.leader = n /\ d.call.term >= W
      BY <2>1, <3>1 DEF AwaitOK
    <3>6. q.to = d1.peer /\ Stored(L, W, q.to, r)'
      BY <3>1, <3>5
    <3>7. AwaitOK(L, W, n, d1)'
      <4>1. Stored(L, W, d1.peer, d1.resp)'
        BY <3>1, <3>6 DEF Stored, Agree
      <4>2. QED BY <3>1, <3>5, <4>1 DEF AwaitOK
    <3>8. QED BY <1>3, <2>3, <3>3, <3>4, <3>7, LeaderNext
  <2>6. QED BY <2>4, <2>5
<1>9. QED BY <1>7, <1>8

LEMMA RequestKnown ==
    ASSUME TypeInv, NEW L, NEW K, NEW kt, NEW W, SafeWith(L, K, kt, W), NEW q \in reqs
    PROVE  /\ q \in Req /\ q.term \in Term /\ q.term \in Nat /\ q.term <= polls
           /\ RequestOK(L, K, W, q)
<1>1. q \in Req /\ q.term <= polls /\ RequestOK(L, K, W, q)
  BY TypeInvType DEF SafeWith, Elections
<1>2. QED BY <1>1, ConstantTypes DEF Req

LEMMA RefuseSafe ==
    ASSUME TypeInv, TypeInv', NEW L, NEW K, NEW kt, NEW W, SafeWith(L, K, kt, W), NEW n \in Node,
           NEW q \in reqs, RefuseStale(n, q) \/ RefuseMismatch(n, q)
    PROVE  SafeWith(L, K, kt, W)'
<1>1. /\ UNCHANGED <<log, commit, tasks, next, match, reqs, polls, winner, answered>>
      /\ \/ UNCHANGED term
         \/ q.term >= term[n] /\ term' = [term EXCEPT ![n] = q.term]
  BY DEF RefuseStale, RefuseMismatch, logVars
<1>2. \E r \in Resp : Reply(q, r) /\ ~r.success /\ r.term <= polls
  <2>1. CASE RefuseStale(n, q)
    <3> DEFINE r == [term |-> term[n], success |-> FALSE, match |-> Len(log[n])]
    <3>1. r \in Resp /\ ~r.success /\ r.term <= polls
      BY TypeInvType, TermsWithinPolls DEF Resp
    <3>2. Reply(q, r)
      BY <2>1 DEF RefuseStale
    <3>3. QED BY <3>1, <3>2
  <2>2. CASE RefuseMismatch(n, q)
    <3> DEFINE r == [term |-> q.term, success |-> FALSE, match |-> 0]
    <3>1. r \in Resp /\ ~r.success /\ r.term <= polls
      BY RequestKnown, ConstantTypes DEF Resp
    <3>2. Reply(q, r)
      BY <2>2 DEF RefuseMismatch
    <3>3. QED BY <3>1, <3>2
  <2>3. QED BY <2>1, <2>2
<1>3. PICK r \in Resp : Reply(q, r) /\ ~r.success /\ r.term <= polls
  BY <1>2
<1>4. \A m \in Node : term[m] <= term'[m] /\ term'[m] <= polls
  BY <1>1, TermsWithinPolls, RequestKnown, TypeInvType
<1>5. Kept(L)
  BY <1>1, <1>4, SameLogsKept
<1>6. polls <= polls' /\ \A m \in Node : commit[m] <= commit'[m]
  BY <1>1, TypeInvType, ConstantTypes
<1>7. Stored(L, W, q.to, r)'
  BY <1>3 DEF Stored
<1>8. ASSUME NEW m \in Node PROVE LeaderOK(L, K, kt, W, m)'
  BY <1>1, <1>3, <1>5, <1>6, <1>7, ReplyLeader
<1>9. QED BY <1>1, <1>4, <1>5, <1>6, <1>8, CalmStep

(* A leader gets no request of its own term or later: it sent those itself. *)
LEMMA LeaderRefuses ==
    ASSUME TypeInv, NEW L, NEW K, NEW kt, NEW W, SafeWith(L, K, kt, W), NEW n \in Node,
           NEW q \in reqs, q.to = n, q.term >= term[n]
    PROVE  drv[n].pc = "off"
<1> SUFFICES ASSUME drv[n].pc # "off" PROVE FALSE
  OBVIOUS
<1>1. n = winner[W] /\ term[n] >= W /\ term[n] \in Nat /\ W \in Nat
  BY LeaderFacts, TermsWithinPolls, GhostTypes
<1>2. q.term \in Nat /\ RequestOK(L, K, W, q)
  BY RequestKnown
<1>3. q.term >= W
  BY <1>1, <1>2
<1>4. QED BY <1>1, <1>2, <1>3 DEF RequestOK

(* The log of a follower after a request that fits.                         *)
LEMMA FollowerLog ==
    ASSUME TypeInv, NEW L, NEW K, NEW kt, NEW W, SafeWith(L, K, kt, W), NEW n \in Node,
           NEW q \in reqs, q.term >= term[n], PrevMatches(n, q),
           NEW l, l = Splice(log[n], q.prevIndex, q.entries)
    PROVE  /\ l \in Seq(Entry) /\ Rooted(L, l) /\ Agree(l, L[q.term], LastOf(q))
           /\ \A c \in Nat : Agree(log[n], L[q.term], c) => Agree(l, L[q.term], c)
           /\ \A i \in 1 .. Len(l) : l[i].term <= q.term
           /\ q.term >= W => Agree(L[W], l, Len(l))
           /\ LastOf(q) \in Nat
<1> DEFINE u == L[q.term]
           s == log[n]
<1>1. /\ q.term \in Term /\ q.term \in Nat /\ RequestOK(L, K, W, q)
      /\ q.prevIndex \in 0 .. Len(s) /\ q.entries \in Seq(Entry)
      /\ q.prevIndex \in Nat /\ Len(q.entries) \in Nat
  BY RequestKnown, AppendFacts, LenProperties
<1>2. /\ History(L) /\ s \in Seq(Entry) /\ Rooted(L, s) /\ term[n] \in Nat
      /\ \A i \in 1 .. Len(s) : s[i].term <= term[n]
      /\ W \in Term /\ W \in Nat /\ Settled(L, W)
  BY TypeInvType, TermsWithinPolls, GhostTypes DEF SafeWith, LogsRooted
<1>3. u \in Seq(Entry) /\ Rooted(L, u) /\ Len(u) \in Nat
      /\ \A i \in 1 .. Len(u) : u[i].term <= q.term
  BY <1>1, <1>2, HistoryLength DEF History
<1>4. q.prevIndex > 0 => s[q.prevIndex].term = u[q.prevIndex].term
  BY <1>1 DEF PrevMatches, TermAt, RequestOK
<1>5. /\ q.prevIndex + Len(q.entries) <= Len(u)
      /\ \A i \in 1 .. Len(q.entries) : q.entries[i] = u[q.prevIndex + i]
  BY <1>1 DEF RequestOK, LastOf
<1> HIDE DEF u
<1>6. /\ l \in Seq(Entry) /\ Agree(l, u, LastOf(q)) /\ (l = s \/ Len(l) = LastOf(q))
      /\ \A c \in Nat : Agree(s, u, c) => Agree(l, u, c)
      /\ Rooted(L, l)
  <2>1. Fits(q, u, s)
    BY <1>1, <1>4, <1>5 DEF Fits, LastOf
  <2>2. l = Splice(s, q.prevIndex, q.entries)
    OBVIOUS
  <2> HIDE DEF s
  <2>3. QED BY <1>2, <1>3, <2>1, <2>2, SpliceAgrees
<1>7. LastOf(q) \in Nat /\ Len(l) \in Nat
  BY <1>1, <1>6, LenProperties DEF LastOf
<1>8. ASSUME NEW i \in 1 .. Len(l) PROVE l[i].term <= q.term
  <2>1. CASE l = s
    <3>1. s[i].term \in Nat /\ s[i].term <= term[n]
      BY <2>1, <1>2, <1>8, EntryType
    <3>2. QED BY <2>1, <3>1, <1>1, <1>2
  <2>2. CASE Len(l) = LastOf(q)
    <3>1. l[i] = u[i] /\ i \in 1 .. Len(u)
      BY <2>2, <1>3, <1>6, <1>7 DEF Agree
    <3>2. QED BY <3>1, <1>3
  <2>3. QED BY <2>1, <2>2, <1>6
<1>9. ASSUME q.term >= W PROVE Agree(L[W], l, Len(l))
  <2>1. u = L[W]
    BY <1>1, <1>2, <1>9 DEF Settled, u
  <2>2. LastOf(q) >= 1 /\ L[W][LastOf(q)].term = W
    BY <1>1, <1>9 DEF RequestOK
  <2>3. LastOf(q) \in 1 .. Len(l) /\ l[LastOf(q)].term = W
    BY <2>1, <2>2, <1>6, <1>7 DEF Agree
  <2>4. Agree(l, L[W], Len(l))
    BY <2>3, <1>2, <1>6, LatestLog
  <2>5. QED BY <2>4, AgreeSym
<1>10. QED BY <1>6, <1>7, <1>8, <1>9 DEF u

LEMMA AppendEntriesSafe ==
    ASSUME TypeInv, TypeInv', NEW L, NEW K, NEW kt, NEW W, SafeWith(L, K, kt, W), NEW n \in Node,
           NEW q \in reqs, AppendEntries(n, q)
    PROVE  SafeWith(L, K, kt, W)'
<1>1. PICK l \in Seq(Entry) : l = Splice(log[n], q.prevIndex, q.entries)
  BY AppendFacts DEF AppendEntries
<1> DEFINE c == IF q.commit > commit[n] THEN Smaller(q.commit, Len(l)) ELSE commit[n]
           r0 == [term |-> q.term, success |-> TRUE, match |-> Len(l)]
<1>2. /\ q.to = n /\ q.term >= term[n] /\ PrevMatches(n, q)
      /\ term' = [term EXCEPT ![n] = q.term] /\ log' = [log EXCEPT ![n] = l]
      /\ commit' = [commit EXCEPT ![n] = c]
      /\ UNCHANGED <<next, match, reqs, polls, winner, answered>>
      /\ Reply(q, r0) \/ UNCHANGED drv
      /\ \A m \in Node : \A k \in tasks'[m] :
            k \in tasks[m] \/ (m = n /\ k.call = q /\ k.resp = r0)
  <2>1. \/ UNCHANGED tasks
        \/ \E k : k.call = q /\ k.resp = r0 /\ tasks' = [tasks EXCEPT ![n] = @ \cup {k}]
    BY <1>1 DEF AppendEntries
  <2>2. \A m \in Node : \A k \in tasks'[m] :
            k \in tasks[m] \/ (m = n /\ k.call = q /\ k.resp = r0)
    <3>1. tasks \in [Node -> SUBSET Task]
      BY TypeInvType
    <3>2. CASE \E k : k.call = q /\ k.resp = r0 /\ tasks' = [tasks EXCEPT ![n] = @ \cup {k}]
      <4>1. PICK k : k.call = q /\ k.resp = r0 /\ tasks' = [tasks EXCEPT ![n] = @ \cup {k}]
        BY <3>2
      <4>2. \A m \in Node : tasks'[m] = IF m = n THEN tasks[n] \cup {k} ELSE tasks[m]
        BY <3>1, <4>1
      <4>3. QED BY <4>1, <4>2
    <3>3. QED BY <2>1, <3>2
  <2>3. QED BY <2>2, <1>1 DEF AppendEntries
<1>3. /\ Rooted(L, l) /\ Agree(l, L[q.term], LastOf(q))
      /\ \A i \in Nat : Agree(log[n], L[q.term], i) => Agree(l, L[q.term], i)
      /\ \A i \in 1 .. Len(l) : l[i].term <= q.term
      /\ q.term >= W => Agree(L[W], l, Len(l))
      /\ LastOf(q) \in Nat
  BY <1>1, <1>2, FollowerLog
<1>4. /\ q \in Req /\ q.term \in Term /\ q.term \in Nat /\ q.term <= polls /\ q.commit \in Nat
      /\ Len(l) \in Nat /\ Len(l) \in Index /\ RequestOK(L, K, W, q)
  <2>1. q.commit \in Nat /\ Len(l) \in Index
    BY <1>1, <1>2, AppendFacts, ConstantTypes
  <2>2. QED BY <2>1, RequestKnown, ConstantTypes
<1>5. PICK r \in Resp : r = r0
  BY <1>4 DEF Resp
<1>6. r.term = q.term /\ r.success /\ r.match = Len(l)
  BY <1>5
<1>7. /\ log'[n] = l /\ term'[n] = q.term /\ commit'[n] = c
      /\ \A m \in Node \ {n} : /\ log'[m] = log[m] /\ term'[m] = term[m]
                               /\ commit'[m] = commit[m]
  BY <1>2, TypeInvType
<1>8. \A m \in Node : term[m] \in Nat /\ term[m] <= polls /\ commit[m] \in Nat
  BY TermsWithinPolls, TypeInvType, ConstantTypes
<1>9. \A m \in Node : term[m] <= term'[m] /\ term'[m] <= polls'
  BY <1>2, <1>4, <1>7, <1>8
<1>10. Kept(L)
  BY <1>3, <1>7, <1>9 DEF Kept
<1>11. c \in Nat /\ commit[n] <= c /\ (c = commit[n] \/ (c <= q.commit /\ q.commit > commit[n]))
  <2>1. q.commit <= LastOf(q) /\ LastOf(q) <= Len(l)
    BY <1>3, <1>4 DEF RequestOK, Agree
  <2>2. q.commit > commit[n] => c = q.commit
    BY <2>1, <1>3, <1>4 DEF Smaller
  <2>3. QED BY <2>2, <1>4, <1>8
<1> HIDE DEF c, r0
<1>12. polls <= polls' /\ \A m \in Node : commit[m] <= commit'[m]
  <2>1. polls \in Nat /\ polls' = polls
    BY <1>2, TypeInvType, ConstantTypes
  <2>2. QED BY <2>1, <1>7, <1>8, <1>11
<1>13. q.term >= W => Stored(L, W, n, r)'
  <2>1. q.term >= W => Agree(L[W], log'[n], r.match) /\ term'[n] >= W
    BY <1>3, <1>6, <1>7
  <2>2. QED BY <2>1 DEF Stored, Agree
<1>14. \A m \in Node : \/ log'[m] = log[m]
                       \/ /\ Rooted(L, log'[m])
                          /\ \A i \in 1 .. Len(log'[m]) : log'[m][i].term <= term'[m]
  BY <1>3, <1>7
<1>15. ASSUME NEW m \in Node, NEW k \in tasks'[m] PROVE k \in tasks[m] \/ TaskOK(L, W, m, k)'
  <2> SUFFICES ASSUME m = n, k.call = q, k.resp = r PROVE TaskOK(L, W, m, k)'
    BY <1>2, <1>5
  <2>1. q.term >= W => Stored(L, W, m, k.resp)'
    BY <1>13 DEF Stored, Agree
  <2>2. k.resp.term <= polls'
    BY <1>2, <1>4, <1>6
  <2>3. QED BY <2>1, <2>2 DEF TaskOK
<1>16. ASSUME NEW m \in Node PROVE LeaderOK(L, K, kt, W, m)'
  <2>1. drv[n].pc = "off"
    BY <1>2, LeaderRefuses
  <2>2. log'[m] = log[m] \/ drv[m].pc = "off"
    BY <2>1, <1>7
  <2>3. q.term >= W => Stored(L, W, q.to, r)'
    BY <1>2, <1>13 DEF Stored, Agree
  <2>4. r.term <= polls' /\ reqs \subseteq reqs' /\ (Reply(q, r) \/ UNCHANGED drv)
    BY <1>2, <1>4, <1>5, <1>6
  <2>5. QED BY <1>2, <1>10, <1>12, <2>2, <2>3, <2>4, ReplyLeader
<1>17. ASSUME NEW m \in Node PROVE commit'[m] = commit[m] \/ CommitOK(L, K, m)'
  <2>1. CASE m # n \/ c = commit[n]
    BY <2>1, <1>7
  <2>2. CASE m = n /\ c # commit[n]
    <3>1. c <= q.commit /\ q.commit <= LastOf(q) /\ c <= LastOf(q)
      BY <2>2, <1>3, <1>4, <1>11 DEF RequestOK
    <3>2. \A t \in Term : t >= q.term => Agree(K, L[t], c)
      BY <3>1, <1>4, <1>11, GhostTypes, HistoryLength, AgreeLess DEF RequestOK
    <3>3. Agree(K, L[q.term], c)
      BY <3>2, <1>4
    <3>4. Agree(K, l, c)
      BY <3>1, <3>3, <1>3, <1>4, <1>11, GhostTypes, HistoryLength, AgreeSym, AgreeTrans
    <3>5. QED BY <2>2, <3>2, <3>4, <1>7 DEF CommitOK, Agree
  <2>3. QED BY <2>1, <2>2
<1>18. QED BY <1>2, <1>9, <1>10, <1>12, <1>14, <1>15, <1>16, <1>17, CalmStep

-----------------------------------------------------------------------------
(* Entries are applied, and the task they belong to ends. *)

LEMMA TaskKept ==
    ASSUME NEW L, NEW W, NEW n \in Node, NEW k, NEW j, TaskOK(L, W, n, k), j.call = k.call,
           j.resp = k.resp, UNCHANGED <<log, term, polls>>
    PROVE  TaskOK(L, W, n, j)'
BY DEF TaskOK, Stored, Agree

LEMMA ApplySafe ==
    ASSUME TypeInv, TypeInv', OwnTasks, NEW L, NEW K, NEW kt, NEW W, SafeWith(L, K, kt, W),
           NEW n \in Node, NEW k \in tasks[n], ApplyEntry(n, k) \/ ApplyFails(n, k)
    PROVE  SafeWith(L, K, kt, W)'
<1>0. /\ UNCHANGED <<log, term, commit, next, match, reqs, polls, winner, answered>>
      /\ k \in Task /\ TaskShape(n, k) /\ TaskOK(L, W, n, k) /\ drv[n] \in Driver
  BY RestOfTask, DriverParts DEF ApplyEntry, ApplyFails, logVars, SafeWith
<1>1. PICK j0 \in Task : /\ j0.call = k.call /\ j0.resp = k.resp
                         /\ \A m \in Node : \A j \in tasks'[m] :
                               j \in tasks[m] \/ (m = n /\ j = j0)
  <2>1. CASE Tail(k.todo) = <<>> \/ ~ApplyEntry(n, k)
    <3>1. tasks' = [tasks EXCEPT ![n] = (@ \ {k}) \cup {}] \/ tasks' = [tasks EXCEPT ![n] = @ \ {k}]
      BY <2>1 DEF ApplyEntry, ApplyFails
    <3>2. QED BY <3>1, <1>0, TypeInvType
  <2>2. CASE Tail(k.todo) # <<>> /\ ApplyEntry(n, k)
    <3> DEFINE j0 == [k EXCEPT !.todo = Tail(k.todo)]
    <3>1. j0 \in Task
      BY <2>2, RestOfTask
    <3>2. j0.call = k.call /\ j0.resp = k.resp
      BY <1>0 DEF Task
    <3>3. tasks' = [tasks EXCEPT ![n] = (@ \ {k}) \cup {j0}]
      BY <2>2 DEF ApplyEntry
    <3> HIDE DEF j0
    <3>4. QED BY <3>1, <3>2, <3>3, TypeInvType
  <2>3. QED BY <2>1, <2>2
<1>2. \A m \in Node : \A j \in tasks'[m] : j \in tasks[m] \/ TaskOK(L, W, m, j)'
  BY <1>0, <1>1, TaskKept
<1>3. /\ \A m \in Node : term[m] <= term'[m] /\ term'[m] <= polls /\ commit[m] <= commit'[m]
      /\ polls <= polls'
  BY <1>0, TermsWithinPolls, TypeInvType, ConstantTypes
<1>4. Kept(L)
  BY <1>0, <1>3, SameLogsKept
<1>5. CASE k.call # NoCall
  <2>1. Reply(k.call, k.resp) \/ UNCHANGED drv
    BY <1>5 DEF ApplyEntry, ApplyFails, Finish
  <2>2. /\ k.call \in reqs /\ k.call.to = n /\ k.resp \in Resp /\ k.resp.term <= polls
        /\ k.call.term >= W => Stored(L, W, n, k.resp)
    BY <1>0, <1>5 DEF TaskShape, TaskOK
  <2>3. PICK q \in reqs, r \in Resp : q = k.call /\ r = k.resp
    BY <2>2
  <2>4. q.term >= W => Stored(L, W, q.to, r)'
    BY <1>0, <2>2, <2>3 DEF Stored, Agree
  <2>5. \A m \in Node : LeaderOK(L, K, kt, W, m)'
    BY <1>0, <1>3, <1>4, <2>1, <2>2, <2>3, <2>4, ReplyLeader
  <2>6. QED BY <1>0, <1>2, <1>3, <1>4, <2>5, CalmStep
<1>6. CASE k.call = NoCall
  <2>1. drv[n].pc = "apply"
    BY <1>6 DEF OwnTasks
  <2>2. Matches(L, W, n)'
    BY <1>0, <2>1, LeaderFacts DEF Matches, Agree
  <2>3. CASE UNCHANGED drv
    <3>1. \A m \in Node : drv'[m] = drv[m] /\ next'[m] = next[m] /\ match'[m] = match[m]
                          /\ log'[m] = log[m] /\ commit[m] <= commit'[m]
      BY <1>0, <1>3, <2>3
    <3>2. QED BY <1>0, <1>2, <1>3, <1>4, <3>1, CalmStep
  <2>4. CASE drv' # drv
    <3>1. tasks' = [tasks EXCEPT ![n] = (@ \ {k}) \cup {}] \/ tasks' = [tasks EXCEPT ![n] = @ \ {k}]
      BY <2>4 DEF ApplyEntry, ApplyFails
    <3>2. \A m \in Node : tasks'[m] \subseteq tasks[m]
      BY <3>1, TypeInvType
    <3>3. CASE drv' = [drv EXCEPT ![n].pc = "end"]
      <4> DEFINE d0 == [drv[n] EXCEPT !.pc = "end"]
      <4>1. drv' = [drv EXCEPT ![n] = d0]
        BY <3>3
      <4>2. PICK d \in Driver : d = d0
        BY <4>1, NextTypes, TypeInvType
      <4>3. d.pc = "end" /\ d.commit = drv[n].commit /\ d.mine = drv[n].mine
            /\ d.round = drv[n].round
        BY <4>2, <1>0 DEF Driver
      <4>4. DecidedOK(n, d)'
        BY <4>3 DEF DecidedOK
      <4> HIDE DEF d0
      <4>5. QED BY <1>0, <1>3, <2>1, <2>2, <3>2, <4>1, <4>2, <4>3, <4>4, RoundGoesOn
    <3>4. CASE drv' = [drv EXCEPT ![n] = [Off EXCEPT !.pc = "idle", !.beats = drv[n].beats]]
      <4> DEFINE d0 == [Off EXCEPT !.pc = "idle", !.beats = drv[n].beats]
      <4>1. d0 \in Driver /\ d0.pc = "idle"
        BY DriverParts, IdleType DEF Off
      <4>2. PICK d \in Driver : d = d0
        BY <4>1
      <4>3. RoundOK(L, W, n, d) /\ AwaitOK(L, W, n, d)' /\ DecidedOK(n, d)'
        BY <4>1, <4>2 DEF RoundOK, AwaitOK, DecidedOK
      <4> HIDE DEF d0
      <4>4. drv' = [drv EXCEPT ![n] = d]
        BY <3>4, <4>2 DEF d0
      <4>5. QED BY <1>0, <1>3, <2>1, <2>2, <3>2, <4>3, <4>4, LeaderDrives
    <3>5. QED BY <1>6, <2>4, <3>3, <3>4 DEF ApplyEntry, ApplyFails, Finish
  <2>5. QED BY <2>3, <2>4
<1>7. QED BY <1>5, <1>6

-----------------------------------------------------------------------------
(* leader_commit_to: what a majority holds is chosen. *)

LEMMA CommitEffects ==
    ASSUME TypeInv, TypeInv', NEW n \in Node, LeaderCommit(n), NEW i, i = drv[n].target
    PROVE  /\ drv[n].pc = "commit" /\ i \in Nat /\ drv[n] \in Driver
           /\ UNCHANGED <<log, term, next, match, reqs, polls, winner, answered>>
           /\ \A m \in Node \ {n} : commit'[m] = commit[m]
           /\ \A m \in Node : commit[m] \in Nat /\ commit[m] <= commit'[m]
           /\ IF Committable(n, i) THEN commit'[n] = i /\ i > commit[n] ELSE commit' = commit
           /\ \A m \in Node : \A k \in tasks'[m] : k \in tasks[m] \/ k.call = NoCall
<1>1. /\ commit \in [Node -> Index] /\ \A m \in Node : commit[m] \in Nat
      /\ i \in Nat /\ drv[n] \in Driver
  BY TypeInvType, DriverParts, ConstantTypes
<1>2. IF Committable(n, i) THEN commit' = [commit EXCEPT ![n] = i] ELSE commit' = commit
  BY DEF LeaderCommit
<1>3. Committable(n, i) => i > commit[n]
  BY DEF Committable
<1>4. \A m \in Node : \A k \in tasks'[m] : k \in tasks[m] \/ k.call = NoCall
  <2>1. \/ UNCHANGED tasks
        \/ \E k : k.call = NoCall /\ tasks' = [tasks EXCEPT ![n] = @ \cup {k}]
    BY DEF LeaderCommit
  <2>2. QED BY ZenonT(30), <2>1, TypeInvType
<1>5. drv[n].pc = "commit" /\ UNCHANGED <<log, term, next, match, reqs, polls, winner, answered>>
  BY DEF LeaderCommit
<1>6. QED BY <1>1, <1>2, <1>3, <1>4, <1>5

(* The round goes on with what it knows.                                    *)
LEMMA CommitLeader ==
    ASSUME TypeInv, TypeInv', NEW L, NEW K, NEW kt, NEW W, SafeWith(L, K, kt, W),
           NEW n \in Node, LeaderCommit(n)
    PROVE  /\ \E d \in Driver : /\ drv' = [drv EXCEPT ![n] = d] /\ d.pc \in {"apply", "end"}
                                /\ RoundOK(L, W, n, d)
           /\ Matches(L, W, n)
<1>1. drv[n] \in Driver /\ DriverShape(drv[n]) /\ drv[n].pc = "commit"
  BY DriverParts, CommitEffects
<1>2. \E p \in {"apply", "end"} : drv' = [drv EXCEPT ![n].pc = p]
  BY DEF LeaderCommit
<1>3. PICK p \in {"apply", "end"} : drv' = [drv EXCEPT ![n].pc = p]
  BY <1>2
<1> DEFINE d == [drv[n] EXCEPT !.pc = p]
<1>4. /\ d \in Driver /\ d.pc = p /\ d.commit = drv[n].commit /\ d.mine = drv[n].mine
      /\ d.round = drv[n].round /\ drv' = [drv EXCEPT ![n] = d]
  BY <1>1, <1>3 DEF Driver, Label
<1>5. RoundOK(L, W, n, drv[n]) /\ Matches(L, W, n)
  BY <1>1, LeaderFacts
<1> HIDE DEF d
<1>6. RoundOK(L, W, n, d)
  BY <1>1, <1>4, <1>5 DEF RoundOK
<1>7. QED BY <1>4, <1>5, <1>6

(* What a leader may commit is of its own term, and a majority holds it.    *)
LEMMA CommitMajority ==
    ASSUME TypeInv, NEW L, NEW K, NEW kt, NEW W, SafeWith(L, K, kt, W), NEW n \in Node,
           drv[n].pc = "commit", NEW i \in Nat, i = drv[n].target, Committable(n, i)
    PROVE  /\ term[n] = W /\ i >= 1 /\ i <= Len(L[W]) /\ L[W][i].term = W
           /\ \E Q \in SUBSET Node : /\ 2 * Cardinality(Q) > Cardinality(Node)
                                     /\ \A m \in Q : Agree(L[W], log[m], i) /\ term[m] >= W
<1>1. /\ log[n] = L[W] /\ term[n] >= W /\ Matches(L, W, n) /\ DecidedOK(n, drv[n])
      /\ L[W] \in Seq(Entry) /\ Len(L[W]) \in Nat /\ W \in Term /\ W \in Nat /\ History(L)
  BY LeaderFacts, GhostTypes
<1>2. /\ i <= Len(L[W]) /\ i >= 1 /\ L[W][i].term = term[n]
  BY <1>1, TypeInvType, ConstantTypes DEF Committable, Knows, TermAt
<1>3. term[n] = W
  <2>1. i \in 1 .. Len(L[W]) /\ term[n] \in Nat
    BY <1>1, <1>2, TypeInvType, ConstantTypes
  <2>2. L[W][i].term <= W
    BY <2>1, <1>1 DEF History
  <2>3. QED BY <2>1, <2>2, <1>1, <1>2
<1> DEFINE F == {f \in Node \ {n} : match[n][f] >= i}
           Q == F \cup {n}
<1>4. /\ IsFiniteSet(F) /\ Cardinality(F) \in Nat /\ Cardinality(Q) = Cardinality(F) + 1
      /\ Cardinality(Node) \in Nat
  BY NodeAssumption, FS_Subset, FS_CardinalityType, FS_AddElement
<1>5. 1 + Cardinality(F) >= Majority
  BY <1>1 DEF DecidedOK
<1>6. 2 * Cardinality(Q) > Cardinality(Node)
  BY <1>4, <1>5 DEF Majority
<1>7. ASSUME NEW m \in Q PROVE Agree(L[W], log[m], i) /\ term[m] >= W
  <2>1. CASE m = n
    BY <2>1, <1>1, <1>2, AgreeRefl
  <2>2. CASE m \in F
    <3>1. /\ match[n][m] \in Nat /\ match[n][m] >= i /\ Len(log[m]) \in Nat
      BY <2>2, TypeInvType, ConstantTypes
    <3>2. Agree(L[W], log[m], match[n][m]) /\ term[m] >= W
      BY <2>2, <3>1, <1>1, <1>2 DEF Matches
    <3>3. QED BY <3>1, <3>2, <1>1, AgreeLess
  <2>3. QED BY <2>1, <2>2
<1> HIDE DEF F
<1>8. Q \in SUBSET Node
  BY DEF F
<1>9. QED BY <1>2, <1>3, <1>1, <1>6, <1>7, <1>8

(* Nothing new is chosen: the leader only learns what was.                  *)
LEMMA CommitKnown ==
    ASSUME TypeInv, TypeInv', NEW L, NEW K, NEW kt, NEW W, SafeWith(L, K, kt, W),
           NEW n \in Node, LeaderCommit(n),
           Committable(n, drv[n].target) => drv[n].target <= Len(K)
    PROVE  SafeWith(L, K, kt, W)'
<1>0. PICK i \in Nat : i = drv[n].target
  BY CommitEffects
<1>1. /\ drv[n].pc = "commit"
      /\ UNCHANGED <<log, term, next, match, reqs, polls, winner, answered>>
      /\ \A m \in Node \ {n} : commit'[m] = commit[m]
      /\ \A m \in Node : commit[m] \in Nat /\ commit[m] <= commit'[m]
      /\ IF Committable(n, i) THEN commit'[n] = i /\ i > commit[n] ELSE commit' = commit
      /\ \A m \in Node : \A k \in tasks'[m] : k \in tasks[m] \/ k.call = NoCall
  BY <1>0, CommitEffects
<1>2. /\ History(L) /\ Settled(L, W) /\ K \in Seq(Entry) /\ Len(K) \in Nat
      /\ W \in Term /\ W \in Nat /\ kt \in Nat /\ kt <= W
      /\ Current(L, K, kt, W, n) /\ term[n] >= W /\ log[n] = L[W]
  BY <1>1, GhostTypes, LeaderFacts
<1>3. PICK d \in Driver : /\ drv' = [drv EXCEPT ![n] = d] /\ d.pc \in {"apply", "end"}
                          /\ RoundOK(L, W, n, d)
  BY CommitLeader
<1>4. /\ \A m \in Node : term[m] <= term'[m] /\ term'[m] <= polls'
      /\ polls <= polls' /\ Kept(L)
  <2>1. polls \in Nat /\ polls' = polls
    BY <1>1, TypeInvType, ConstantTypes
  <2>2. \A m \in Node : term[m] <= term'[m] /\ term'[m] <= polls'
    BY <1>1, TermsWithinPolls
  <2>3. QED BY <1>1, <2>1, <2>2, SameLogsKept
<1>5. \A m \in Node : \A k \in tasks'[m] : k \in tasks[m] \/ TaskOK(L, W, m, k)'
  BY <1>1 DEF TaskOK
<1>6. /\ d = drv'[n] /\ \A m \in Node \ {n} : drv'[m] = drv[m]
  BY <1>3, TypeInvType
<1>7. LeaderOK(L, K, kt, W, n)'
  <2>1. DriverShape(d)
    BY <1>3 DEF DriverShape, TypeInv
  <2>2. Current(L, K, kt, W, n)' /\ RoundOK(L, W, n, d)'
    BY <1>1, <1>2, <1>3, <1>4, <2>1, LeaderKept
  <2>3. Matches(L, W, n)' /\ AwaitOK(L, W, n, d)' /\ DecidedOK(n, d)'
    BY <1>1, <1>3, CommitLeader DEF Matches, Agree, AwaitOK, DecidedOK
  <2>4. QED BY <1>6, <2>2, <2>3, LeaderNext
<1>8. ASSUME NEW m \in Node PROVE commit'[m] = commit[m] \/ CommitOK(L, K, m)'
  <2> SUFFICES ASSUME m = n, Committable(n, i) PROVE CommitOK(L, K, n)'
    BY <1>1
  <2>1. term[n] = W /\ i <= Len(K)
    BY <1>0, <1>1, CommitMajority
  <2>2. \A t \in Term : t >= W => Agree(K, L[t], Len(K))
    BY <1>2, ConstantTypes DEF SafeWith, ChosenOK
  <2>3. \A t \in Term : t >= W => Agree(K, L[t], i)
    BY <1>2, <2>1, <2>2, HistoryLength, AgreeLess
  <2>4. Agree(K, log[n], i)
    BY <1>2, <2>3
  <2>5. QED BY <1>1, <2>1, <2>3, <2>4 DEF CommitOK, Agree
<1>9. QED BY <1>1, <1>4, <1>5, <1>6, <1>7, <1>8, CalmStep

(* The leader's log up to the new commit index is chosen.                   *)
LEMMA CommitGrows ==
    ASSUME TypeInv, TypeInv', NEW L, NEW K, NEW kt, NEW W, SafeWith(L, K, kt, W),
           NEW n \in Node, LeaderCommit(n), NEW i \in Nat, i = drv[n].target,
           Committable(n, i), i > Len(K), NEW C \in Seq(Entry), C = SubSeq(L[W], 1, i)
    PROVE  SafeWith(L, C, W, W)'
<1>1. /\ drv[n].pc = "commit"
      /\ UNCHANGED <<log, term, next, match, reqs, polls, winner, answered>>
      /\ \A m \in Node \ {n} : commit'[m] = commit[m]
      /\ commit'[n] = i
      /\ \A m \in Node : \A k \in tasks'[m] : k \in tasks[m] \/ k.call = NoCall
  BY CommitEffects
<1>2. /\ History(L) /\ Settled(L, W) /\ K \in Seq(Entry) /\ Len(K) \in Nat
      /\ W \in Term /\ W \in Nat /\ kt \in Nat /\ kt <= W
      /\ W > 0 /\ n = winner[W] /\ term[n] >= W /\ log[n] = L[W] /\ Matches(L, W, n)
      /\ L[W] \in Seq(Entry) /\ Len(L[W]) \in Nat
  BY <1>1, GhostTypes, LeaderFacts
<1>3. /\ term[n] = W /\ i >= 1 /\ i <= Len(L[W]) /\ L[W][i].term = W
      /\ \E Q \in SUBSET Node : /\ 2 * Cardinality(Q) > Cardinality(Node)
                                /\ \A m \in Q : Agree(L[W], log[m], i) /\ term[m] >= W
  BY <1>1, CommitMajority
<1>4. Len(C) = i /\ Agree(C, L[W], i)
  <2>1. Len(C) = i /\ \A j \in 1 .. i : C[j] = L[W][j]
    BY <1>2, <1>3, SubSeqProperties
  <2>2. QED BY <1>2, <1>3, <2>1 DEF Agree
<1>5. \A t \in Term : t >= W => L[t] = L[W]
  BY <1>2 DEF Settled
<1>6. Agree(C, K, Len(K))
  <2>1. Agree(K, L[W], Len(K))
    BY <1>2 DEF SafeWith, ChosenOK
  <2>2. QED BY <1>2, <1>4, <2>1, AgreeSym, AgreeTrans
<1>7. ChosenOK(L, C, W, W)'
  <2>1. \A t \in Term : t >= W => Agree(C, L[t], Len(C))
    BY <1>4, <1>5
  <2>2. C[Len(C)].term = W
    BY <1>3, <1>4 DEF Agree
  <2>3. PICK Q \in SUBSET Node : /\ 2 * Cardinality(Q) > Cardinality(Node)
                                 /\ \A m \in Q : Agree(L[W], log[m], i) /\ term[m] >= W
    BY <1>3
  <2>4. \A m \in Q : Agree(C, log[m], Len(C)) /\ term[m] >= W
    <3>1. \A m \in Node : Len(log[m]) \in Nat
      BY TypeInvType, ConstantTypes
    <3>2. QED BY <1>2, <1>4, <2>3, <3>1, AgreeTrans
  <2>5. \A m \in Q : Agree(C, log'[m], Len(C)) /\ term'[m] >= W
    BY <1>1, <2>4
  <2>6. \E P \in SUBSET Node : /\ 2 * Cardinality(P) > Cardinality(Node)
                              /\ \A m \in P : Agree(C, log'[m], Len(C)) /\ term'[m] >= W
    BY <2>3, <2>5
  <2>7. W \in Term /\ W <= W
    BY <1>2
  <2>8. QED BY <2>1, <2>2, <2>6, <2>7 DEF ChosenOK, Agree
<1>8. ASSUME NEW u, NEW c \in Nat, Len(u) \in Nat, Agree(K, u, c) PROVE Agree(C, u, c)
  <2>1. c <= Len(K)
    BY <1>8 DEF Agree
  <2>2. QED BY <1>2, <1>4, <1>6, <1>8, <2>1, AgreeTrans
<1>9. ASSUME NEW q \in reqs PROVE RequestOK(L, C, W, q)'
  <2>1. RequestOK(L, K, W, q) /\ q.commit \in Nat /\ q.term \in Nat
    BY RequestKnown, ConstantTypes DEF Req
  <2>2. \A t \in Term : t >= q.term => Agree(C, L[t], q.commit)
    BY <1>2, <1>8, <2>1, HistoryLength DEF RequestOK
  <2>3. QED BY <1>1, <2>1, <2>2 DEF RequestOK, Agree
<1>10. ASSUME NEW m \in Node, NEW k \in tasks'[m] PROVE TaskOK(L, W, m, k)'
  <2>1. CASE k \in tasks[m]
    <3>1. TaskOK(L, W, m, k)
      BY <2>1 DEF SafeWith
    <3>2. QED BY <1>1, <3>1, TaskKept
  <2>2. CASE k.call = NoCall
    BY <2>2 DEF TaskOK
  <2>3. QED BY <1>1, <2>1, <2>2
<1>11. ASSUME NEW m \in Node PROVE LeaderOK(L, C, W, W, m)'
  <2>1. PICK d \in Driver : /\ drv' = [drv EXCEPT ![n] = d] /\ d.pc \in {"apply", "end"}
                            /\ RoundOK(L, W, n, d)
    BY CommitLeader
  <2>2. CASE m = n
    <3>1. d = drv'[n]
      BY <2>1, TypeInvType
    <3>2. Current(L, C, W, W, n)'
      BY <1>1, <1>2, <1>4 DEF Current
    <3>3. commit[n] \in Nat /\ commit[n] <= commit'[n] /\ DriverShape(d)
      BY <2>1, <3>1, CommitEffects DEF DriverShape, TypeInv
    <3>4. RoundOK(L, W, n, d)'
      <4>1. Kept(L)
        BY <1>1, TermsWithinPolls, SameLogsKept
      <4>2. polls <= polls' /\ reqs \subseteq reqs'
        BY <1>1, TypeInvType, ConstantTypes
      <4>3. QED BY <1>1, <1>2, <2>1, <3>3, <4>1, <4>2, LeaderKept
    <3>5. Matches(L, W, n)' /\ AwaitOK(L, W, n, d)' /\ DecidedOK(n, d)'
      BY <1>1, <1>2, <2>1 DEF Matches, Agree, AwaitOK, DecidedOK
    <3>6. QED BY <2>2, <3>1, <3>2, <3>4, <3>5, LeaderNext
  <2>3. CASE m # n
    <3>1. drv'[m] = drv[m]
      BY <2>1, <2>3, TypeInvType
    <3>2. drv[m].pc # "off" => m = winner[W]
      BY LeaderFacts
    <3>3. QED BY <1>2, <2>3, <3>1, <3>2 DEF LeaderOK
  <2>4. QED BY <2>2, <2>3
<1>12. ASSUME NEW m \in Node PROVE CommitOK(L, C, m)'
  <2>1. CASE m = n
    <3>1. \A t \in Term : t >= term[n] => Agree(C, L[t], i)
      BY <1>3, <1>4, <1>5
    <3>2. QED BY <2>1, <1>1, <1>2, <1>4, <3>1 DEF CommitOK, Agree
  <2>2. CASE m # n
    <3>1. CommitOK(L, K, m) /\ commit[m] \in Nat /\ Len(log[m]) \in Nat
      BY TypeInvType, ConstantTypes DEF SafeWith
    <3>2. Agree(C, log[m], commit[m])
      BY <1>8, <3>1 DEF CommitOK
    <3>3. \A t \in Term : t >= term[m] => Agree(C, L[t], commit[m])
      BY <1>2, <1>8, <3>1, HistoryLength DEF CommitOK
    <3>4. QED BY <2>2, <1>1, <3>2, <3>3 DEF CommitOK, Agree
  <2>3. QED BY <2>1, <2>2
<1>13. \A e \in answered' : ToldOK(C, e)
  <2>1. \A e \in answered : ToldOK(K, e) /\ e.index \in Nat \ {0}
    <3>1. answered \subseteq Entry /\ \A e \in answered : ToldOK(K, e)
      BY TypeInvType DEF SafeWith
    <3>2. QED BY <3>1, ConstantTypes DEF Entry
  <2>2. QED BY SMTT(20), <1>1, <1>2, <1>4, <1>6, <2>1 DEF ToldOK, Agree
<1>14. Elections(W)' /\ LogsRooted(L)'
  BY <1>1 DEF SafeWith, Elections, LogsRooted, Rooted, Agree
<1>15. History(L)' /\ Settled(L, W)'
  BY <1>2 DEF History, Settled, Rooted, Agree, Indexed
<1>16. (\A q \in reqs : RequestOK(L, C, W, q))'
  BY <1>1, <1>9
<1>17. QED BY <1>7, <1>10, <1>11, <1>12, <1>13, <1>14, <1>15, <1>16 DEF SafeWith

LEMMA CommitSafe ==
    ASSUME TypeInv, TypeInv', SafeInv, NEW n \in Node, LeaderCommit(n)
    PROVE  SafeInv'
<1>1. PICK L \in [Term -> Seq(Entry)], K \in Seq(Entry), kt \in Term, W \in Term :
         SafeWith(L, K, kt, W)
  BY DEF SafeInv
<1>2. PICK i \in Nat : i = drv[n].target
  BY CommitEffects
<1>3. CASE Committable(n, i) => i <= Len(K)
  <2>1. SafeWith(L, K, kt, W)'
    BY <1>1, <1>2, <1>3, CommitKnown
  <2>2. QED BY <2>1 DEF SafeInv
<1>4. CASE Committable(n, i) /\ i > Len(K)
  <2>1. L[W] \in Seq(Entry) /\ Len(L[W]) \in Nat /\ i <= Len(L[W])
    BY <1>1, <1>2, <1>4, GhostTypes, CommitEffects, CommitMajority
  <2>2. SubSeq(L[W], 1, i) \in Seq(Entry)
    <3>1. \A j \in 1 .. i : L[W][j] \in Entry
      BY <2>1, ElementOfSeq
    <3>2. QED BY <3>1, SubSeqProperties
  <2>3. PICK C \in Seq(Entry) : C = SubSeq(L[W], 1, i)
    BY <2>2
  <2>4. SafeWith(L, C, W, W)'
    BY <1>1, <1>2, <1>4, <2>3, CommitGrows
  <2>5. QED BY <2>4 DEF SafeInv
<1>5. QED
  <2>1. Len(K) \in Nat
    BY LenProperties
  <2>2. QED BY <1>3, <1>4, <2>1
-----------------------------------------------------------------------------
(* leader_append: the leader's log grows, and with it the latest one. *)

Grows(L, M) == \A t \in Term : Agree(L[t], M[t], Len(L[t]))

LEMMA GrowAgree ==
    ASSUME NEW L, History(L), NEW M, M \in [Term -> Seq(Entry)], Grows(L, M),
           NEW t \in Term, NEW s \in Seq(Entry), NEW c \in Int, Agree(s, L[t], c)
    PROVE  Agree(s, M[t], c) /\ Agree(M[t], s, c) /\ Len(M[t]) \in Nat
<1>1. Len(s) \in Nat /\ Len(L[t]) \in Nat /\ Len(M[t]) \in Nat
  BY HistoryLength, LenProperties
<1>2. c <= Len(L[t]) /\ Agree(L[t], M[t], Len(L[t]))
  BY DEF Agree, Grows
<1>3. Agree(s, M[t], c)
  BY <1>1, <1>2, AgreeTrans
<1>4. QED BY <1>1, <1>3, AgreeSym

LEMMA GrowRooted ==
    ASSUME NEW L, History(L), NEW M, M \in [Term -> Seq(Entry)], Grows(L, M),
           NEW s \in Seq(Entry), Rooted(L, s)
    PROVE  Rooted(M, s)
<1> SUFFICES ASSUME NEW i \in 1 .. Len(s) PROVE Agree(s, M[s[i].term], i)
  BY DEF Rooted
<1>1. s[i].term \in Term /\ Agree(s, L[s[i].term], i)
  BY EntryType DEF Rooted
<1>2. QED BY <1>1, GrowAgree

(* The latest log with one more entry of its own term.                      *)
Longer(L, W, e, M) ==
    /\ e \in Entry /\ e.term = W /\ e.index = Len(L[W]) + 1
    /\ M = [t \in Term |-> IF t >= W THEN Append(L[W], e) ELSE L[t]]

LEMMA GrowHistory ==
    ASSUME NEW L, History(L), NEW W \in Term, Settled(L, W),
           NEW e, NEW M, Longer(L, W, e, M)
    PROVE  /\ History(M) /\ Settled(M, W) /\ M \in [Term -> Seq(Entry)] /\ Grows(L, M)
           /\ M[W] = Append(L[W], e)
<1>0. PICK s : s = Append(L[W], e)
  OBVIOUS
<1>1. /\ s \in Seq(Entry) /\ e \in Entry /\ e.term = W /\ e.index = Len(L[W]) + 1
      /\ L[W] \in Seq(Entry) /\ Len(L[W]) \in Nat /\ Len(s) = Len(L[W]) + 1 /\ W \in Nat
      /\ \A i \in 1 .. Len(L[W]) : s[i] = L[W][i]
      /\ s[Len(s)] = e
  BY <1>0, HistoryLength, AppendProperties, ConstantTypes DEF Longer
<1>2. /\ M \in [Term -> Seq(Entry)] /\ M[W] = s
      /\ \A t \in Term : t >= W => M[t] = s
      /\ \A t \in Term : ~(t >= W) => M[t] = L[t]
  <2>1. \A t \in Term : L[t] \in Seq(Entry)
    BY HistoryLength
  <2>2. QED BY <1>0, <1>1, <2>1 DEF Longer
<1>3. Grows(L, M)
  <2> SUFFICES ASSUME NEW t \in Term PROVE Agree(L[t], M[t], Len(L[t]))
    BY DEF Grows
  <2>1. CASE t >= W
    <3>1. L[t] = L[W] /\ M[t] = s
      BY <2>1, <1>2 DEF Settled
    <3>2. QED BY <3>1, <1>1 DEF Agree
  <2>2. CASE ~(t >= W)
    <3>1. M[t] = L[t] /\ Len(L[t]) \in Nat
      BY <2>2, <1>2, HistoryLength
    <3>2. QED BY <3>1 DEF Agree
  <2>3. QED BY <2>1, <2>2
<1>4. Settled(M, W)
  BY <1>2 DEF Settled
<1>5. Rooted(M, s)
  <2> SUFFICES ASSUME NEW i \in 1 .. Len(s) PROVE Agree(s, M[s[i].term], i)
    BY DEF Rooted
  <2>1. CASE i = Len(s)
    <3>1. M[s[i].term] = s
      BY <2>1, <1>1, <1>2
    <3>2. QED BY <2>1, <3>1, <1>1 DEF Agree
  <2>2. CASE i \in 1 .. Len(L[W])
    <3>1. PICK t \in Term : t = L[W][i].term
      BY <2>2, <1>1, EntryType
    <3>2. Agree(L[W], L[t], i)
      BY <2>2, <3>1 DEF History, Rooted
    <3>3. Agree(L[W], M[t], i) /\ Len(M[t]) \in Nat
      <4>1. i \in Int /\ L[W] \in Seq(Entry) /\ M \in [Term -> Seq(Entry)]
        BY <2>2, <1>1, <1>2
      <4>2. QED BY <4>1, <1>3, <3>2, GrowAgree
    <3>4. s[i] = L[W][i] /\ M[s[i].term] = M[t]
      BY <2>2, <3>1, <1>1
    <3>5. Agree(s, M[t], i)
      BY <2>2, <3>3, <1>1 DEF Agree
    <3>6. QED BY <3>4, <3>5
  <2>3. QED BY <2>1, <2>2, <1>1
<1>6. \A i \in 1 .. Len(s) : s[i].term <= W
  BY <1>1 DEF History
<1>7. Indexed(s)
  BY <1>1 DEF History, Indexed
<1>8. History(M)
  <2> SUFFICES ASSUME NEW t \in Term
               PROVE  /\ Indexed(M[t]) /\ Rooted(M, M[t])
                      /\ \A i \in 1 .. Len(M[t]) : M[t][i].term <= t
    BY <1>2 DEF History
  <2>1. CASE t >= W
    <3>1. M[t] = s /\ t \in Nat
      BY <2>1, <1>2, ConstantTypes
    <3>2. \A i \in 1 .. Len(s) : s[i].term \in Nat /\ s[i].term <= W
      BY <1>1, <1>6, EntryType
    <3>3. QED BY <2>1, <3>1, <3>2, <1>1, <1>5, <1>7
  <2>2. CASE ~(t >= W)
    <3>1. M[t] = L[t] /\ L[t] \in Seq(Entry)
      BY <2>2, <1>2, HistoryLength
    <3>2. Rooted(M, L[t])
      <4>1. Rooted(L, L[t])
        BY DEF History
      <4>2. QED BY <3>1, <4>1, <1>2, <1>3, GrowRooted
    <3>3. QED BY <3>1, <3>2 DEF History
  <2>3. QED BY <2>1, <2>2
<1>9. QED BY <1>0, <1>2, <1>3, <1>4, <1>8

LEMMA GrowStored ==
    ASSUME NEW L, History(L), NEW M, M \in [Term -> Seq(Entry)], Grows(L, M), NEW W \in Term,
           NEW f \in Node, log[f] \in Seq(Entry), log'[f] \in Seq(Entry),
           Agree(log[f], log'[f], Len(log[f])), NEW c \in Int, Agree(L[W], log[f], c)
    PROVE  Agree(M[W], log'[f], c)
<1>1. /\ Len(log[f]) \in Nat /\ Len(log'[f]) \in Nat /\ Len(M[W]) \in Nat
      /\ Agree(M[W], log[f], c)
  BY AgreeSym, GrowAgree, LenProperties
<1>2. c <= Len(log[f])
  BY <1>1 DEF Agree
<1>3. QED BY <1>1, <1>2, AgreeTrans

LEMMA LeaderAppendSafe ==
    ASSUME TypeInv, TypeInv', NEW L, NEW K, NEW kt, NEW W, SafeWith(L, K, kt, W),
           NEW n \in Node, LeaderAppend(n)
    PROVE  \E M \in [Term -> Seq(Entry)] : SafeWith(M, K, kt, W)'
<1>1. PICK e : /\ e = [term |-> term[n], index |-> Len(log[n]) + 1, data |-> n]
               /\ log' = [log EXCEPT ![n] = Append(@, e)]
  BY DEF LeaderAppend
<1> DEFINE d0 == [drv[n] EXCEPT !.pc = "send", !.todo = Node \ {n}, !.commit = commit[n],
                                !.mine = e, !.before = commit[n], !.round = 1]
<1>2. /\ drv' = [drv EXCEPT ![n] = d0] /\ Leads(n) /\ Len(log[n]) < MaxLog
      /\ UNCHANGED <<term, commit, tasks, next, match, reqs, polls, winner, answered>>
  BY <1>1 DEF LeaderAppend
<1>3. PICK d \in Driver : d = d0
  BY <1>2, NextTypes, TypeInvType
<1>4. drv[n].pc # "off" /\ term[n] = W /\ drv[n] \in Driver
  BY <1>2, LeadsFacts, DriverParts
<1>5. /\ d.pc = "send" /\ d.commit = commit[n] /\ d.mine = e /\ d.round = 1
      /\ d = drv'[n] /\ \A m \in Node \ {n} : drv'[m] = drv[m]
  BY <1>2, <1>3, <1>4, TypeInvType DEF Driver
<1> HIDE DEF d0
<1>6. /\ W > 0 /\ n = winner[W] /\ log[n] = L[W] /\ Current(L, K, kt, W, n) /\ Matches(L, W, n)
      /\ History(L) /\ Settled(L, W) /\ K \in Seq(Entry) /\ Len(K) \in Nat
      /\ W \in Term /\ W \in Nat /\ kt \in Nat /\ kt <= W /\ kt \in Term
      /\ L[W] \in Seq(Entry) /\ Len(L[W]) \in Nat /\ Len(L[W]) \in Index
  BY <1>4, LeaderFacts, GhostTypes, TypeInvType
<1>7. e \in Entry /\ e.term = W /\ e.index = Len(L[W]) + 1
  BY <1>1, <1>2, <1>4, <1>6, ConstantTypes DEF Entry
<1>8. PICK s \in Seq(Entry) : s = Append(L[W], e)
  BY <1>6, <1>7, AppendProperties
<1>9. PICK M : Longer(L, W, e, M)
  BY <1>7 DEF Longer
<1>10. /\ History(M) /\ Settled(M, W) /\ M \in [Term -> Seq(Entry)] /\ Grows(L, M) /\ M[W] = s
       /\ \A i \in 1 .. Len(s) : s[i].term <= W
       /\ Rooted(M, s)
  <2>1. History(L) /\ W \in Term /\ Settled(L, W)
    BY <1>6
  <2>2. /\ History(M) /\ Settled(M, W) /\ M \in [Term -> Seq(Entry)] /\ Grows(L, M)
        /\ M[W] = Append(L[W], e)
    BY <2>1, <1>9, GrowHistory
  <2>3. QED BY <2>1, <2>2, <1>8 DEF History
<1>11. /\ Len(s) = Len(L[W]) + 1 /\ s[Len(s)] = e /\ Agree(L[W], s, Len(L[W]))
  BY <1>6, <1>7, <1>8, AppendProperties, AgreeAppend
<1>12. log'[n] = s /\ \A m \in Node \ {n} : log'[m] = log[m]
  BY <1>1, <1>6, <1>8, TypeInvType
<1>13. \A m \in Node : /\ log[m] \in Seq(Entry) /\ log'[m] \in Seq(Entry)
                       /\ Len(log[m]) \in Nat /\ Len(log'[m]) \in Nat
                       /\ Agree(log[m], log'[m], Len(log[m]))
  <2>1. \A m \in Node : log[m] \in Seq(Entry) /\ log'[m] \in Seq(Entry)
    BY TypeInvType, NextTypes
  <2>2. \A m \in Node : Len(log[m]) \in Nat /\ Len(log'[m]) \in Nat
    BY <2>1, LenProperties
  <2>3. \A m \in Node \ {n} : Agree(log[m], log'[m], Len(log[m]))
    BY <2>1, <2>2, <1>12, AgreeRefl
  <2>4. QED BY <2>1, <2>2, <2>3, <1>6, <1>11, <1>12
<1>14. ASSUME NEW m \in Node, NEW c \in Int, Agree(L[W], log[m], c)
       PROVE  Agree(M[W], log'[m], c)
  BY <1>6, <1>10, <1>13, <1>14, GrowStored
<1>15. ASSUME NEW m \in Node, NEW x \in Seq(Entry), NEW c \in Int, Agree(x, log[m], c)
       PROVE  Agree(x, log'[m], c)
  <2>1. c <= Len(log[m]) /\ Len(x) \in Nat
    BY <1>15, LenProperties DEF Agree
  <2>2. QED BY <2>1, <1>13, <1>15, AgreeTrans
<1>16. ASSUME NEW x \in Seq(Entry), NEW c \in Int, NEW t \in Term, Agree(x, L[t], c)
       PROVE  Agree(x, M[t], c)
  BY <1>6, <1>10, <1>16, GrowAgree
<1>17. Elections(W)'
  BY <1>2 DEF SafeWith, Elections
<1>18. LogsRooted(M)'
  <2>1. ASSUME NEW m \in Node
        PROVE  Rooted(M, log'[m]) /\ \A i \in 1 .. Len(log'[m]) : log'[m][i].term <= term'[m]
    <3>1. CASE m = n
      BY <3>1, <1>2, <1>4, <1>10, <1>12
    <3>2. CASE m # n
      <4>1. Rooted(L, log[m]) /\ \A i \in 1 .. Len(log[m]) : log[m][i].term <= term[m]
        BY DEF SafeWith, LogsRooted
      <4>2. Rooted(M, log[m])
        BY <4>1, <1>6, <1>10, <1>13, GrowRooted
      <4>3. QED BY <3>2, <4>1, <4>2, <1>2, <1>12
    <3>3. QED BY <3>1, <3>2
  <2>2. QED BY <2>1 DEF LogsRooted, Rooted, Agree
<1>19. ChosenOK(M, K, kt, W)'
  <2>1. \A t \in Term : t >= kt => Agree(K, M[t], Len(K))
    BY <1>6, <1>16 DEF SafeWith, ChosenOK
  <2>2. CASE Len(K) > 0
    <3>1. PICK Q \in SUBSET Node : /\ 2 * Cardinality(Q) > Cardinality(Node)
                                   /\ \A m \in Q : Agree(K, log[m], Len(K)) /\ term[m] >= kt
      BY <2>2 DEF SafeWith, ChosenOK
    <3>2. \A m \in Q : Agree(K, log'[m], Len(K)) /\ term'[m] >= kt
      BY <3>1, <1>2, <1>6, <1>15
    <3>3. K[Len(K)].term = kt
      BY <2>2 DEF SafeWith, ChosenOK
    <3>4. QED BY <2>1, <3>1, <3>2, <3>3, <1>6 DEF ChosenOK, Agree
  <2>3. CASE ~(Len(K) > 0)
    BY <2>1, <2>3, <1>6 DEF ChosenOK, Agree
  <2>4. QED BY <2>2, <2>3
<1>20. ASSUME NEW q \in reqs PROVE RequestOK(M, K, W, q)'
  <2>1. /\ q \in Req /\ q.term \in Term /\ q.term \in Nat /\ RequestOK(L, K, W, q)
        /\ q.commit \in Nat /\ q.prevIndex \in Nat /\ Len(q.entries) \in Nat
    <3>1. q \in Req /\ q.term \in Term /\ q.term \in Nat /\ RequestOK(L, K, W, q)
      BY RequestKnown
    <3>2. q.commit \in Index /\ q.prevIndex \in Index /\ q.entries \in Seq(Entry)
      BY <3>1 DEF Req
    <3>3. QED BY <3>1, <3>2, ConstantTypes, LenProperties
  <2>2. /\ Len(L[q.term]) \in Nat /\ Len(M[q.term]) \in Nat /\ Len(L[q.term]) <= Len(M[q.term])
        /\ \A i \in 1 .. Len(L[q.term]) : M[q.term][i] = L[q.term][i]
    BY <2>1, <1>6, <1>10, HistoryLength DEF Grows, Agree
  <2>3. /\ LastOf(q) \in Nat /\ LastOf(q) <= Len(L[q.term])
        /\ LastOf(q) = q.prevIndex + Len(q.entries)
    BY <2>1 DEF LastOf, RequestOK
  <2>4. q.prevIndex > 0 => q.prevTerm = M[q.term][q.prevIndex].term
    <3>1. q.prevIndex > 0 => q.prevIndex \in 1 .. Len(L[q.term])
      BY <2>1, <2>2, <2>3
    <3>2. QED BY <2>1, <2>2, <3>1 DEF RequestOK
  <2>5. ASSUME NEW i \in 1 .. Len(q.entries)
        PROVE  q.entries[i] = M[q.term][q.prevIndex + i]
    <3>1. q.prevIndex + i \in 1 .. Len(L[q.term])
      BY SMTT(20), <2>1, <2>2, <2>3
    <3>2. QED BY <2>1, <2>2, <3>1 DEF RequestOK
  <2>6. \A t \in Term : t >= q.term => Agree(K, M[t], q.commit)
    BY <2>1, <1>6, <1>16 DEF RequestOK
  <2>7. q.term >= W => q.leader = winner[W] /\ LastOf(q) >= 1 /\ M[W][LastOf(q)].term = W
    <3> SUFFICES ASSUME q.term >= W
                 PROVE  q.leader = winner[W] /\ LastOf(q) >= 1 /\ M[W][LastOf(q)].term = W
      OBVIOUS
    <3>1. q.leader = winner[W] /\ LastOf(q) >= 1 /\ L[W][LastOf(q)].term = W
      BY <2>1 DEF RequestOK
    <3>2. L[q.term] = L[W] /\ M[q.term] = M[W]
      BY <2>1, <1>6, <1>10 DEF Settled
    <3>3. QED BY <2>2, <2>3, <3>1, <3>2
  <2>8. LastOf(q) <= Len(M[q.term]) /\ q.commit <= LastOf(q) /\ q.to # q.leader
    BY <2>1, <2>2, <2>3 DEF RequestOK
  <2>9. QED BY <2>4, <2>5, <2>6, <2>7, <2>8, <1>2 DEF RequestOK, Agree
<1>21. ASSUME NEW m \in Node, NEW k \in tasks'[m] PROVE TaskOK(M, W, m, k)'
  <2>1. k \in tasks[m] /\ TaskOK(L, W, m, k) /\ k \in Task
    BY <1>2, <1>21, TypeInvType DEF SafeWith
  <2>2. k.call # NoCall => k.resp \in Resp
    BY <2>1 DEF TypeInv, TaskShape
  <2>3. k.call # NoCall => k.resp.match \in Nat
    BY <2>2, ConstantTypes DEF Resp
  <2>4. QED BY <2>1, <2>3, <1>2, <1>14 DEF TaskOK, Stored, Agree
<1>22. ASSUME NEW m \in Node PROVE LeaderOK(M, K, kt, W, m)'
  <2>1. CASE m = n
    <3>1. Current(M, K, kt, W, n)'
      BY <1>2, <1>4, <1>6, <1>10, <1>12 DEF Current
    <3>2. Matches(M, W, n)'
      <4> SUFFICES ASSUME NEW f \in Node
                   PROVE  /\ next[n][f] <= Len(M[W]) + 1
                          /\ Agree(M[W], log'[f], match[n][f])
                          /\ match[n][f] > 0 => term[f] >= W
        BY <1>2 DEF Matches, Agree
      <4>1. next[n][f] \in Nat /\ match[n][f] \in Nat
        <5>1. next[n][f] \in 1 .. MaxLog + 1 /\ match[n][f] \in Index
          BY TypeInvType
        <5>2. QED BY <5>1, ConstantTypes
      <4>2. QED BY <4>1, <1>6, <1>10, <1>11, <1>14 DEF Matches
    <3>3. RoundOK(M, W, n, d)'
      <4>1. commit[n] \in Nat
        BY TypeInvType, ConstantTypes
      <4>2. QED BY <4>1, <1>2, <1>5, <1>6, <1>7, <1>10, <1>11 DEF RoundOK
    <3>4. AwaitOK(M, W, n, d)' /\ DecidedOK(n, d)'
      BY <1>5 DEF AwaitOK, DecidedOK
    <3>5. QED BY <2>1, <1>5, <3>1, <3>2, <3>3, <3>4, LeaderNext
  <2>2. CASE m # n
    <3>1. drv[m].pc = "off"
      BY <2>2, <1>6, LeaderFacts
    <3>2. QED BY <2>2, <3>1, <1>5 DEF LeaderOK
  <2>3. QED BY <2>1, <2>2
<1>23. ASSUME NEW m \in Node PROVE CommitOK(M, K, m)'
  <2>1. commit[m] \in Nat /\ CommitOK(L, K, m)
    BY TypeInvType, ConstantTypes DEF SafeWith
  <2>2. Agree(K, log'[m], commit[m])
    BY <2>1, <1>6, <1>15 DEF CommitOK
  <2>3. \A t \in Term : t >= term[m] => Agree(K, M[t], commit[m])
    BY <2>1, <1>6, <1>16 DEF CommitOK
  <2>4. QED BY <2>2, <2>3, <1>2 DEF CommitOK, Agree
<1>24. \A x \in answered' : ToldOK(K, x)
  BY <1>2 DEF SafeWith
<1>25. History(M)' /\ Settled(M, W)'
  BY <1>10 DEF History, Settled, Rooted, Agree, Indexed
<1>26. (\A q \in reqs : RequestOK(M, K, W, q))'
  BY <1>2, <1>20
<1>27. SafeWith(M, K, kt, W)'
  BY <1>6, <1>17, <1>18, <1>19, <1>21, <1>22, <1>23, <1>24, <1>25, <1>26 DEF SafeWith, ToldOK
<1>28. QED BY <1>10, <1>27

-----------------------------------------------------------------------------
(* Elections. *)

LEMMA Overlap ==
    ASSUME NEW P \in SUBSET Node, NEW Q \in SUBSET Node,
           2 * Cardinality(P) > Cardinality(Node), 2 * Cardinality(Q) > Cardinality(Node)
    PROVE  \E m \in Node : m \in P /\ m \in Q
<1>1. /\ Cardinality(P) \in Nat /\ Cardinality(Q) \in Nat /\ Cardinality(Node) \in Nat
      /\ IsFiniteSet(Node)
  BY NodeAssumption, FS_Subset, FS_CardinalityType
<1>2. Cardinality(P) + Cardinality(Q) > Cardinality(Node)
  BY <1>1
<1>3. P \cap Q # {}
  BY <1>1, <1>2, FS_MajoritiesIntersect
<1>4. QED BY <1>3

(* A log that ends in kt or later, and reaches as far if it ends in kt,     *)
(* holds all of K.                                                          *)
LEMMA HoldsChosen ==
    ASSUME NEW L, History(L), NEW K \in Seq(Entry), NEW kt \in Term, Len(K) > 0,
           K[Len(K)].term = kt, \A t \in Term : t >= kt => Agree(K, L[t], Len(K)),
           NEW s \in Seq(Entry), Rooted(L, s), Len(s) > 0,
           LastTerm(s) > kt \/ (LastTerm(s) = kt /\ Len(s) >= Len(K))
    PROVE  Agree(K, s, Len(K))
<1> DEFINE T == s[Len(s)].term
<1>1. /\ Len(K) \in Nat /\ Len(s) \in Nat /\ kt \in Nat /\ T \in Term /\ T \in Nat
      /\ LastTerm(s) = T /\ Len(L[T]) \in Nat
  BY LenProperties, EntryType, ConstantTypes, HistoryLength DEF LastTerm, TermAt
<1>2. T >= kt
  BY <1>1
<1>3. Agree(s, L[T], Len(s)) /\ Agree(K, L[T], Len(K))
  BY <1>1, <1>2 DEF Rooted
<1>4. Len(K) <= Len(s)
  <2> SUFFICES ASSUME Len(s) < Len(K) PROVE FALSE
    BY <1>1
  <2>1. T > kt
    BY <1>1
  <2>2. L[T][Len(s)] = s[Len(s)] /\ L[T][Len(K)] = K[Len(K)]
    BY <1>1, <1>3 DEF Agree
  <2>3. L[T] \in Seq(Entry) /\ Rooted(L, L[T]) /\ Len(K) \in 1 .. Len(L[T])
        /\ Len(s) \in 1 .. Len(K)
    BY <1>1, <1>3 DEF History, Agree
  <2>4. L[T][Len(s)].term <= L[T][Len(K)].term
    BY <2>3, Ascending
  <2>5. QED BY <1>1, <2>1, <2>2, <2>4
<1> HIDE DEF T
<1>5. QED BY <1>1, <1>3, <1>4, AgreeSym, AgreeTrans

(* The winner of an election holds what is chosen.                          *)
LEMMA WinnerHoldsChosen ==
    ASSUME TypeInv, NEW L, NEW K, NEW kt, NEW W, SafeWith(L, K, kt, W), NEW n \in Node,
           NEW Q \in SUBSET Node, 2 * Cardinality(Q) > Cardinality(Node),
           \A m \in Q : AsNewAs(log[n], log[m])
    PROVE  Agree(K, log[n], Len(K))
<1>1. /\ History(L) /\ K \in Seq(Entry) /\ Len(K) \in Nat /\ kt \in Term /\ kt \in Nat
      /\ \A m \in Node : log[m] \in Seq(Entry) /\ Rooted(L, log[m]) /\ Len(log[m]) \in Nat
      /\ \A t \in Term : t >= kt => Agree(K, L[t], Len(K))
  BY GhostTypes, TypeInvType, ConstantTypes DEF SafeWith, LogsRooted, ChosenOK
<1>2. CASE Len(K) = 0
  BY <1>1, <1>2 DEF Agree
<1>3. CASE Len(K) > 0
  <2>1. PICK P \in SUBSET Node : /\ 2 * Cardinality(P) > Cardinality(Node)
                                 /\ \A m \in P : Agree(K, log[m], Len(K)) /\ term[m] >= kt
    BY <1>3 DEF SafeWith, ChosenOK
  <2>2. PICK m \in Node : m \in P /\ m \in Q
    BY <2>1, Overlap
  <2>3. Agree(K, log[m], Len(K)) /\ AsNewAs(log[n], log[m]) /\ K[Len(K)].term = kt
    BY <1>3, <2>1, <2>2 DEF SafeWith, ChosenOK
  <2>4. /\ Len(log[m]) >= Len(K) /\ Len(K) \in 1 .. Len(log[m]) /\ log[m][Len(K)].term = kt
        /\ Len(log[m]) \in 1 .. Len(log[m])
    BY <1>1, <1>3, <2>3 DEF Agree
  <2>5. LastTerm(log[m]) >= kt /\ LastTerm(log[m]) \in Nat
    <3>1. log[m][Len(K)].term <= log[m][Len(log[m])].term
      BY <1>1, <2>4, Ascending
    <3>2. log[m][Len(log[m])].term \in Nat
      BY <1>1, <2>4, EntryType
    <3>3. LastTerm(log[m]) = log[m][Len(log[m])].term
      BY <2>4, <1>1 DEF LastTerm, TermAt
    <3>4. QED BY <2>4, <3>1, <3>2, <3>3
  <2>6. Len(log[n]) > 0 /\ LastTerm(log[n]) \in Nat
    <3>1. CASE Len(log[n]) = 0
      <4>1. LastTerm(log[n]) = 0
        BY <3>1 DEF LastTerm, TermAt
      <4>2. LastTerm(log[m]) > 0 \/ Len(log[m]) > 0
        BY <2>4, <1>1
      <4>3. QED BY <3>1, <4>1, <2>3, <2>4, <2>5, <1>1 DEF AsNewAs
    <3>2. CASE Len(log[n]) > 0
      <4>1. Len(log[n]) \in 1 .. Len(log[n])
        BY <3>2, <1>1
      <4>2. LastTerm(log[n]) = log[n][Len(log[n])].term
        BY <4>1, <1>1 DEF LastTerm, TermAt
      <4>3. QED BY <3>2, <4>1, <4>2, <1>1, EntryType
    <3>3. QED BY <3>1, <3>2, <1>1
  <2>7. LastTerm(log[n]) > kt \/ (LastTerm(log[n]) = kt /\ Len(log[n]) >= Len(K))
    BY <2>3, <2>4, <2>5, <2>6, <1>1 DEF AsNewAs
  <2>8. QED BY <1>1, <1>3, <2>3, <2>6, <2>7, HoldsChosen
<1>4. QED BY <1>1, <1>2, <1>3

LEMMA LoseSafe ==
    ASSUME TypeInv, TypeInv', NEW L, NEW K, NEW kt, NEW W, SafeWith(L, K, kt, W), LoseElection
    PROVE  SafeWith(L, K, kt, W)'
<1>1. PICK Q \in SUBSET Node :
         /\ Vote(Q, Q) /\ drv' = Without(drv, Q, Off)
         /\ next' = Without(next, Q, Progress(1)) /\ match' = Without(match, Q, Progress(0))
         /\ UNCHANGED winner
  BY DEF LoseElection
<1>2. /\ polls' = polls + 1 /\ \A m \in Node : term'[m] = IF m \in Q THEN polls + 1 ELSE term[m]
      /\ UNCHANGED <<log, commit, tasks, reqs, answered>>
  BY <1>1 DEF Vote
<1>3. polls \in Nat /\ \A m \in Node : term[m] \in Nat /\ term[m] <= polls /\ commit[m] \in Nat
  BY TermsWithinPolls, TypeInvType, ConstantTypes
<1>4. /\ \A m \in Node : term[m] <= term'[m] /\ term'[m] <= polls' /\ commit[m] <= commit'[m]
      /\ polls <= polls'
  BY <1>2, <1>3
<1>5. Kept(L)
  BY <1>2, <1>4, SameLogsKept
<1>6. ASSUME NEW m \in Node
      PROVE  \/ LeaderOK(L, K, kt, W, m)'
             \/ /\ drv'[m] = drv[m] /\ next'[m] = next[m] /\ match'[m] = match[m]
                /\ log'[m] = log[m] /\ commit[m] <= commit'[m]
  <2>1. CASE m \in Q
    <3>1. drv'[m].pc = "off"
      BY <1>1, <2>1 DEF Without, Off
    <3>2. QED BY <3>1 DEF LeaderOK
  <2>2. CASE m \notin Q
    BY <1>1, <1>2, <1>4, <2>2 DEF Without
  <2>3. QED BY <2>1, <2>2
<1>7. QED BY <1>1, <1>2, <1>4, <1>5, <1>6, CalmStep

(* The log of the winner of the term p is the latest from there on.         *)
Won(L, p, s, M) == M = [t \in Term |-> IF t >= p THEN s ELSE L[t]]

LEMMA WonHistory ==
    ASSUME NEW L, History(L), NEW p \in Term, NEW s \in Seq(Entry), Rooted(L, s), Indexed(s),
           \A i \in 1 .. Len(s) : s[i].term < p, NEW M, Won(L, p, s, M)
    PROVE  /\ History(M) /\ Settled(M, p) /\ M \in [Term -> Seq(Entry)] /\ M[p] = s
           /\ \A t \in Term : t < p => M[t] = L[t]
           /\ \A t \in Term : t >= p => M[t] = s
<1>1. /\ M \in [Term -> Seq(Entry)] /\ M[p] = s /\ p \in Nat
      /\ \A t \in Term : t < p => M[t] = L[t]
      /\ \A t \in Term : t >= p => M[t] = s
  <2>1. \A t \in Term : t \in Nat /\ L[t] \in Seq(Entry)
    BY ConstantTypes, HistoryLength
  <2>2. QED BY <2>1 DEF Won
<1>2. Settled(M, p)
  BY <1>1 DEF Settled
<1>3. ASSUME NEW u \in Seq(Entry), Rooted(L, u), \A i \in 1 .. Len(u) : u[i].term < p
      PROVE  Rooted(M, u)
  <2> SUFFICES ASSUME NEW i \in 1 .. Len(u) PROVE Agree(u, M[u[i].term], i)
    BY DEF Rooted
  <2>1. u[i].term \in Term /\ u[i].term < p
    BY <1>3, EntryType
  <2>2. M[u[i].term] = L[u[i].term]
    BY <1>1, <2>1
  <2>3. QED BY <1>3, <2>2 DEF Rooted
<1>4. Rooted(M, s)
  BY <1>3
<1>5. ASSUME NEW t \in Term
      PROVE  /\ Indexed(M[t]) /\ Rooted(M, M[t])
             /\ \A i \in 1 .. Len(M[t]) : M[t][i].term <= t
  <2>1. CASE t >= p
    <3>1. \A i \in 1 .. Len(s) : s[i].term <= t
      <4>1. \A i \in 1 .. Len(s) : s[i].term \in Nat
        BY EntryType
      <4>2. t \in Nat
        BY ConstantTypes
      <4>3. QED BY <2>1, <4>1, <4>2, <1>1
    <3>2. QED BY <2>1, <3>1, <1>1, <1>4
  <2>2. CASE t < p
    <3>1. M[t] = L[t] /\ L[t] \in Seq(Entry) /\ t \in Nat
      BY <2>2, <1>1, HistoryLength, ConstantTypes
    <3>2. Indexed(L[t]) /\ Rooted(L, L[t]) /\ \A i \in 1 .. Len(L[t]) : L[t][i].term <= t
      BY DEF History
    <3>3. \A i \in 1 .. Len(L[t]) : L[t][i].term < p
      <4>1. \A i \in 1 .. Len(L[t]) : L[t][i].term \in Nat
        BY <3>1, EntryType
      <4>2. QED BY <2>2, <3>1, <3>2, <4>1, <1>1
    <3>4. Rooted(M, L[t])
      BY <1>3, <3>1, <3>2, <3>3
    <3>5. QED BY <3>1, <3>2, <3>4
  <2>3. QED BY <2>1, <2>2, <1>1, ConstantTypes
<1>6. History(M)
  BY <1>1, <1>5 DEF History
<1>7. QED BY <1>1, <1>2, <1>6

LEMMA TakeLeadSafe ==
    ASSUME Handover, TypeInv, TypeInv', NEW L, NEW K, NEW kt, NEW W, SafeWith(L, K, kt, W),
           NEW n \in Node, TakeLead(n)
    PROVE  SafeInv'
<1>1. PICK Q \in SUBSET Node :
         /\ n \in Q /\ 2 * Cardinality(Q) > Cardinality(Node)
         /\ \A m \in Q : AsNewAs(log[n], log[m])
         /\ Vote(Q, Node)
         /\ winner' = [winner EXCEPT ![polls'] = n]
         /\ drv' = [Without(drv, Node, Off) EXCEPT ![n] = [Off EXCEPT !.pc = "idle"]]
         /\ next' = [Without(next, Node, Progress(1)) EXCEPT ![n] = Progress(Len(log[n]) + 1)]
         /\ match' = Without(match, Node, Progress(0))
  BY DEF TakeLead
<1>2. /\ polls' = polls + 1 /\ \A m \in Node : term'[m] = IF m \in Q THEN polls + 1 ELSE term[m]
      /\ UNCHANGED <<log, commit, tasks, reqs, answered>>
  BY <1>1 DEF Vote
<1>3. PICK p \in Term : p = polls + 1
  BY <1>2, NextTypes
<1>4. /\ \A m \in Node : term[m] \in Nat /\ term[m] <= polls /\ commit[m] \in Nat
      /\ polls \in Nat /\ p \in Nat /\ p > 0
  BY <1>3, TermsWithinPolls, TypeInvType, ConstantTypes
<1>5. /\ History(L) /\ K \in Seq(Entry) /\ Len(K) \in Nat /\ kt \in Term /\ kt \in Nat
      /\ W \in Nat /\ W <= polls /\ W \in Term /\ kt <= W /\ kt < p
  BY <1>3, <1>4, GhostTypes
<1>6. \A m \in Node : /\ log[m] \in Seq(Entry) /\ Rooted(L, log[m]) /\ Indexed(log[m])
                      /\ Len(log[m]) \in Nat
                      /\ \A i \in 1 .. Len(log[m]) : log[m][i].term <= term[m]
  BY TypeInvType, ConstantTypes DEF SafeWith, LogsRooted, TypeInv
<1>7. ASSUME NEW m \in Node, NEW i \in 1 .. Len(log[m])
      PROVE  log[m][i].term \in Term /\ log[m][i].term < p
  <2>1. log[m][i].term \in Term /\ log[m][i].term \in Nat
    BY <1>6, EntryType
  <2>2. QED BY <2>1, <1>3, <1>4, <1>6
<1>8. PICK s \in Seq(Entry) : s = log[n]
  BY <1>6
<1>9. PICK M : Won(L, p, s, M)
  BY DEF Won
<1>10. /\ History(M) /\ Settled(M, p) /\ M \in [Term -> Seq(Entry)] /\ M[p] = s
       /\ \A t \in Term : t < p => M[t] = L[t]
       /\ \A t \in Term : t >= p => M[t] = s
  <2>1. Rooted(L, s) /\ Indexed(s) /\ \A i \in 1 .. Len(s) : s[i].term < p
    BY <1>6, <1>7, <1>8
  <2>2. QED BY <2>1, <1>5, <1>9, WonHistory
<1>11. Agree(K, s, Len(K))
  BY <1>1, <1>8, WinnerHoldsChosen
<1>12. ASSUME NEW t0 \in Term, NEW c \in Nat, \A t \in Term : t >= t0 => Agree(K, L[t], c),
              c <= Len(K)
       PROVE  \A t \in Term : t >= t0 => Agree(K, M[t], c)
  <2> SUFFICES ASSUME NEW t \in Term, t >= t0 PROVE Agree(K, M[t], c)
    OBVIOUS
  <2>1. CASE t < p
    BY <2>1, <1>10, <1>12
  <2>2. CASE t >= p
    <3>1. Agree(K, s, c)
      BY <1>5, <1>11, <1>12, LenProperties, AgreeLess
    <3>2. QED BY <2>2, <3>1, <1>10
  <2>3. QED BY <2>1, <2>2, <1>4, ConstantTypes
<1>13. Elections(p)'
  <2>1. winner' = [winner EXCEPT ![p] = n] /\ winner \in [Term -> Node \cup {NoNode}]
    BY <1>1, <1>2, <1>3, TypeInvType
  <2>2. winner'[p] = n /\ winner'[0] = NoNode
    BY <2>1, <1>4, ConstantTypes DEF SafeWith, Elections
  <2>3. \A t \in Term : t > p => winner'[t] = NoNode
    <3> SUFFICES ASSUME NEW t \in Term, t > p PROVE winner'[t] = NoNode
      OBVIOUS
    <3>1. t > W /\ t # p
      BY <1>3, <1>4, <1>5, ConstantTypes
    <3>2. QED BY <2>1, <3>1 DEF SafeWith, Elections
  <2>4. \A m \in Node : term'[m] <= polls'
    BY <1>2, <1>4
  <2>5. \A q \in reqs : q.term <= polls'
    BY <1>2, <1>4, RequestKnown
  <2>6. QED BY <2>2, <2>3, <2>4, <2>5, <1>2, <1>3, <1>4 DEF Elections
<1>14. LogsRooted(M)'
  <2>1. ASSUME NEW m \in Node
        PROVE  Rooted(M, log[m]) /\ \A i \in 1 .. Len(log[m]) : log[m][i].term <= term'[m]
    <3>1. \A i \in 1 .. Len(log[m]) : M[log[m][i].term] = L[log[m][i].term]
      BY <1>7, <1>10
    <3>2. Rooted(M, log[m])
      BY <3>1, <1>6 DEF Rooted
    <3>3. \A i \in 1 .. Len(log[m]) : log[m][i].term <= term'[m]
      <4>1. \A i \in 1 .. Len(log[m]) : log[m][i].term \in Nat
        BY <1>7, ConstantTypes
      <4>2. QED BY SMTT(20), <4>1, <1>2, <1>4, <1>6
    <3>4. QED BY <3>2, <3>3
  <2>2. QED BY ZenonT(30), <2>1, <1>2 DEF LogsRooted, Rooted, Agree
<1>15. ChosenOK(M, K, kt, p)'
  <2>1. \A t \in Term : t >= kt => Agree(K, M[t], Len(K))
    BY <1>5, <1>12 DEF SafeWith, ChosenOK
  <2>2. CASE Len(K) > 0
    <3>1. PICK P \in SUBSET Node : /\ 2 * Cardinality(P) > Cardinality(Node)
                                   /\ \A m \in P : Agree(K, log[m], Len(K)) /\ term[m] >= kt
      BY <2>2 DEF SafeWith, ChosenOK
    <3>2. \A m \in P : Agree(K, log'[m], Len(K)) /\ term'[m] >= kt
      BY <3>1, <1>2, <1>4, <1>5
    <3>3. K[Len(K)].term = kt
      BY <2>2 DEF SafeWith, ChosenOK
    <3>4. kt \in Term /\ kt <= p
      BY <1>4, <1>5
    <3>5. QED BY <2>1, <3>1, <3>2, <3>3, <3>4 DEF ChosenOK, Agree
  <2>3. CASE ~(Len(K) > 0)
    BY <2>1, <2>3, <1>4, <1>5 DEF ChosenOK, Agree
  <2>4. QED BY <2>2, <2>3
<1>16. ASSUME NEW q \in reqs PROVE RequestOK(M, K, p, q)'
  <2>1. /\ q \in Req /\ q.term \in Term /\ q.term \in Nat /\ RequestOK(L, K, W, q)
        /\ q.term < p
    BY <1>3, <1>4, RequestKnown
  <2>2. q.commit \in Nat
    BY <2>1, ConstantTypes DEF Req
  <2>3. M[q.term] = L[q.term]
    BY <2>1, <1>10
  <2>4. q.commit <= Len(K)
    BY <2>1 DEF RequestOK, Agree
  <2>5. \A t \in Term : t >= q.term => Agree(K, M[t], q.commit)
    BY <2>1, <2>2, <2>4, <1>12 DEF RequestOK
  <2>6. ~(q.term >= p)
    BY <2>1, <1>4
  <2>7. QED BY <2>1, <2>3, <2>5, <2>6 DEF RequestOK, Agree
<1>17. ASSUME NEW m \in Node, NEW k \in tasks'[m] PROVE TaskOK(M, p, m, k)'
  <2>1. k \in tasks[m] /\ TaskOK(L, W, m, k) /\ TaskShape(m, k)
    BY <1>2, <1>17 DEF SafeWith, TypeInv
  <2>2. k.call # NoCall => ~(k.call.term >= p) /\ k.resp.term <= polls'
    <3> SUFFICES ASSUME k.call # NoCall PROVE ~(k.call.term >= p) /\ k.resp.term <= polls'
      OBVIOUS
    <3>1. k.call \in reqs /\ k.resp \in Resp /\ k.resp.term <= polls
      BY <2>1 DEF TaskShape, TaskOK
    <3>2. k.call.term \in Nat /\ k.call.term <= polls
      BY <3>1, RequestKnown
    <3>3. k.resp.term \in Nat
      BY <3>1, ConstantTypes DEF Resp
    <3>4. QED BY <3>1, <3>2, <3>3, <1>2, <1>3, <1>4
  <2>3. QED BY <2>2 DEF TaskOK
<1>18. ASSUME NEW m \in Node PROVE LeaderOK(M, K, kt, p, m)'
  <2>1. drv'[m] = IF m = n THEN [Off EXCEPT !.pc = "idle"] ELSE Off
    BY <1>1 DEF Without
  <2>2. CASE m # n
    BY <2>1, <2>2 DEF LeaderOK, Off
  <2>3. CASE m = n
    <3>1. PICK d \in Driver : d = [Off EXCEPT !.pc = "idle"]
      BY OffType
    <3>2. d.pc = "idle" /\ d = drv'[n]
      BY <2>1, <2>3, <3>1 DEF Off
    <3>3. winner'[p] = n
      BY <1>1, <1>2, <1>3, TypeInvType
    <3>4. Current(M, K, kt, p, n)'
      BY <1>1, <1>2, <1>3, <1>4, <1>5, <1>8, <1>10, <3>3 DEF Current
    <3>5. Matches(M, p, n)'
      <4>1. \A f \in Node : next'[n][f] = Len(s) + 1 /\ match'[n][f] = 0
        BY <1>1, <1>8 DEF Without, Progress
      <4>2. \A f \in Node : Len(log'[f]) \in Nat /\ Len(s) \in Nat
        BY <1>2, <1>6, <1>8
      <4>3. QED BY <4>1, <4>2, <1>10 DEF Matches, Agree
    <3>6. RoundOK(M, p, n, d)' /\ AwaitOK(M, p, n, d)' /\ DecidedOK(n, d)'
      BY <3>2 DEF RoundOK, AwaitOK, DecidedOK
    <3>7. QED BY <2>3, <3>2, <3>4, <3>5, <3>6, LeaderNext
  <2>4. QED BY <2>2, <2>3
<1>19. ASSUME NEW m \in Node PROVE CommitOK(M, K, m)'
  <2>1. CommitOK(L, K, m) /\ commit[m] \in Nat /\ term[m] \in Term
    BY <1>4, TypeInvType DEF SafeWith
  <2>2. commit[m] <= Len(K)
    BY <2>1 DEF CommitOK, Agree
  <2>3. \A t \in Term : t >= term[m] => Agree(K, M[t], commit[m])
    BY <2>1, <2>2, <1>12 DEF CommitOK
  <2>4. \A t \in Term : t >= term'[m] => t >= term[m]
    BY <1>2, <1>4, ConstantTypes
  <2>5. QED BY <2>1, <2>3, <2>4, <1>2 DEF CommitOK, Agree
<1>20. \A e \in answered' : ToldOK(K, e)
  BY <1>2 DEF SafeWith
<1>21. History(M)' /\ Settled(M, p)'
  BY <1>10 DEF History, Settled, Rooted, Agree, Indexed
<1>22. (\A q \in reqs : RequestOK(M, K, p, q))'
  BY <1>2, <1>16
<1>23. SafeWith(M, K, kt, p)'
  BY <1>5, <1>13, <1>14, <1>15, <1>17, <1>18, <1>19, <1>20, <1>21, <1>22 DEF SafeWith, ToldOK
<1>24. QED BY <1>5, <1>10, <1>23 DEF SafeInv

-----------------------------------------------------------------------------
(* The invariant holds. *)

LEMMA SafeInit == TypeInv /\ Init => SafeInv
<1> SUFFICES ASSUME TypeInv, Init PROVE SafeInv
  OBVIOUS
<1>1. /\ <<>> \in Seq(Entry) /\ Len(<<>>) = 0 /\ 0 \in Term /\ polls = 0
      /\ \A t \in Term : t \in Nat /\ winner[t] = NoNode
      /\ \A n \in Node : /\ log[n] = <<>> /\ term[n] = 0 /\ commit[n] = 0
                         /\ tasks[n] = {} /\ drv[n].pc = "off"
      /\ reqs = {} /\ answered = {}
  BY ConstantTypes, EmptySeq DEF Init, Off
<1>2. PICK L : L = [t \in Term |-> <<>>]
  OBVIOUS
<1>3. L \in [Term -> Seq(Entry)] /\ \A t \in Term : L[t] = <<>>
  BY <1>1, <1>2
<1>4. PICK K \in Seq(Entry) : K = <<>>
  BY <1>1
<1>5. History(L) /\ Settled(L, 0)
  BY <1>1, <1>3 DEF History, Settled, Indexed, Rooted
<1>6. Elections(0)
  BY <1>1 DEF Elections
<1>7. LogsRooted(L)
  BY <1>1 DEF LogsRooted, Rooted
<1>8. ChosenOK(L, K, 0, 0)
  BY <1>1, <1>3, <1>4 DEF ChosenOK, Agree
<1>9. \A n \in Node : LeaderOK(L, K, 0, 0, n) /\ CommitOK(L, K, n)
  BY <1>1, <1>3, <1>4 DEF LeaderOK, CommitOK, Agree
<1>10. SafeWith(L, K, 0, 0)
  BY <1>1, <1>5, <1>6, <1>7, <1>8, <1>9 DEF SafeWith
<1>11. QED BY <1>1, <1>3, <1>10 DEF SafeInv

LEMMA SafeStep ==
    ASSUME Handover, ~Eager
    PROVE  TypeInv /\ TypeInv' /\ OwnTasks /\ SafeInv /\ [Next]_vars => SafeInv'
<1> SUFFICES ASSUME TypeInv, TypeInv', OwnTasks, SafeInv, [Next]_vars PROVE SafeInv'
  OBVIOUS
<1>1. PICK L \in [Term -> Seq(Entry)], K \in Seq(Entry), kt \in Term, W \in Term :
         SafeWith(L, K, kt, W)
  BY DEF SafeInv
<1>2. SUFFICES ASSUME \A n \in Node : ~TakeLead(n) /\ ~LeaderAppend(n) /\ ~LeaderCommit(n)
               PROVE  SafeWith(L, K, kt, W)'
  <2>1. ASSUME SafeWith(L, K, kt, W)' PROVE SafeInv'
    BY <2>1 DEF SafeInv
  <2>2. ASSUME NEW n \in Node, TakeLead(n) PROVE SafeInv'
    BY <1>1, <2>2, TakeLeadSafe
  <2>3. ASSUME NEW n \in Node, LeaderAppend(n) PROVE SafeInv'
    <3>1. PICK M \in [Term -> Seq(Entry)] : SafeWith(M, K, kt, W)'
      BY <1>1, <2>3, LeaderAppendSafe
    <3>2. QED BY <3>1 DEF SafeInv
  <2>4. ASSUME NEW n \in Node, LeaderCommit(n) PROVE SafeInv'
    BY <2>4, CommitSafe
  <2>5. QED BY <1>2, <2>1, <2>2, <2>3, <2>4
<1>3. CASE LoseElection
  BY <1>1, <1>3, LoseSafe
<1>4. ASSUME NEW n \in Node, Heartbeat(n) PROVE SafeWith(L, K, kt, W)'
  BY <1>1, <1>4, HeartbeatSafe
<1>5. ASSUME NEW n \in Node, LeaderStep(n) PROVE SafeWith(L, K, kt, W)'
  <2>1. CASE \E f \in Node \ {n} : Send(n, f)
    BY <1>1, <2>1, SendSafe
  <2>2. CASE CallFails(n) \/ AdoptTerm(n) \/ FollowerAccepts(n) \/ FollowerRefuses(n)
    BY <1>1, <2>2, AnswerSafe
  <2>3. CASE ChooseCommit(n)
    BY <1>1, <2>3, ChooseSafe
  <2>4. CASE EndRound(n)
    BY <1>1, <2>4, EndRoundSafe
  <2>5. QED BY <1>2, <1>5, <2>1, <2>2, <2>3, <2>4 DEF LeaderStep
<1>6. ASSUME NEW n \in Node, ApplyStep(n) PROVE SafeWith(L, K, kt, W)'
  BY <1>1, <1>6, ApplySafe DEF ApplyStep
<1>7. ASSUME NEW n \in Node, NEW q \in reqs, RefuseStale(n, q) \/ RefuseMismatch(n, q)
      PROVE  SafeWith(L, K, kt, W)'
  BY <1>1, <1>7, RefuseSafe
<1>8. ASSUME NEW n \in Node, NEW q \in reqs, AppendEntries(n, q) PROVE SafeWith(L, K, kt, W)'
  BY <1>1, <1>8, AppendEntriesSafe
<1>9. CASE UNCHANGED vars
  <2>1. UNCHANGED <<log, term, commit, tasks, next, match, drv, reqs, polls, winner, answered>>
    BY <1>9 DEF vars, logVars, leaderVars
  <2>2. /\ \A m \in Node : /\ term[m] <= term'[m] /\ term'[m] <= polls'
                           /\ commit[m] <= commit'[m]
        /\ polls <= polls'
    BY <1>1, <2>1, TermsWithinPolls, TypeInvType, ConstantTypes
  <2>3. Kept(L)
    BY <2>1, <2>2, SameLogsKept
  <2>4. QED BY <1>1, <2>1, <2>2, <2>3, CalmStep
<1>10. QED BY <1>2, <1>3, <1>4, <1>5, <1>6, <1>7, <1>8, <1>9 DEF Next

-----------------------------------------------------------------------------
(* What follows from it. *)

LEMMA FirstEntries ==
    ASSUME NEW a \in Seq(Entry), NEW i \in Nat, i <= Len(a), NEW s, s = SubSeq(a, 1, i)
    PROVE  s \in Seq(Entry) /\ Len(s) = i /\ Agree(s, a, i)
<1>1. \A j \in 1 .. i : a[j] \in Entry
  BY LenProperties, ElementOfSeq
<1>2. s \in Seq(Entry) /\ Len(s) = i /\ \A j \in 1 .. i : s[j] = a[j]
  BY <1>1, SubSeqProperties
<1>3. QED BY <1>2 DEF Agree

LEMMA FrontIsPrefix ==
    ASSUME NEW a \in Seq(Entry), NEW t \in Seq(Entry), NEW i \in Nat, Agree(a, t, i),
           NEW s, s = SubSeq(a, 1, i)
    PROVE  IsPrefix(s, t)
<1>1. i <= Len(a) /\ i <= Len(t) /\ \A j \in 1 .. i : a[j] = t[j]
  BY DEF Agree
<1>2. s \in Seq(Entry) /\ Len(s) = i /\ Agree(s, a, i)
  BY <1>1, FirstEntries
<1>3. PICK u, v : u = SubSeq(s, 1, i) /\ v = SubSeq(t, 1, i)
  OBVIOUS
<1>4. u \in Seq(Entry) /\ Len(u) = i /\ Agree(u, s, i)
  <2>1. i <= Len(s)
    BY <1>2
  <2>2. QED BY <2>1, <1>2, <1>3, FirstEntries
<1>5. v \in Seq(Entry) /\ Len(v) = i /\ Agree(v, t, i)
  BY <1>1, <1>3, FirstEntries
<1>6. \A j \in 1 .. i : u[j] = v[j]
  BY <1>1, <1>2, <1>4, <1>5 DEF Agree
<1>7. u = v
  BY <1>4, <1>5, <1>6, SeqEqual
<1>8. QED BY <1>1, <1>2, <1>3, <1>7 DEF IsPrefix

(* What a node committed is the first part of its log and of K.             *)
LEMMA CommittedFacts ==
    ASSUME TypeInv, NEW L, NEW K, NEW kt, NEW W, SafeWith(L, K, kt, W), NEW n \in Node
    PROVE  /\ commit[n] \in Nat /\ commit[n] <= Len(log[n]) /\ commit[n] <= Len(K)
           /\ Committed(n) = SubSeq(log[n], 1, commit[n]) /\ Committed(n) \in Seq(Entry)
           /\ Len(Committed(n)) = commit[n]
           /\ Agree(Committed(n), log[n], commit[n]) /\ Agree(Committed(n), K, commit[n])
<1>1. /\ log[n] \in Seq(Entry) /\ commit[n] \in Nat /\ Len(log[n]) \in Nat
      /\ K \in Seq(Entry) /\ Len(K) \in Nat /\ Agree(K, log[n], commit[n])
  BY TypeInvType, ConstantTypes, GhostTypes DEF SafeWith, CommitOK
<1>2. /\ commit[n] <= Len(log[n]) /\ commit[n] <= Len(K)
      /\ \A j \in 1 .. commit[n] : K[j] = log[n][j]
  BY <1>1 DEF Agree
<1>3. Committed(n) = SubSeq(log[n], 1, commit[n])
  BY <1>1, <1>2 DEF Committed, Smaller
<1>4. PICK s : s = Committed(n)
  OBVIOUS
<1>5. s \in Seq(Entry) /\ Len(s) = commit[n] /\ Agree(s, log[n], commit[n])
  BY <1>1, <1>2, <1>3, <1>4, FirstEntries
<1>6. Agree(s, K, commit[n])
  BY <1>2, <1>5 DEF Agree
<1>7. QED BY <1>1, <1>2, <1>3, <1>4, <1>5, <1>6

LEMMA CommittedPrefix ==
    ASSUME TypeInv, NEW L, NEW K, NEW kt, NEW W, SafeWith(L, K, kt, W),
           NEW m \in Node, NEW n \in Node, commit[m] <= commit[n]
    PROVE  IsPrefix(Committed(m), Committed(n))
<1>1. /\ log[m] \in Seq(Entry) /\ commit[m] \in Nat /\ commit[n] \in Nat
      /\ commit[m] <= Len(log[m]) /\ Committed(m) = SubSeq(log[m], 1, commit[m])
      /\ Len(Committed(m)) = commit[m] /\ Len(Committed(n)) = commit[n]
      /\ Committed(n) \in Seq(Entry)
      /\ Agree(Committed(m), log[m], commit[m]) /\ Agree(Committed(m), K, commit[m])
      /\ Agree(Committed(n), K, commit[n])
  BY CommittedFacts, TypeInvType
<1>2. Agree(log[m], Committed(n), commit[m])
  BY <1>1 DEF Agree
<1>3. QED BY <1>1, <1>2, FrontIsPrefix

(* Every entry of K is on a majority.                                       *)
LEMMA OnMajority ==
    ASSUME TypeInv, NEW L, NEW K, NEW kt, NEW W, SafeWith(L, K, kt, W), NEW i \in 1 .. Len(K),
           NEW e, e = K[i]
    PROVE  2 * Cardinality({m \in Node : Knows(log[m], i) /\ log[m][i] = e}) > Cardinality(Node)
<1> DEFINE S == {m \in Node : Knows(log[m], i) /\ log[m][i] = e}
<1>1. Len(K) \in Nat /\ \A m \in Node : Len(log[m]) \in Nat
  BY GhostTypes, TypeInvType, ConstantTypes
<1>2. PICK Q \in SUBSET Node : /\ 2 * Cardinality(Q) > Cardinality(Node)
                               /\ \A m \in Q : Agree(K, log[m], Len(K))
  BY <1>1 DEF SafeWith, ChosenOK
<1>3. Q \subseteq S
  BY <1>1, <1>2 DEF Agree, Knows
<1>4. IsFiniteSet(S)
  BY NodeAssumption, FS_Subset
<1>5. /\ Cardinality(Q) <= Cardinality(S) /\ Cardinality(Q) \in Nat /\ Cardinality(S) \in Nat
      /\ Cardinality(Node) \in Nat
  BY <1>3, <1>4, NodeAssumption, FS_Subset, FS_CardinalityType
<1>6. QED BY <1>2, <1>5

(* The inductive invariant.                                                 *)
LogInv == TypeInv /\ OwnTasks /\ SafeInv

LEMMA SafeConsequences ==
    ASSUME LogInv
    PROVE  CommittedAgree /\ CommittedOnMajority /\ AnsweredIsKept /\ MatchIsReplicated
<1>1. PICK L \in [Term -> Seq(Entry)], K \in Seq(Entry), kt \in Term, W \in Term :
         SafeWith(L, K, kt, W)
  BY DEF LogInv, SafeInv
<1>2. TypeInv /\ Len(K) \in Nat
  BY LenProperties DEF LogInv
<1>3. CommittedAgree
  <2> SUFFICES ASSUME NEW m \in Node, NEW n \in Node
               PROVE  IsPrefix(Committed(m), Committed(n)) \/ IsPrefix(Committed(n), Committed(m))
    BY DEF CommittedAgree
  <2>1. commit[m] \in Nat /\ commit[n] \in Nat
    BY <1>1, <1>2, CommittedFacts
  <2>2. commit[m] <= commit[n] \/ commit[n] <= commit[m]
    BY <2>1
  <2>3. QED BY <1>1, <1>2, <2>2, CommittedPrefix
<1>4. CommittedOnMajority
  <2> SUFFICES ASSUME NEW n \in Node, NEW i \in 1 .. commit[n]
               PROVE  /\ Knows(log[n], i)
                      /\ 2 * Cardinality({m \in Node : Knows(log[m], i) /\ log[m][i] = log[n][i]})
                           > Cardinality(Node)
    BY DEF CommittedOnMajority
  <2>1. /\ commit[n] \in Nat /\ commit[n] <= Len(log[n]) /\ commit[n] <= Len(K)
        /\ Agree(Committed(n), log[n], commit[n]) /\ Agree(Committed(n), K, commit[n])
        /\ Len(log[n]) \in Nat
    BY <1>1, <1>2, CommittedFacts, TypeInvType, ConstantTypes
  <2>2. Knows(log[n], i) /\ i \in 1 .. Len(K) /\ log[n][i] = K[i]
    BY <1>2, <2>1 DEF Knows, Agree
  <2>3. QED BY <1>1, <1>2, <2>2, OnMajority
<1>5. AnsweredIsKept
  <2> SUFFICES ASSUME NEW e \in answered
               PROVE  2 * Cardinality({m \in Node : Knows(log[m], e.index) /\ log[m][e.index] = e})
                        > Cardinality(Node)
    BY DEF AnsweredIsKept
  <2>1. e.index \in 1 .. Len(K) /\ K[e.index] = e
    <3>1. e \in Entry /\ ToldOK(K, e)
      BY <1>1, <1>2, TypeInvType DEF SafeWith
    <3>2. e.index \in Nat \ {0}
      BY <3>1, ConstantTypes DEF Entry
    <3>3. QED BY <1>2, <3>1, <3>2 DEF ToldOK
  <2>2. PICK i \in 1 .. Len(K) : i = e.index
    BY <2>1
  <2>3. 2 * Cardinality({m \in Node : Knows(log[m], i) /\ log[m][i] = e}) > Cardinality(Node)
    <3>1. e = K[i]
      BY <2>1, <2>2
    <3>2. QED BY <1>1, <1>2, <3>1, OnMajority
  <2>4. QED BY <2>2, <2>3
<1>6. MatchIsReplicated
  <2> SUFFICES ASSUME NEW n \in Node, NEW f \in Node, drv[n].pc # "off"
               PROVE  /\ match[n][f] <= Len(log[n])
                      /\ IsPrefix(SubSeq(log[n], 1, match[n][f]), log[f])
    BY DEF MatchIsReplicated
  <2>1. /\ log[n] \in Seq(Entry) /\ log[f] \in Seq(Entry) /\ match[n][f] \in Nat
    BY <1>2, TypeInvType, ConstantTypes
  <2>2. Agree(log[n], log[f], match[n][f])
    BY <1>1, <1>2, LeaderFacts DEF Matches
  <2>3. QED BY <2>1, <2>2, FrontIsPrefix DEF Agree
<1>7. QED BY <1>3, <1>4, <1>5, <1>6

LEMMA LogInvInductive ==
    ASSUME Handover, ~Eager
    PROVE  (Init => LogInv) /\ (LogInv /\ [Next]_vars => LogInv')
<1>1. Init => LogInv
  <2>1. Init => OwnTasks
    BY DEF Init, OwnTasks
  <2>2. QED BY <2>1, InitType, SafeInit DEF LogInv
<1>2. LogInv /\ [Next]_vars => LogInv'
  BY TypeStep, OwnStep, SafeStep DEF LogInv
<1>3. QED BY <1>1, <1>2

(* When the older leaders have stopped before a new one starts, and a       *)
(* leader's first request follows its first append: no two nodes ever       *)
(* commit different entries at an index.                                    *)
THEOREM CommittedLogsAgree ==
    ASSUME Handover, ~Eager
    PROVE  Spec => []CommittedAgree
<1>1. LogInv => CommittedAgree
  BY SafeConsequences
<1>2. QED BY <1>1, LogInvInductive, PTL DEF Spec

(* What a node calls committed is on a majority of the logs for ever.       *)
THEOREM CommittedIsOnMajority ==
    ASSUME Handover, ~Eager
    PROVE  Spec => []CommittedOnMajority
<1>1. LogInv => CommittedOnMajority
  BY SafeConsequences
<1>2. QED BY <1>1, LogInvInductive, PTL DEF Spec

(* An entry for which append_and_replicate returned Ok is never lost.       *)
THEOREM AnsweredEntriesAreKept ==
    ASSUME Handover, ~Eager
    PROVE  Spec => []AnsweredIsKept
<1>1. LogInv => AnsweredIsKept
  BY SafeConsequences
<1>2. QED BY <1>1, LogInvInductive, PTL DEF Spec

(* Up to its match index a follower holds what its leader holds.            *)
THEOREM MatchedIsReplicated ==
    ASSUME Handover, ~Eager
    PROVE  Spec => []MatchIsReplicated
<1>1. LogInv => MatchIsReplicated
  BY SafeConsequences
<1>2. QED BY <1>1, LogInvInductive, PTL DEF Spec

-----------------------------------------------------------------------------
(* The log implements a replicated state machine. *)

(* What a node calls committed it keeps, whatever it is sent.               *)
Stays == \A n \in Node : commit[n] <= commit'[n] /\ Agree(log[n], log'[n], commit[n])

LEMMA StaysSame ==
    ASSUME TypeInv, NEW L, NEW K, NEW kt, NEW W, SafeWith(L, K, kt, W),
           UNCHANGED <<log, commit>>
    PROVE  Stays
<1> SUFFICES ASSUME NEW n \in Node PROVE commit[n] <= commit'[n] /\ Agree(log[n], log'[n], commit[n])
  BY DEF Stays
<1>1. commit[n] \in Nat /\ commit[n] <= Len(log[n]) /\ log[n] \in Seq(Entry)
  BY CommittedFacts, TypeInvType
<1>2. QED BY <1>1, AgreeRefl

LEMMA StaysStep == LogInv /\ LogInv' /\ [Next]_vars => Stays
<1> SUFFICES ASSUME LogInv, LogInv', [Next]_vars PROVE Stays
  OBVIOUS
<1>1. PICK L \in [Term -> Seq(Entry)], K \in Seq(Entry), kt \in Term, W \in Term :
         SafeWith(L, K, kt, W)
  BY DEF LogInv, SafeInv
<1>2. TypeInv /\ TypeInv'
  BY DEF LogInv
<1>3. \A n \in Node : /\ commit[n] \in Nat /\ commit[n] <= Len(log[n]) /\ log[n] \in Seq(Entry)
                      /\ Len(log[n]) \in Nat /\ Agree(log[n], log[n], commit[n])
  BY <1>1, <1>2, CommittedFacts, TypeInvType, ConstantTypes, AgreeRefl
<1>4. ASSUME NEW n \in Node, LeaderAppend(n) PROVE Stays
  <2>1. /\ log \in [Node -> Seq(Entry)] /\ log' \in [Node -> Seq(Entry)] /\ commit' = commit
    BY <1>2, <1>4, TypeInvType, NextTypes DEF LeaderAppend
  <2>2. PICK e \in Entry : log' = [log EXCEPT ![n] = Append(@, e)]
    <3> DEFINE e0 == [term |-> term[n], index |-> Len(log[n]) + 1, data |-> n]
    <3>1. Len(log[n]) < MaxLog /\ log' = [log EXCEPT ![n] = Append(@, e0)]
      BY <1>4 DEF LeaderAppend
    <3>2. e0 \in Entry
      BY SMTT(20), <1>2, <1>3, <3>1, TypeInvType, ConstantTypes DEF Entry
    <3> HIDE DEF e0
    <3>3. QED BY <3>1, <3>2
  <2>3. \A m \in Node \ {n} : log'[m] = log[m]
    BY <2>1, <2>2
  <2>5. Agree(log[n], log'[n], commit[n])
    <3>1. Agree(log[n], Append(log[n], e), Len(log[n]))
      BY <1>3, AgreeAppend
    <3>2. QED BY <1>3, <2>1, <2>2, <3>1, AgreeLess, LenProperties, NextTypes, <1>2
  <2>6. \A m \in Node : commit[m] <= commit'[m]
    BY <1>3, <2>1
  <2>7. \A m \in Node : Agree(log[m], log'[m], commit[m])
    BY <1>3, <2>3, <2>5
  <2>8. QED BY <2>6, <2>7 DEF Stays
<1>5. ASSUME NEW n \in Node, LeaderStep(n) PROVE Stays
  <2>1. CASE LeaderCommit(n)
    <3>1. PICK i : i = drv[n].target
      OBVIOUS
    <3>2. log' = log /\ \A m \in Node : commit[m] <= commit'[m]
      BY <1>2, <2>1, <3>1, CommitEffects
    <3>3. QED BY <1>3, <3>2 DEF Stays
  <2>2. CASE ~LeaderCommit(n)
    <3>1. UNCHANGED <<log, commit>>
      BY <1>5, <2>2 DEF LeaderStep, Send, CallFails, AdoptTerm, FollowerAccepts,
         FollowerRefuses, ChooseCommit, EndRound, logVars
    <3>2. QED BY <1>1, <1>2, <3>1, StaysSame
  <2>3. QED BY <2>1, <2>2
<1>6. ASSUME NEW n \in Node, NEW q \in reqs, AppendEntries(n, q) PROVE Stays
  <2>1. PICK l : l = Splice(log[n], q.prevIndex, q.entries)
    OBVIOUS
  <2>2. /\ q.to = n /\ q.term >= term[n] /\ PrevMatches(n, q)
        /\ log' = [log EXCEPT ![n] = l]
        /\ commit' = [commit EXCEPT ![n] =
                        IF q.commit > commit[n] THEN Smaller(q.commit, Len(l)) ELSE commit[n]]
    BY <1>6, <2>1 DEF AppendEntries
  <2>3. /\ l \in Seq(Entry) /\ Agree(l, L[q.term], LastOf(q)) /\ LastOf(q) \in Nat
        /\ \A c \in Nat : Agree(log[n], L[q.term], c) => Agree(l, L[q.term], c)
    BY <1>1, <1>2, <2>1, <2>2, FollowerLog
  <2>4. /\ q.term \in Term /\ RequestOK(L, K, W, q) /\ q.commit \in Nat /\ Len(l) \in Nat
        /\ L[q.term] \in Seq(Entry) /\ Len(L[q.term]) \in Nat /\ Len(K) \in Nat
    <3>1. q.term \in Term /\ RequestOK(L, K, W, q) /\ q.commit \in Nat /\ Len(l) \in Nat
      <4>1. q.commit \in Index
        BY <1>2, <2>2, AppendFacts
      <4>2. QED BY <1>1, <1>2, <2>3, <4>1, RequestKnown, ConstantTypes, LenProperties
    <3>2. L[q.term] \in Seq(Entry) /\ Len(L[q.term]) \in Nat /\ Len(K) \in Nat
      BY <1>1, <3>1, LenProperties
    <3>3. QED BY <3>1, <3>2
  <2>5. Agree(K, log[n], commit[n]) /\ Agree(K, L[q.term], commit[n])
    BY <1>1, <2>2, <2>4 DEF SafeWith, CommitOK
  <2>6. Agree(log[n], l, commit[n])
    <3>1. Agree(log[n], L[q.term], commit[n])
      BY <1>3, <2>4, <2>5, AgreeSym, AgreeTrans
    <3>2. Agree(l, L[q.term], commit[n])
      BY <1>3, <2>3, <3>1
    <3>3. QED BY <1>3, <2>4, <3>1, <3>2, AgreeSym, AgreeTrans
  <2>7. commit[n] <= commit'[n]
    <3>1. q.commit <= Len(l)
      BY <2>3, <2>4 DEF RequestOK, Agree
    <3>2. QED BY <1>2, <1>3, <2>2, <2>4, <3>1, TypeInvType DEF Smaller
  <2>8. \A m \in Node \ {n} : log'[m] = log[m] /\ commit'[m] = commit[m]
    BY <1>2, <2>2, TypeInvType
  <2>9. log'[n] = l
    BY <1>2, <2>2, TypeInvType
  <2>10. QED BY <1>3, <2>6, <2>7, <2>8, <2>9 DEF Stays
<1>7. ASSUME \A n \in Node : /\ ~LeaderAppend(n) /\ ~LeaderStep(n)
                             /\ \A q \in reqs : ~AppendEntries(n, q)
      PROVE Stays
  <2>1. UNCHANGED <<log, commit>>
    BY <1>7 DEF Next, LoseElection, TakeLead, Vote, Heartbeat, ApplyStep, ApplyEntry, ApplyFails,
       RefuseStale, RefuseMismatch, logVars, vars
  <2>2. QED BY <1>1, <1>2, <2>1, StaysSame
<1>8. QED BY <1>4, <1>5, <1>6, <1>7

(* An applier that was given a, and has the tasks of T left, goes through   *)
(* the first c entries of l.                                                *)
Replays(a, l, c, T) ==
    /\ Len(a) <= c /\ Agree(a, l, Len(a))
    /\ T = {} => Len(a) = c
    /\ \A k \in T : /\ Len(a) + Len(k.todo) = c
                    /\ \A i \in 1 .. Len(k.todo) : k.todo[i] = l[Len(a) + i]

(* A node that handles one request at a time has one task at most, and a    *)
(* leader no other than its own.                                            *)
OneTask(n) ==
    /\ \A j, k \in tasks[n] : j = k
    /\ drv[n].pc # "off" => \A k \in tasks[n] : k.call = NoCall

ReplayInv ==
    \A n \in Node : /\ OneTask(n) /\ lastApplied[n] = commit[n]
                    /\ Replays(applied[n], log[n], commit[n], tasks[n])

LEMMA ReplaysGrow ==
    ASSUME NEW a \in Seq(Entry), NEW l \in Seq(Entry), NEW m \in Seq(Entry), NEW c \in Nat,
           NEW T \in SUBSET Task, Replays(a, l, c, T), Agree(l, m, c)
    PROVE  Replays(a, m, c, T)
<1>1. Len(a) \in Nat /\ Len(l) \in Nat /\ Len(m) \in Nat /\ Len(a) <= c
  BY LenProperties DEF Replays
<1>2. Agree(a, m, Len(a))
  BY <1>1, AgreeTrans DEF Replays
<1>3. ASSUME NEW k \in T, NEW i \in 1 .. Len(k.todo) PROVE k.todo[i] = m[Len(a) + i]
  <2>1. Len(k.todo) \in Nat
    BY LenProperties DEF Task
  <2>2. Len(a) + Len(k.todo) = c /\ k.todo[i] = l[Len(a) + i]
    BY DEF Replays
  <2>3. Len(a) + i \in 1 .. c
    BY <1>1, <2>1, <2>2
  <2>4. QED BY <2>2, <2>3 DEF Agree
<1>4. QED BY <1>1, <1>2, <1>3 DEF Replays

LEMMA ReplayTypes ==
    ASSUME TypeInv, NEW n \in Node
    PROVE  /\ applied[n] \in Seq(Entry) /\ log[n] \in Seq(Entry) /\ commit[n] \in Nat
           /\ lastApplied[n] \in Nat /\ tasks[n] \in SUBSET Task
           /\ Len(applied[n]) \in Nat /\ Len(log[n]) \in Nat /\ drv[n] \in Driver
<1>1. applied[n] \in Seq(Entry) /\ log[n] \in Seq(Entry)
  BY TypeInvType
<1>2. QED BY <1>1, TypeInvType, ConstantTypes, LenProperties

(* A step in which nothing is committed or applied.                         *)
LEMMA ReplayCalm ==
    ASSUME TypeInv, TypeInv', Stays, ReplayInv,
           UNCHANGED <<commit, lastApplied, applied, tasks>>,
           \A m \in Node : drv'[m].pc # "off" => drv[m].pc # "off" \/ tasks[m] = {}
    PROVE  ReplayInv'
<1> SUFFICES ASSUME NEW n \in Node
             PROVE  /\ OneTask(n)' /\ lastApplied'[n] = commit'[n]
                    /\ Replays(applied'[n], log'[n], commit'[n], tasks'[n])
  BY DEF ReplayInv
<1>1. OneTask(n)'
  BY DEF ReplayInv, OneTask
<1>2. Replays(applied[n], log'[n], commit[n], tasks[n])
  <2>1. log'[n] \in Seq(Entry) /\ Agree(log[n], log'[n], commit[n])
    BY NextTypes DEF Stays
  <2>2. QED BY <2>1, ReplayTypes, ReplaysGrow DEF ReplayInv
<1>3. QED BY <1>1, <1>2 DEF ReplayInv

(* New entries are taken for application by a node that applied all others. *)
LEMMA ReplayTaken ==
    ASSUME NEW a \in Seq(Entry), NEW l \in Seq(Entry), Indexed(l), NEW b \in Index, NEW c \in Index,
           b <= c, c <= Len(l), Len(a) = b, Agree(a, l, b),
           NEW todo, todo = Unapplied(l, b, c), NEW T,
           IF todo = <<>> THEN T = {} ELSE \E k : k.todo = todo /\ T = {k}
    PROVE  Replays(a, l, c, T)
<1>1. /\ todo \in Seq(Entry) /\ Len(todo) = IF b < c THEN c - b ELSE 0
      /\ \A i \in 1 .. Len(todo) : todo[i] = l[b + i]
  BY UnappliedFacts
<1>2. b \in Nat /\ c \in Nat
  BY ConstantTypes
<1>3. todo = <<>> => b = c
  BY <1>1, <1>2, EmptySeq
<1>4. Len(todo) = c - b
  BY <1>1, <1>2
<1>5. \A k \in T : k.todo = todo
  OBVIOUS
<1>6. T = {} => todo = <<>>
  OBVIOUS
<1>7. Len(a) <= c /\ Agree(a, l, Len(a)) /\ (T = {} => Len(a) = c)
  BY <1>2, <1>3, <1>6
<1>8. ASSUME NEW k \in T
      PROVE  /\ Len(a) + Len(k.todo) = c
             /\ \A i \in 1 .. Len(k.todo) : k.todo[i] = l[Len(a) + i]
  <2>1. k.todo = todo
    BY <1>5
  <2>2. Len(a) + Len(todo) = c
    BY <1>2, <1>4
  <2>3. QED BY <1>1, <2>1, <2>2
<1>9. QED BY <1>7, <1>8 DEF Replays

LEMMA ReplayCommit ==
    ASSUME LogInv, LogInv', Stays, ReplayInv, NEW n \in Node, LeaderCommit(n)
    PROVE  ReplayInv'
<1> DEFINE i == drv[n].target
           todo == Unapplied(log[n], lastApplied[n], i)
           k0 == [todo |-> todo, call |-> NoCall, resp |-> NoCall]
<1>0. TypeInv /\ TypeInv' /\ OwnTasks
  BY DEF LogInv
<1>1. /\ drv[n].pc = "commit" /\ i \in Index /\ i \in Nat /\ drv[n] \in Driver
      /\ UNCHANGED <<log, applied>>
  BY <1>0, DriverParts, ConstantTypes DEF LeaderCommit
<1>2. tasks[n] = {}
  <2>1. \A k \in tasks[n] : k.call = NoCall
    BY <1>1 DEF ReplayInv, OneTask
  <2>2. QED BY <1>0, <1>1, <2>1 DEF OwnTasks
<1>3. /\ lastApplied[n] = commit[n] /\ commit[n] \in Index /\ commit[n] \in Nat
      /\ Len(applied[n]) = commit[n] /\ Agree(applied[n], log[n], commit[n])
      /\ log[n] \in Seq(Entry) /\ applied[n] \in Seq(Entry) /\ Indexed(log[n])
      /\ Len(log[n]) \in Nat
  BY <1>0, <1>2, ReplayTypes, TypeInvType DEF ReplayInv, Replays, TypeInv
<1>4. /\ drv'[n].pc # "off" /\ \A m \in Node \ {n} : drv'[m] = drv[m] /\ tasks'[m] = tasks[m]
      /\ \A m \in Node \ {n} : commit'[m] = commit[m] /\ lastApplied'[m] = lastApplied[m]
  <2>1. \/ drv' = [drv EXCEPT ![n].pc = "apply"]
        \/ drv' = [drv EXCEPT ![n].pc = "end"]
    BY DEF LeaderCommit
  <2>2. drv'[n].pc # "off" /\ \A m \in Node \ {n} : drv'[m] = drv[m]
    BY SMTT(20), <1>0, <1>1, <2>1, TypeInvType DEF Driver
  <2>3. UNCHANGED tasks \/ tasks' = [tasks EXCEPT ![n] = @ \cup {k0}]
    BY DEF LeaderCommit
  <2>4. \A m \in Node \ {n} : tasks'[m] = tasks[m]
    BY <1>0, <2>3, TypeInvType
  <2>5. \A m \in Node \ {n} : commit'[m] = commit[m] /\ lastApplied'[m] = lastApplied[m]
    BY <1>0, TypeInvType DEF LeaderCommit
  <2>6. QED BY <2>2, <2>4, <2>5
<1>5. CASE ~Committable(n, i)
  <2>1. UNCHANGED <<commit, lastApplied, tasks>>
    BY <1>5 DEF LeaderCommit
  <2>2. \A m \in Node : drv'[m].pc # "off" => drv[m].pc # "off" \/ tasks[m] = {}
    BY <1>2, <1>4
  <2>3. QED BY <1>0, <1>1, <2>1, <2>2, ReplayCalm
<1>6. CASE Committable(n, i)
  <2>1. commit[n] < i /\ i <= Len(log[n])
    BY <1>1, <1>3, <1>6 DEF Committable, Knows
  <2>2. commit'[n] = i /\ lastApplied'[n] = i
    <3>1. commit'[n] = i /\ lastApplied'[n] = Taken(lastApplied[n], i)
      BY <1>0, <1>6, TypeInvType DEF LeaderCommit
    <3>2. QED BY <1>1, <1>3, <2>1, <3>1 DEF Taken, Larger
  <2>3. /\ IF todo = <<>> THEN tasks'[n] = {} ELSE tasks'[n] = {k0}
    <3>1. IF todo = <<>> THEN tasks' = tasks ELSE tasks' = [tasks EXCEPT ![n] = @ \cup {k0}]
      BY <1>6 DEF LeaderCommit
    <3> HIDE DEF k0, todo
    <3>2. QED BY <1>0, <1>2, <3>1, TypeInvType
  <2>4. k0.todo = todo /\ k0.call = NoCall
    OBVIOUS
  <2>5. todo = Unapplied(log[n], commit[n], i)
    BY <1>3
  <2> HIDE DEF k0, todo
  <2>6. OneTask(n)'
    BY <2>3, <2>4 DEF OneTask
  <2>7. Replays(applied[n], log[n], i, tasks'[n])
    <3>1. IF todo = <<>> THEN tasks'[n] = {} ELSE \E k : k.todo = todo /\ tasks'[n] = {k}
      BY <2>3, <2>4
    <3>2. commit[n] <= i
      BY <1>1, <1>3, <2>1
    <3>3. QED BY <1>1, <1>3, <2>1, <2>5, <3>1, <3>2, ReplayTaken
  <2>8. ASSUME NEW m \in Node \ {n}
        PROVE  /\ OneTask(m)' /\ lastApplied'[m] = commit'[m]
               /\ Replays(applied'[m], log'[m], commit'[m], tasks'[m])
    BY <1>1, <1>4 DEF ReplayInv, OneTask
  <2>9. ASSUME NEW m \in Node
        PROVE  /\ OneTask(m)' /\ lastApplied'[m] = commit'[m]
               /\ Replays(applied'[m], log'[m], commit'[m], tasks'[m])
    BY <1>1, <2>2, <2>6, <2>7, <2>8
  <2>10. QED BY <2>9 DEF ReplayInv
<1>7. QED BY <1>5, <1>6

LEMMA ReplayAppend ==
    ASSUME ~Concurrent, LogInv, LogInv', Stays, ReplayInv, NEW n \in Node, NEW q \in reqs,
           AppendEntries(n, q)
    PROVE  ReplayInv'
<1>1. PICK L \in [Term -> Seq(Entry)], K \in Seq(Entry), kt \in Term, W \in Term :
         SafeWith(L, K, kt, W)
  BY DEF LogInv, SafeInv
<1>2. PICK L1 \in [Term -> Seq(Entry)], K1 \in Seq(Entry), kt1 \in Term, W1 \in Term :
         SafeWith(L1, K1, kt1, W1)'
  BY DEF LogInv, SafeInv
<1>3. TypeInv /\ TypeInv' /\ q # NoCall
  BY TypeInvType, NoCallAssumption DEF LogInv
<1> DEFINE l0 == Splice(log[n], q.prevIndex, q.entries)
           c0 == IF q.commit > commit[n] THEN Smaller(q.commit, Len(l0)) ELSE commit[n]
           todo0 == Unapplied(l0, lastApplied[n], c0)
           r0 == [term |-> q.term, success |-> TRUE, match |-> Len(l0)]
           k0 == [todo |-> todo0, call |-> q, resp |-> r0]
<1>4. /\ q.to = n /\ q.term >= term[n] /\ ~Busy(n)
      /\ log' = [log EXCEPT ![n] = l0] /\ commit' = [commit EXCEPT ![n] = c0]
      /\ lastApplied' = [lastApplied EXCEPT ![n] = Taken(@, Smaller(c0, Len(l0)))]
      /\ IF todo0 = <<>> THEN UNCHANGED tasks /\ Reply(q, r0)
         ELSE tasks' = [tasks EXCEPT ![n] = @ \cup {k0}] /\ UNCHANGED drv
      /\ UNCHANGED applied
  BY DEF AppendEntries
<1>5. PICK l, c, todo, r, k : l = l0 /\ c = c0 /\ todo = todo0 /\ r = r0 /\ k = k0
  OBVIOUS
<1>6. k.todo = todo /\ k.call = q
  BY <1>5
<1>7. todo = Unapplied(l, lastApplied[n], c)
  BY <1>5
<1> HIDE DEF l0, c0, todo0, r0, k0
<1>8. /\ tasks[n] = {} /\ drv[n].pc = "off"
      /\ tasks \in [Node -> SUBSET Task]
  BY <1>1, <1>3, <1>4, LeaderRefuses, TypeInvType DEF Busy
<1>9. /\ log'[n] = l /\ commit'[n] = c /\ lastApplied'[n] = Taken(lastApplied[n], Smaller(c, Len(l)))
      /\ \A m \in Node \ {n} : /\ log'[m] = log[m] /\ commit'[m] = commit[m]
                               /\ lastApplied'[m] = lastApplied[m]
  BY <1>3, <1>4, <1>5, TypeInvType
<1>10. /\ l \in Seq(Entry) /\ Indexed(l) /\ c \in Index /\ c \in Nat /\ Len(l) \in Nat
  <2>1. log'[n] \in Seq(Entry) /\ commit'[n] \in Index
    BY <1>3, NextTypes
  <2>2. Indexed(log'[n])
    BY <1>3 DEF TypeInv, Indexed
  <2>3. QED BY <1>9, <2>1, <2>2, LenProperties, ConstantTypes
<1>11. c <= Len(l)
  <2>1. CommitOK(L1, K1, n)'
    BY <1>2 DEF SafeWith
  <2>2. QED BY <1>9, <2>1 DEF CommitOK, Agree
<1>12. /\ lastApplied[n] = commit[n] /\ commit[n] \in Index /\ commit[n] \in Nat
       /\ Len(applied[n]) = commit[n] /\ Agree(applied[n], log[n], commit[n])
       /\ log[n] \in Seq(Entry) /\ applied[n] \in Seq(Entry) /\ Len(log[n]) \in Nat
  BY <1>3, <1>8, ReplayTypes, TypeInvType DEF ReplayInv, Replays
<1>13. commit[n] <= c /\ Agree(log[n], l, commit[n])
  BY <1>9 DEF Stays
<1>14. Agree(applied[n], l, commit[n])
  BY <1>10, <1>12, <1>13, AgreeTrans
<1>15. lastApplied'[n] = c
  BY <1>9, <1>10, <1>11, <1>12, <1>13 DEF Taken, Larger, Smaller
<1>16. /\ IF todo = <<>> THEN tasks'[n] = {} ELSE tasks'[n] = {k} /\ drv' = drv
       /\ \A m \in Node \ {n} : tasks'[m] = tasks[m]
  BY <1>4, <1>5, <1>8
<1>17. \A m \in Node : drv'[m].pc = drv[m].pc
  <2>1. drv' = drv \/ Reply(q, r)
    BY <1>4, <1>5
  <2>2. QED BY <1>3, <2>1, OwnReply
<1>18. Replays(applied[n], l, c, tasks'[n])
  <2>1. IF todo = <<>> THEN tasks'[n] = {} ELSE \E j : j.todo = todo /\ tasks'[n] = {j}
    BY <1>6, <1>16
  <2>2. todo = Unapplied(l, commit[n], c)
    BY <1>7, <1>12
  <2>3. QED BY <1>10, <1>11, <1>12, <1>13, <1>14, <2>1, <2>2, ReplayTaken
<1>19. \A m \in Node : OneTask(m)'
  <2>1. OneTask(n)'
    BY <1>8, <1>16, <1>17 DEF OneTask
  <2>2. \A m \in Node \ {n} : OneTask(m)'
    BY ZenonT(30), <1>16, <1>17 DEF OneTask, ReplayInv
  <2>3. QED BY <2>1, <2>2
<1>20. ASSUME NEW m \in Node
       PROVE  lastApplied'[m] = commit'[m] /\ Replays(applied'[m], log'[m], commit'[m], tasks'[m])
  <2>1. CASE m = n
    BY <1>4, <1>9, <1>15, <1>18, <2>1
  <2>2. CASE m # n
    BY <1>4, <1>9, <1>16, <2>2 DEF ReplayInv
  <2>3. QED BY <2>1, <2>2
<1>21. QED BY <1>19, <1>20 DEF ReplayInv

(* The state machine is given the next entry that is committed.             *)
AppliesNext(n, k) ==
    /\ Len(applied[n]) < commit[n] /\ Head(k.todo) = log[n][Len(applied[n]) + 1]
    /\ applied' = [applied EXCEPT ![n] = Append(@, Head(k.todo))]

LEMMA ReplayApply ==
    ASSUME LogInv, LogInv', ReplayInv, NEW n \in Node, NEW k \in tasks[n], ApplyEntry(n, k)
    PROVE  ReplayInv' /\ AppliesNext(n, k)
<1> DEFINE rest == Tail(k.todo)
           j0 == [k EXCEPT !.todo = rest]
           e == Head(k.todo)
           a == Append(applied[n], e)
<1>1. TypeInv /\ TypeInv'
  BY DEF LogInv
<1>2. /\ applied' = [applied EXCEPT ![n] = Append(@, e)]
      /\ tasks' = [tasks EXCEPT ![n] = (@ \ {k}) \cup (IF rest = <<>> THEN {} ELSE {j0})]
      /\ IF rest = <<>> THEN Finish(n, k) ELSE UNCHANGED drv
      /\ UNCHANGED <<log, commit, lastApplied>>
  BY DEF ApplyEntry, logVars
<1>3. /\ k \in Task /\ Len(k.todo) \in Nat \ {0} /\ e = k.todo[1] /\ e \in Entry
      /\ rest \in Seq(Entry) /\ Len(rest) = Len(k.todo) - 1
      /\ \A i \in 1 .. Len(k.todo) - 1 : rest[i] = k.todo[i + 1]
  BY <1>1, RestOfTask
<1>4. j0.todo = rest /\ j0.call = k.call
  BY <1>3 DEF Task
<1>5. /\ tasks \in [Node -> SUBSET Task] /\ applied \in [Node -> Seq(Entry)]
      /\ applied[n] \in Seq(Entry) /\ Len(applied[n]) \in Nat /\ commit[n] \in Nat
      /\ log[n] \in Seq(Entry) /\ Len(log[n]) \in Nat
  BY <1>1, TypeInvType, ReplayTypes
<1> HIDE DEF rest, j0, e
<1>6. tasks[n] = {k} /\ (drv[n].pc # "off" => k.call = NoCall)
  BY DEF ReplayInv, OneTask
<1>7. /\ Len(applied[n]) + Len(k.todo) = commit[n] /\ Agree(applied[n], log[n], Len(applied[n]))
      /\ \A i \in 1 .. Len(k.todo) : k.todo[i] = log[n][Len(applied[n]) + i]
      /\ commit[n] <= Len(log[n])
  <2>1. PICK L \in [Term -> Seq(Entry)], K \in Seq(Entry), kt \in Term, W \in Term :
           SafeWith(L, K, kt, W)
    BY DEF LogInv, SafeInv
  <2>2. commit[n] <= Len(log[n])
    BY <1>1, <2>1, CommittedFacts
  <2>3. QED BY <2>2 DEF ReplayInv, Replays
<1>8. Len(applied[n]) < commit[n] /\ e = log[n][Len(applied[n]) + 1]
  <2>1. Len(applied[n]) < commit[n]
    BY <1>3, <1>5, <1>7
  <2>2. 1 \in 1 .. Len(k.todo)
    BY <1>3
  <2>3. QED BY <1>3, <1>7, <2>1, <2>2
<1>9. /\ a \in Seq(Entry) /\ Len(a) = Len(applied[n]) + 1
      /\ \A i \in 1 .. Len(applied[n]) : a[i] = applied[n][i]
      /\ a[Len(applied[n]) + 1] = e
  BY <1>3, <1>5, AppendProperties
<1>10. /\ applied'[n] = a /\ tasks'[n] = IF rest = <<>> THEN {} ELSE {j0}
       /\ \A m \in Node \ {n} : applied'[m] = applied[m] /\ tasks'[m] = tasks[m]
  BY <1>2, <1>5, <1>6
<1> HIDE DEF a
<1>11. Agree(a, log[n], Len(a))
  <2>1. Len(a) <= Len(log[n])
    BY <1>5, <1>7, <1>8, <1>9
  <2>2. ASSUME NEW i \in 1 .. Len(a) PROVE a[i] = log[n][i]
    <3>1. i \in 1 .. Len(applied[n]) \/ i = Len(applied[n]) + 1
      BY <1>5, <1>9
    <3>2. QED BY <1>7, <1>8, <1>9, <3>1 DEF Agree
  <2>3. QED BY <1>5, <1>9, <2>1, <2>2 DEF Agree
<1>12. rest = <<>> => Len(a) = commit[n]
  <2>1. rest = <<>> => Len(rest) = 0
    BY <1>3, EmptySeq
  <2>2. QED BY SMTT(20), <2>1, <1>3, <1>5, <1>7, <1>9
<1>13. Len(a) + Len(rest) = commit[n] /\ Len(a) <= commit[n]
  <2>1. Len(a) = Len(applied[n]) + 1 /\ Len(rest) = Len(k.todo) - 1
    BY <1>3, <1>9
  <2>2. Len(applied[n]) + Len(k.todo) = commit[n] /\ Len(applied[n]) < commit[n]
    BY <1>7, <1>8
  <2>3. PICK x \in Nat, y \in Nat, c \in Nat :
           x = Len(applied[n]) /\ y = Len(k.todo) /\ c = commit[n]
    BY <1>3, <1>5
  <2>4. x + y = c /\ x < c /\ Len(a) = x + 1 /\ Len(rest) = y - 1
    BY <2>1, <2>2, <2>3
  <2>5. x + y = c /\ x < c
    BY <2>4
  <2>6. (x + 1) + (y - 1) = c /\ x + 1 <= c
    BY <2>5
  <2>7. QED BY <2>3, <2>4, <2>6
<1>14. \A i \in 1 .. Len(rest) : rest[i] = log[n][Len(a) + i]
  <2> SUFFICES ASSUME NEW i \in 1 .. Len(rest) PROVE rest[i] = log[n][Len(a) + i]
    OBVIOUS
  <2>1. i + 1 \in 1 .. Len(k.todo) /\ rest[i] = k.todo[i + 1]
    BY <1>3
  <2>2. Len(applied[n]) + (i + 1) = Len(a) + i
    BY <1>5, <1>9
  <2>3. QED BY <1>7, <2>1, <2>2
<1>15. Replays(applied'[n], log'[n], commit'[n], tasks'[n])
  <2>1. \A j \in tasks'[n] : j.todo = rest
    BY <1>4, <1>10
  <2>2. tasks'[n] = {} => rest = <<>>
    BY <1>10
  <2>3. log' = log /\ commit' = commit /\ applied'[n] = a
    BY <1>2, <1>10
  <2>4. QED BY <1>11, <1>12, <1>13, <1>14, <2>1, <2>2, <2>3 DEF Replays
<1>16. \A m \in Node : drv'[m].pc = drv[m].pc \/ (m = n /\ drv[n].pc = "apply")
                                             \/ (m = n /\ tasks'[n] = {})
  <2>1. CASE drv' = drv
    BY <2>1
  <2>2. CASE drv' # drv /\ k.call = NoCall
    <3>1. drv' = [drv EXCEPT ![n].pc = "end"] /\ tasks'[n] = {}
      BY <1>2, <1>10, <2>2 DEF Finish
    <3>2. QED BY <1>1, <3>1, TypeInvType DEF Driver
  <2>3. CASE drv' # drv /\ k.call # NoCall
    <3>1. Reply(k.call, k.resp)
      BY <1>2, <2>3 DEF Finish
    <3>2. QED BY <1>1, <3>1, OwnReply
  <2>4. QED BY <2>1, <2>2, <2>3
<1>17. \A m \in Node : OneTask(m)'
  <2>1. OneTask(n)'
    BY <1>4, <1>6, <1>10, <1>16 DEF OneTask
  <2>2. \A m \in Node \ {n} : OneTask(m)'
    BY <1>10, <1>16 DEF OneTask, ReplayInv
  <2>3. QED BY <2>1, <2>2
<1>18. ASSUME NEW m \in Node
       PROVE  lastApplied'[m] = commit'[m] /\ Replays(applied'[m], log'[m], commit'[m], tasks'[m])
  BY <1>2, <1>10, <1>15 DEF ReplayInv
<1>19. ReplayInv'
  BY <1>17, <1>18 DEF ReplayInv
<1>20. QED BY <1>2, <1>8, <1>19 DEF AppliesNext, e

LEMMA ReplayStep ==
    ASSUME ~Concurrent, ~ApplyErrors
    PROVE  LogInv /\ LogInv' /\ Stays /\ ReplayInv /\ [Next]_vars => ReplayInv'
<1> SUFFICES ASSUME LogInv, LogInv', Stays, ReplayInv, [Next]_vars PROVE ReplayInv'
  OBVIOUS
<1>0. TypeInv /\ TypeInv' /\ drv \in [Node -> Driver]
  BY TypeInvType DEF LogInv
<1> DEFINE Calm == /\ UNCHANGED <<commit, lastApplied, applied, tasks>>
                   /\ \A m \in Node : drv'[m].pc # "off" => drv[m].pc # "off" \/ tasks[m] = {}
<1>1. Calm => ReplayInv'
  BY <1>0, ReplayCalm
<1>2. CASE LoseElection
  <2>1. PICK Q \in SUBSET Node : Vote(Q, Q) /\ drv' = Without(drv, Q, Off)
    BY <1>2 DEF LoseElection
  <2>2. \A m \in Node : drv'[m].pc # "off" => drv[m].pc # "off"
    BY <2>1 DEF Without, Off
  <2>3. QED BY <1>1, <2>1, <2>2 DEF Vote
<1>3. ASSUME NEW n \in Node, TakeLead(n) PROVE ReplayInv'
  <2>1. PICK Q \in SUBSET Node, D \in SUBSET Node :
           /\ Vote(Q, D) /\ tasks[n] = {}
           /\ drv' = [Without(drv, D, Off) EXCEPT ![n] = [Off EXCEPT !.pc = "idle"]]
    <3>1. PICK Q \in SUBSET Node : TakeLead(n)!(Q)
      BY <1>3 DEF TakeLead
    <3> DEFINE D == IF Handover THEN Node ELSE Q
    <3>2. D \in SUBSET Node
      BY <3>1
    <3>3. QED BY <3>1, <3>2
  <2>2. \A m \in Node \ {n} : drv'[m].pc # "off" => drv[m].pc # "off"
    BY <2>1 DEF Without, Off
  <2>3. QED BY <1>1, <2>1, <2>2 DEF Vote
<1>4. ASSUME NEW n \in Node, LeaderAppend(n) \/ Heartbeat(n) PROVE ReplayInv'
  <2>1. /\ drv[n].pc # "off" /\ UNCHANGED <<commit, lastApplied, applied, tasks>>
        /\ \A m \in Node \ {n} : drv'[m] = drv[m]
    BY <1>0, <1>4 DEF LeaderAppend, Heartbeat, Leads, logVars
  <2>2. QED BY <1>1, <2>1
<1>5. ASSUME NEW n \in Node, LeaderStep(n) PROVE ReplayInv'
  <2>1. CASE LeaderCommit(n)
    BY <2>1, ReplayCommit
  <2>2. CASE ~LeaderCommit(n)
    <3>1. /\ drv[n].pc # "off" /\ UNCHANGED <<commit, lastApplied, applied, tasks>>
          /\ \A m \in Node \ {n} : drv'[m] = drv[m]
      BY <1>0, <1>5, <2>2 DEF LeaderStep, Send, CallFails, AdoptTerm, FollowerAccepts,
         FollowerRefuses, ChooseCommit, EndRound, Waits, Answers, NextFollower, logVars
    <3>2. QED BY <1>1, <3>1
  <2>3. QED BY <2>1, <2>2
<1>6. ASSUME NEW n \in Node, NEW q \in reqs, RefuseStale(n, q) \/ RefuseMismatch(n, q)
      PROVE  ReplayInv'
  <2>1. UNCHANGED <<commit, lastApplied, applied, tasks>> /\ \E r : Reply(q, r)
    BY <1>6 DEF RefuseStale, RefuseMismatch, logVars
  <2>2. \A m \in Node : drv'[m].pc = drv[m].pc
    BY <1>0, <2>1, OwnReply
  <2>3. QED BY <1>1, <2>1, <2>2
<1>7. ASSUME NEW n \in Node, NEW q \in reqs, AppendEntries(n, q) PROVE ReplayInv'
  BY <1>7, ReplayAppend
<1>8. ASSUME NEW n \in Node, NEW k \in tasks[n], ApplyEntry(n, k) \/ ApplyFails(n, k)
      PROVE  ReplayInv'
  BY <1>8, ReplayApply DEF ApplyFails
<1>9. CASE UNCHANGED vars
  BY <1>1, <1>9 DEF vars, logVars, leaderVars
<1>10. QED BY <1>2, <1>3, <1>4, <1>5, <1>6, <1>7, <1>8, <1>9 DEF Next, ApplyStep

(* What is chosen stands in every log as far as it is committed there.      *)
ChosenShape ==
    /\ Chosen \in Seq(Entry)
    /\ \A m \in Node : Agree(Chosen, log[m], commit[m])
    /\ \E n \in Node : /\ Len(Chosen) = commit[n] /\ commit[n] <= Len(log[n])
                       /\ Chosen = SubSeq(log[n], 1, commit[n])

LEMMA ChosenFacts ==
    ASSUME Node # {}
    PROVE  LogInv => ChosenShape
<1> SUFFICES ASSUME LogInv PROVE ChosenShape
  OBVIOUS
<1>0. TypeInv
  BY DEF LogInv
<1>1. PICK L \in [Term -> Seq(Entry)], K \in Seq(Entry), kt \in Term, W \in Term :
         SafeWith(L, K, kt, W)
  BY DEF LogInv, SafeInv
<1>2. commit \in [Node -> Index] /\ MaxLog \in Nat /\ \A n \in Node : commit[n] \in Nat
  BY <1>0, TypeInvType, ConstantTypes
<1> DEFINE Most(n) == \A k \in Node : commit[k] <= commit[n]
<1>3. \E n \in Node : Most(n)
  <2> DEFINE S == {commit[n] : n \in Node}
  <2>1. S \in SUBSET (0 .. MaxLog) /\ S # {}
    BY <1>2 DEF Index
  <2>2. Max(S) \in S /\ \A x \in S : Max(S) >= x
    <3> HIDE DEF S
    <3>1. QED BY <1>2, <2>1, MaxIsGreatest
  <2>3. PICK n \in Node : commit[n] = Max(S)
    BY <2>2
  <2>4. \A k \in Node : commit[n] >= commit[k]
    BY <2>2, <2>3
  <2>5. QED BY <1>2, <2>4
<1>4. PICK n \in Node : Chosen = Committed(n) /\ Most(n)
  <2> DEFINE b == CHOOSE m \in Node : Most(m)
  <2>1. b \in Node /\ Most(b)
    BY <1>3
  <2>2. Chosen = Committed(b)
    BY DEF Chosen
  <2> HIDE DEF b
  <2>3. QED BY <2>1, <2>2
<1>5. /\ commit[n] \in Nat /\ commit[n] <= Len(log[n]) /\ Chosen = SubSeq(log[n], 1, commit[n])
      /\ Chosen \in Seq(Entry) /\ Len(Chosen) = commit[n] /\ Agree(Chosen, K, commit[n])
  BY <1>0, <1>1, <1>4, CommittedFacts
<1>6. ASSUME NEW m \in Node PROVE Agree(Chosen, log[m], commit[m])
  <2>1. /\ commit[m] <= commit[n] /\ commit[m] \in Nat /\ Len(K) \in Nat
        /\ Len(log[m]) \in Nat /\ Agree(K, log[m], commit[m])
    BY <1>0, <1>1, <1>2, <1>4, ReplayTypes, GhostTypes DEF SafeWith, CommitOK
  <2>2. QED BY <1>5, <2>1, AgreeTrans
<1>7. QED BY <1>5, <1>6 DEF ChosenShape

LEMMA ChosenGrows ==
    ASSUME LogInv, LogInv', Stays, ChosenShape, ChosenShape'
    PROVE  /\ IsPrefix(Chosen, Chosen')
           /\ UNCHANGED <<log, commit>> => Chosen' = Chosen
<1>0. TypeInv /\ TypeInv'
  BY DEF LogInv
<1>1. PICK s \in Seq(Entry), t \in Seq(Entry) : s = Chosen /\ t = Chosen'
  BY DEF ChosenShape
<1>2. PICK n \in Node : /\ Len(s) = commit[n] /\ commit[n] <= Len(log[n])
                        /\ s = SubSeq(log[n], 1, commit[n])
  BY <1>1 DEF ChosenShape
<1>3. /\ commit[n] \in Nat /\ log[n] \in Seq(Entry) /\ log'[n] \in Seq(Entry)
      /\ Len(log[n]) \in Nat /\ Len(log'[n]) \in Nat /\ Len(s) \in Nat /\ Len(t) \in Nat
      /\ commit'[n] \in Nat
  BY <1>0, <1>1, ReplayTypes, NextTypes, LenProperties, ConstantTypes
<1>4. Agree(log[n], t, commit[n])
  <2>1. Agree(log[n], log'[n], commit[n]) /\ commit[n] <= commit'[n]
    BY DEF Stays
  <2>2. Agree(t, log'[n], commit'[n])
    BY <1>1 DEF ChosenShape
  <2>3. Agree(log'[n], t, commit'[n])
    BY <2>2, AgreeSym
  <2>4. QED BY <1>3, <2>1, <2>3, AgreeTrans
<1>5. IsPrefix(s, t)
  BY <1>2, <1>3, <1>4, FrontIsPrefix
<1>6. ASSUME UNCHANGED <<log, commit>> PROVE t = s
  <2>1. PICK m \in Node : Len(t) = commit'[m] /\ t = SubSeq(log'[m], 1, commit'[m])
    BY <1>1 DEF ChosenShape
  <2>2. Len(t) = commit[m]
    BY <1>6, <2>1
  <2>3. Agree(s, log[m], commit[m]) /\ Agree(t, log'[m], commit'[m])
    BY <1>1 DEF ChosenShape
  <2>4. Agree(s, log[m], commit[m]) /\ Agree(t, log[m], commit[m])
    BY <1>6, <2>3
  <2>5. Len(t) <= Len(s) /\ \A j \in 1 .. Len(t) : s[j] = t[j]
    BY <2>2, <2>4 DEF Agree
  <2>6. Len(s) <= Len(t)
    BY <1>2, <1>4 DEF Agree
  <2>7. QED BY <1>1, <1>3, <2>5, <2>6, SeqEqual
<1>7. QED BY <1>1, <1>5, <1>6

(* Only a chosen entry is answered.                                         *)
LEMMA AnswerChosen ==
    ASSUME LogInv, ChosenShape, NEW n \in Node, EndRound(n), answered' # answered
    PROVE  \E e \in ToSet(Chosen) : answered' = answered \cup {e}
<1>0. TypeInv
  BY DEF LogInv
<1>1. PICK L \in [Term -> Seq(Entry)], K \in Seq(Entry), kt \in Term, W \in Term :
         SafeWith(L, K, kt, W)
  BY DEF LogInv, SafeInv
<1>2. /\ drv[n] \in Driver /\ DriverShape(drv[n]) /\ drv[n].pc = "end"
      /\ commit[n] \in Nat /\ drv[n].mine \in Entry \cup {NoCall} /\ Len(log[n]) \in Nat
  BY <1>0, DriverParts, ReplayTypes DEF EndRound
<1>3. drv[n].round = 1 => drv[n].mine # NoCall
  BY <1>2, NoCallAssumption DEF DriverShape
<1>4. PICK e : e = drv[n].mine
  OBVIOUS
<1>5. /\ answered' = answered \cup {e} /\ e # NoCall
      /\ e.index <= commit[n] \/ drv[n].round = 2
  <2>1. /\ answered' = answered \cup {e}
        /\ \/ drv[n].round = 1 /\ commit[n] >= e.index
           \/ drv[n].round = 2 /\ e # NoCall
    BY <1>4 DEF EndRound, EntryCommitted
  <2>2. e \in Entry \/ e = NoCall
    BY <1>2, <1>4
  <2>3. e # NoCall
    BY <1>3, <1>4, <2>1
  <2>4. e.index \in Nat
    BY <2>2, <2>3, ConstantTypes DEF Entry
  <2>5. QED BY <1>2, <2>1, <2>3, <2>4
<1>6. e \in Entry /\ e.index \in Nat \ {0}
  BY <1>2, <1>4, <1>5, ConstantTypes DEF Entry
<1>7. RoundOK(L, W, n, drv[n]) /\ log[n] = L[W]
  BY <1>1, <1>2, LeaderFacts
<1>8. e.index <= commit[n] /\ log[n][e.index] = e
  BY <1>2, <1>4, <1>5, <1>7 DEF RoundOK
<1>9. Agree(Chosen, log[n], commit[n]) /\ Chosen \in Seq(Entry)
  BY DEF ChosenShape
<1>10. e.index \in DOMAIN Chosen /\ Chosen[e.index] = e
  <2>1. Len(Chosen) \in Nat /\ DOMAIN Chosen = 1 .. Len(Chosen)
    BY <1>9, LenProperties
  <2>2. QED BY <1>2, <1>6, <1>8, <1>9, <2>1 DEF Agree
<1>11. QED BY <1>5, <1>10 DEF ToSet

(* A step of the log is a step of the state machine, or none.               *)
LEMMA RefinesStep ==
    ASSUME ~Concurrent, ~ApplyErrors
    PROVE  /\ LogInv /\ LogInv' /\ Stays /\ ReplayInv /\ ChosenShape /\ ChosenShape'
           /\ [Next]_vars
           => [Abstract!Next]_(Abstract!vars)
<1> SUFFICES ASSUME LogInv, LogInv', Stays, ReplayInv, ChosenShape, ChosenShape', [Next]_vars
             PROVE  Abstract!Next \/ UNCHANGED Abstract!vars
  OBVIOUS
<1>1. IsPrefix(Chosen, Chosen') /\ (UNCHANGED <<log, commit>> => Chosen' = Chosen)
  BY ChosenGrows
<1>2. CASE UNCHANGED <<applied, answered>>
  <2>1. CASE Chosen' = Chosen
    BY <1>2, <2>1 DEF Abstract!vars
  <2>2. CASE Chosen' # Chosen
    <3>1. IsStrictPrefix(Chosen, Chosen')
      BY <1>1, <2>2 DEF IsStrictPrefix
    <3>2. Abstract!Choose
      BY <1>2, <3>1 DEF Abstract!Choose, Abstract!IsStrictPrefix, Abstract!IsPrefix,
         IsStrictPrefix, IsPrefix
    <3>3. QED BY <3>2 DEF Abstract!Next
  <2>3. QED BY <2>1, <2>2
<1>3. ASSUME NEW n \in Node, NEW k \in tasks[n], ApplyEntry(n, k) PROVE Abstract!Next
  <2>1. AppliesNext(n, k)
    BY <1>3, ReplayApply
  <2>2. UNCHANGED <<log, commit, answered>>
    BY <1>3 DEF ApplyEntry, logVars
  <2>3. PICK i : i = Len(applied[n]) + 1
    OBVIOUS
  <2>4. Len(applied[n]) < Len(Chosen) /\ Chosen[i] = log[n][i]
    <3>1. commit[n] <= Len(Chosen) /\ \A j \in 1 .. commit[n] : Chosen[j] = log[n][j]
      BY DEF ChosenShape, Agree
    <3>2. Len(applied[n]) \in Nat /\ commit[n] \in Nat /\ Len(Chosen) \in Nat
      BY ReplayTypes, LenProperties DEF LogInv, ChosenShape
    <3>3. i \in 1 .. commit[n]
      BY <2>1, <2>3, <3>2 DEF AppliesNext
    <3>4. QED BY <2>1, <3>1, <3>2, <3>3 DEF AppliesNext
  <2>5. applied' = [applied EXCEPT ![n] = Append(@, Chosen[Len(@) + 1])]
    BY <2>1, <2>3, <2>4 DEF AppliesNext
  <2>6. Abstract!Apply(n)
    BY <1>1, <2>2, <2>4, <2>5 DEF Abstract!Apply
  <2>7. QED BY <2>6 DEF Abstract!Next
<1>4. ASSUME NEW n \in Node, EndRound(n), answered' # answered PROVE Abstract!Next
  <2>1. \E e \in ToSet(Chosen) : answered' = answered \cup {e}
    BY <1>4, AnswerChosen
  <2>2. UNCHANGED <<log, commit, applied>>
    BY <1>4 DEF EndRound, logVars
  <2>3. Abstract!Answer
    BY <1>1, <2>1, <2>2 DEF Abstract!Answer, Abstract!ToSet, ToSet
  <2>4. QED BY <2>3 DEF Abstract!Next
<1>5. ASSUME \A n \in Node : /\ \A k \in tasks[n] : ~ApplyEntry(n, k)
                             /\ EndRound(n) => answered' = answered
      PROVE  UNCHANGED <<applied, answered>>
  <2>1. CASE \E n \in Node : LeaderStep(n)
    <3>1. PICK n \in Node : LeaderStep(n)
      BY <2>1
    <3>2. UNCHANGED applied
      BY <3>1 DEF LeaderStep, Send, CallFails, AdoptTerm, FollowerAccepts, FollowerRefuses,
         ChooseCommit, LeaderCommit, EndRound
    <3>3. UNCHANGED answered
      BY <1>5, <3>1 DEF LeaderStep, Send, CallFails, AdoptTerm, FollowerAccepts, FollowerRefuses,
         ChooseCommit, LeaderCommit
    <3>4. QED BY <3>2, <3>3
  <2>2. CASE \E n \in Node : ApplyStep(n)
    BY <1>5, <2>2 DEF ApplyStep, ApplyFails
  <2>3. CASE UNCHANGED vars
    BY <2>3 DEF vars
  <2>4. CASE \/ LoseElection
            \/ \E n \in Node : TakeLead(n) \/ LeaderAppend(n) \/ Heartbeat(n)
    BY <2>4 DEF LoseElection, TakeLead, Vote, LeaderAppend, Heartbeat
  <2>5. CASE \E n \in Node, q \in reqs :
                RefuseStale(n, q) \/ RefuseMismatch(n, q) \/ AppendEntries(n, q)
    BY <2>5 DEF RefuseStale, RefuseMismatch, AppendEntries
  <2>6. QED BY <2>1, <2>2, <2>3, <2>4, <2>5 DEF Next
<1>6. QED BY <1>2, <1>3, <1>4, <1>5

LEMMA RefinesInit == Init /\ ChosenShape => ReplayInv /\ Abstract!Init
<1> SUFFICES ASSUME Init, ChosenShape PROVE ReplayInv /\ Abstract!Init
  OBVIOUS
<1>1. /\ log = [n \in Node |-> <<>>] /\ commit = [n \in Node |-> 0]
      /\ lastApplied = [n \in Node |-> 0] /\ applied = [n \in Node |-> <<>>]
      /\ tasks = [n \in Node |-> {}] /\ answered = {}
  BY DEF Init
<1>2. Chosen = <<>>
  <2>1. Chosen \in Seq(Entry) /\ Len(Chosen) = 0
    BY <1>1 DEF ChosenShape
  <2>2. QED BY <2>1, EmptySeq
<1>3. Replays(<<>>, <<>>, 0, {})
  BY EmptySeq DEF Replays, Agree
<1>4. ReplayInv
  BY <1>1, <1>3 DEF ReplayInv, OneTask
<1>5. Abstract!Init
  BY <1>1, <1>2 DEF Abstract!Init
<1>6. QED BY <1>4, <1>5

(* When moreover handlers run one at a time and the applier does not fail,  *)
(* the log is a replicated state machine: what a node calls committed is    *)
(* chosen for ever, every node applies exactly that, in order and once, and *)
(* only what is chosen is answered.                                         *)
THEOREM LogImplementsStateMachine ==
    ASSUME Handover, ~Eager, ~Concurrent, ~ApplyErrors, Node # {}
    PROVE  Spec => Refines
<1>1. LogInv => ChosenShape
  BY ChosenFacts
<1>2. LogInv' => ChosenShape'
  BY <1>1, PTL
<1>3. Init => LogInv /\ ReplayInv /\ Abstract!Init
  BY <1>1, LogInvInductive, RefinesInit
<1>4. LogInv /\ ReplayInv /\ [Next]_vars =>
         LogInv' /\ ReplayInv' /\ [Abstract!Next]_(Abstract!vars)
  <2> SUFFICES ASSUME LogInv, ReplayInv, [Next]_vars
               PROVE  LogInv' /\ ReplayInv' /\ [Abstract!Next]_(Abstract!vars)
    OBVIOUS
  <2>1. LogInv' /\ Stays
    BY LogInvInductive, StaysStep
  <2>2. QED BY <1>1, <1>2, <2>1, ReplayStep, RefinesStep
<1>5. QED BY <1>3, <1>4, PTL DEF Spec, Refines, Abstract!Spec

(* Every step of a log keeps the entries that its node calls committed,     *)
(* also where handlers overlap and the applier fails.                       *)
THEOREM CommittedEntriesStay ==
    ASSUME Handover, ~Eager
    PROVE  Spec => [][Stays]_vars
BY LogInvInductive, StaysStep, PTL DEF Spec

=============================================================================
