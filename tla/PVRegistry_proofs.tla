-------------------------- MODULE PVRegistry_proofs --------------------------
(***************************************************************************)
(* The registry, for every namespace and any number of publishers,         *)
(* registrations and channels.                                             *)
(*                                                                         *)
(* The argument: a registration belongs to one name of one snapshot, so a  *)
(* publication retires exactly what its snapshot no longer holds, and only *)
(* if the published snapshot is the one it was prepared from.  An active   *)
(* registration that a channel has found is therefore still served, and    *)
(* the flags and channel lists meet whatever onCreate() is doing while its *)
(* registration retires.                                                   *)
(***************************************************************************)
EXTENDS PVRegistry, TLAPS

Typed ==
  /\ current \in Snapshots /\ snapshots \in Nat /\ made \subseteq Regs
  /\ active \in [Regs -> BOOLEAN] /\ channels \in [Regs -> SUBSET Channels]
  /\ pc \in [Publishers -> {"idle", "prepared", "commit", "retire", "finish"}]
  /\ previous \in [Publishers -> Snapshots] /\ next \in [Publishers -> Snapshots]
  /\ retiring \in [Publishers -> SUBSET Regs] /\ marked \in [Publishers -> SUBSET Regs]
  /\ list \in [Publishers -> SUBSET Channels]
  /\ step \in [Channels -> {"new", "found", "tracked", "attached", "done", "gone"}]
  /\ name \in [Channels -> Names \cup {None}] /\ reg \in [Channels -> Regs \cup {None}]
  /\ closed \in [Channels -> BOOLEAN] /\ op \in [Channels -> {"none", "queued", "dispatched"}]

Unfinished(p) == pc[p] \in {"prepared", "commit", "retire"}
Publishing(p) == pc[p] \in {"commit", "retire"}

\* A registration serves one name only.
Injective(s) ==
  \A m, n \in Names : s.entries[m] # None /\ s.entries[m] = s.entries[n] => m = n

\* publishMutex, and what a publisher may rely on while it holds it.
MutexInv ==
  /\ \A p, q \in Publishers : Publishing(p) /\ Publishing(q) => p = q
  /\ \A p \in Publishers : Publishing(p) => previous[p] = current

\* What prepare() has computed stays true of the snapshots it computed it from.
PreparedInv ==
  /\ Injective(current) /\ \A n \in Names : current.entries[n] # None => current.entries[n] \in made
  /\ \A p \in Publishers : Unfinished(p) =>
       /\ Injective(next[p])
       /\ \A n \in Names : next[p].entries[n] # None => next[p].entries[n] \in made
       /\ \A r \in Regs : r \in retiring[p] <=>
            \E n \in Names : previous[p].entries[n] = r /\ next[p].entries[n] # r

\* A new registration is known to its publisher only, until it is published.
FreshInv ==
  \A p \in Publishers, n \in Names :
    Unfinished(p) /\ next[p].entries[n] # None /\ next[p].entries[n] # previous[p].entries[n] =>
      /\ active[next[p].entries[n]]
      /\ \A m \in Names : current.entries[m] # next[p].entries[n]
      /\ \A q \in Publishers, m \in Names :
           q # p /\ Unfinished(q) => next[q].entries[m] # next[p].entries[n]

\* The flags that publish() clears, and that nobody sets again.
FlagInv ==
  /\ \A p \in Publishers : pc[p] \in {"idle", "prepared", "commit"} => marked[p] = {}
  /\ \A p \in Publishers : pc[p] = "retire" => marked[p] \subseteq retiring[p]
  /\ \A p \in Publishers : \A r \in marked[p] : ~active[r]
  /\ \A r \in Regs : ~active[r] => r \in made
  /\ \A p \in Publishers : pc[p] = "finish" => \A r \in retiring[p] : ~active[r]
  /\ \A n \in Names : current.entries[n] # None =>
       active[current.entries[n]] \/ \E p \in Publishers : current.entries[n] \in marked[p] /\ pc[p] = "retire"

PubInv == MutexInv /\ PreparedInv /\ FreshInv /\ FlagInv

-----------------------------------------------------------------------------
(* Initial states and types *)

\* What a registry starts with.
LEMMA EmptySnapshot == Empty \in Snapshots /\ \A n \in Names : Empty.entries[n] = None
BY DEF Empty, Snapshots, Entries

\* The empty registry.
LEMMA InitPub == Init => Typed /\ PubInv
<1> SUFFICES ASSUME Init PROVE Typed /\ PubInv OBVIOUS
<1>1. Typed BY EmptySnapshot DEF Init, Typed
<1>2. PubInv
  BY EmptySnapshot
  DEF Init, PubInv, MutexInv, PreparedInv, FreshInv, FlagInv, Injective, Publishing, Unfinished
<1>3. QED BY <1>1, <1>2

\* The snapshot that prepare() builds, and the registrations it makes for it.
LEMMA PrepareFacts ==
  ASSUME Typed, PreparedInv, NEW p \in Publishers,
         NEW desired \in [Names -> Bindings \cup {None}], Prepare(p, desired)
  PROVE  /\ pc[p] = "idle" /\ pc' = [pc EXCEPT ![p] = "prepared"]
         /\ previous' = [previous EXCEPT ![p] = current]
         /\ next' = [next EXCEPT ![p] = next'[p]] /\ next'[p] \in Snapshots
         /\ retiring' = [retiring EXCEPT ![p] = retiring'[p]]
         /\ \A r \in Regs : r \in retiring'[p] <=>
              \E n \in Names : current.entries[n] = r /\ next'[p].entries[n] # r
         /\ retiring'[p] \subseteq Regs
         /\ snapshots' \in Nat /\ made \subseteq made' /\ made' \subseteq Regs
         /\ Injective(next'[p])
         /\ \A n \in Names : next'[p].entries[n] # None =>
              \/ next'[p].entries[n] = current.entries[n]
              \/ next'[p].entries[n] \in made' \ made
         /\ UNCHANGED <<current, active, channels, marked, list, chanVars, op>>
<1> DEFINE wanted == {n \in Names : desired[n] # None}
           renewed == {n \in wanted : ~Keeps(n, desired)}
           entries(fresh) == [n \in Names |-> IF n \in renewed THEN fresh[n]
                                ELSE IF n \in wanted THEN current.entries[n] ELSE None]
<1>1. PICK fresh \in [renewed -> Regs \ made] :
        /\ \A m, n \in renewed : fresh[m] = fresh[n] => m = n
        /\ made' = made \cup {fresh[n] : n \in renewed}
        /\ next' = [next EXCEPT ![p] = [id |-> snapshots + 1, entries |-> entries(fresh)]]
        /\ retiring' = [retiring EXCEPT ![p] =
             {r \in Regs : \E n \in Names : current.entries[n] = r /\ entries(fresh)[n] # r}]
  BY Zenon DEF Prepare
<1> DEFINE e == entries(fresh)
<1>2. \A n \in Names : current.entries[n] \in Regs \cup {None} BY DEF Typed, Snapshots, Entries
<1>3. \A n \in Names : /\ n \in renewed => e[n] = fresh[n] /\ fresh[n] \in Regs \ made
                       /\ n \notin renewed => e[n] \in {current.entries[n], None}
  BY <1>1
<1>4. e \in Entries BY <1>2, <1>3 DEF Entries
<1> HIDE DEF e, entries
<1>5. next'[p] = [id |-> snapshots + 1, entries |-> e] BY <1>1 DEF Typed, e
<1>6. next'[p].entries = e /\ next'[p] \in Snapshots BY <1>4, <1>5 DEF Typed, Snapshots
<1>7. retiring'[p] = {r \in Regs : \E n \in Names : current.entries[n] = r /\ e[n] # r}
  BY <1>1 DEF Typed, e
<1>8. \A n \in renewed : fresh[n] \in made' \ made BY <1>1
<1>9. made \subseteq made' /\ made' \subseteq Regs BY <1>1 DEF Typed
<1>10. \A n \in Names : e[n] # None => e[n] = current.entries[n] \/ e[n] \in made' \ made
  BY <1>3, <1>8
<1>11. Injective(next'[p])
  <2> SUFFICES ASSUME NEW m \in Names, NEW n \in Names, e[m] # None, e[m] = e[n] PROVE m = n
    BY <1>6 DEF Injective
  <2>1. CASE m \in renewed /\ n \in renewed BY <1>1, <1>3, <2>1
  <2>2. CASE m \notin renewed /\ n \notin renewed
    BY <1>3, <2>2 DEF PreparedInv, Injective
  <2>3. CASE m \in renewed /\ n \notin renewed BY <1>3, <2>3 DEF PreparedInv
  <2>4. CASE m \notin renewed /\ n \in renewed BY <1>3, <2>4 DEF PreparedInv
  <2>5. QED BY <2>1, <2>2, <2>3, <2>4
<1>12. /\ pc[p] = "idle" /\ pc' = [pc EXCEPT ![p] = "prepared"]
       /\ previous' = [previous EXCEPT ![p] = current] /\ snapshots' = snapshots + 1
       /\ UNCHANGED <<current, active, channels, marked, list, chanVars, op>>
  BY DEF Prepare
<1>13. next' = [next EXCEPT ![p] = next'[p]] /\ retiring' = [retiring EXCEPT ![p] = retiring'[p]]
  BY <1>1, <1>5, <1>7 DEF Typed, e
<1>14. QED BY <1>6, <1>7, <1>9, <1>10, <1>11, <1>12, <1>13 DEF Typed

\* Every step keeps the types.
LEMMA TypedNext == ASSUME Typed, PreparedInv, [Next]_vars PROVE Typed'
<1>1. ASSUME NEW p \in Publishers, NEW desired \in [Names -> Bindings \cup {None}],
             Prepare(p, desired)
      PROVE  Typed'
  <2>1. next' \in [Publishers -> Snapshots] /\ previous' \in [Publishers -> Snapshots]
        /\ retiring' \in [Publishers -> SUBSET Regs]
    <3>1. /\ previous' = [previous EXCEPT ![p] = current] /\ next'[p] \in Snapshots
          /\ next' = [next EXCEPT ![p] = next'[p]] /\ retiring'[p] \subseteq Regs
          /\ retiring' = [retiring EXCEPT ![p] = retiring'[p]]
      BY <1>1, PrepareFacts
    <3>2. QED BY <3>1 DEF Typed
  <2>2. QED BY <1>1, <2>1, PrepareFacts DEF Typed, chanVars
<1>2. ASSUME NEW p \in Publishers,
             Refuse(p) \/ CommitFails(p) \/ Finished(p)
      PROVE  Typed'
  <2>1. Return(p) BY <1>2 DEF Refuse, CommitFails, Finished
  <2>2. previous' \in [Publishers -> Snapshots] /\ next' \in [Publishers -> Snapshots]
    BY <2>1, EmptySnapshot DEF Return, Typed
  <2>3. retiring' \in [Publishers -> SUBSET Regs] /\ marked' \in [Publishers -> SUBSET Regs]
    BY <2>1 DEF Return, Typed
  <2>4. QED BY <2>1, <2>2, <2>3 DEF Return, Typed, chanVars
<1>3. ASSUME NEW p \in Publishers, Publish(p) \/ CommitSucceeds(p) \/ Store(p)
      PROVE  Typed'
  <2>1. current' \in Snapshots BY <1>3 DEF Publish, CommitSucceeds, Store, Typed
  <2>2. QED BY <1>3, <2>1 DEF Publish, CommitSucceeds, Store, Typed, chanVars
<1>4. ASSUME NEW p \in Publishers, NEW r \in Regs, Mark(p, r) \/ Drain(p, r) PROVE Typed'
  <2>1. CASE Mark(p, r) BY <2>1 DEF Mark, Typed, chanVars
  <2>2. CASE Drain(p, r)
    <3>1. list' \in [Publishers -> SUBSET Channels] /\ channels' \in [Regs -> SUBSET Channels]
      BY <2>2 DEF Drain, Owned, Typed
    <3>2. QED BY <2>2, <3>1 DEF Drain, Typed, chanVars
  <2>3. QED BY <1>4, <2>1, <2>2
<1>5. ASSUME NEW p \in Publishers, NEW c \in Channels, CloseNext(p, c) PROVE Typed'
  BY <1>5 DEF CloseNext, Typed
<1>6. ASSUME NEW c \in Channels, NEW n \in Names, Find(c, n) PROVE Typed'
  <2>1. current.entries[n] \in Regs \cup {None} BY DEF Typed, Snapshots, Entries
  <2>2. QED BY <1>6, <2>1 DEF Find, Typed, pubVars
<1>7. ASSUME NEW c \in Channels, track(c) PROVE Typed'
  BY <1>7 DEF track, Typed, pubVars
<1>8. ASSUME NEW c \in Channels, WrapperRefuses(c) \/ attach(c) \/ Created(c) \/ Destroyed(c)
      PROVE  Typed'
  <2>1. CASE WrapperRefuses(c) \/ attach(c)
    <3>1. CASE WrapperRefuses(c) BY <3>1 DEF WrapperRefuses, Typed, pubVars
    <3>2. CASE attach(c) BY <3>2 DEF attach, Typed, pubVars
    <3>3. QED BY <2>1, <3>1, <3>2
  <2>2. CASE Created(c) BY <2>2 DEF Created, CloseIfRetired, Typed, pubVars
  <2>3. CASE Destroyed(c) BY <2>3 DEF Destroyed, Typed, pubVars
  <2>4. QED BY <1>8, <2>1, <2>2, <2>3
<1>9. ASSUME NEW c \in Channels, Request(c) \/ Dispatch(c) \/ Ended(c) PROVE Typed'
  BY <1>9 DEF Request, Dispatch, Ended, Typed, pubVars, chanVars
<1>10. CASE UNCHANGED vars BY <1>10 DEF vars, pubVars, chanVars, Typed
<1>11. QED
  BY <1>1, <1>2, <1>3, <1>4, <1>5, <1>6, <1>7, <1>8, <1>9, <1>10
  DEF Next, PublisherStep, ChannelStep

-----------------------------------------------------------------------------
(* Publication *)

\* What prepare() has computed is kept by a step that changes neither the snapshot
\* nor a Prepared that is still in use.
LEMMA PreparedKept ==
  ASSUME PreparedInv, current' = current, made \subseteq made',
         NEW q \in Publishers, Unfinished(q), next'[q] = next[q], previous'[q] = previous[q],
         retiring'[q] = retiring[q]
  PROVE  /\ Injective(next[q])'
         /\ \A n \in Names : next'[q].entries[n] # None => next'[q].entries[n] \in made'
         /\ \A r \in Regs : r \in retiring'[q] <=>
              \E n \in Names : previous'[q].entries[n] = r /\ next'[q].entries[n] # r
<1>1. /\ Injective(next[q])
      /\ \A n \in Names : next[q].entries[n] # None => next[q].entries[n] \in made
      /\ \A r \in Regs : r \in retiring[q] <=>
           \E n \in Names : previous[q].entries[n] = r /\ next[q].entries[n] # r
  BY DEF PreparedInv
<1>2. Injective(next[q])' BY <1>1 DEF Injective
<1>3. QED BY <1>1, <1>2

\* The same for the snapshot itself.
LEMMA CurrentKept ==
  ASSUME PreparedInv, current' = current, made \subseteq made'
  PROVE  Injective(current)' /\ \A n \in Names : current'.entries[n] # None => current'.entries[n] \in made'
<1>1. Injective(current) /\ \A n \in Names : current.entries[n] # None => current.entries[n] \in made
  BY DEF PreparedInv
<1>2. Injective(current)' BY <1>1 DEF Injective
<1>3. QED BY <1>1, <1>2

\* prepare() changes nothing that anybody else can see.
LEMMA PreparePub ==
  ASSUME Typed, PubInv, NEW p \in Publishers,
         NEW desired \in [Names -> Bindings \cup {None}], Prepare(p, desired)
  PROVE  PubInv'
<1> USE DEF PubInv
<1>0. /\ pc[p] = "idle" /\ pc' = [pc EXCEPT ![p] = "prepared"]
      /\ previous' = [previous EXCEPT ![p] = current]
      /\ next' = [next EXCEPT ![p] = next'[p]] /\ next'[p] \in Snapshots
      /\ retiring' = [retiring EXCEPT ![p] = retiring'[p]]
      /\ \A r \in Regs : r \in retiring'[p] <=>
           \E n \in Names : current.entries[n] = r /\ next'[p].entries[n] # r
      /\ made \subseteq made' /\ made' \subseteq Regs /\ Injective(next'[p])
      /\ \A n \in Names : next'[p].entries[n] # None =>
           next'[p].entries[n] = current.entries[n] \/ next'[p].entries[n] \in made' \ made
      /\ UNCHANGED <<current, active, marked>>
  BY PrepareFacts
<1>1. /\ Unfinished(p)' /\ ~Publishing(p)' /\ pc'[p] = "prepared" /\ ~Unfinished(p)
      /\ previous'[p] = current
      /\ \A q \in Publishers : q # p =>
           /\ pc'[q] = pc[q] /\ next'[q] = next[q] /\ previous'[q] = previous[q]
           /\ retiring'[q] = retiring[q] /\ Unfinished(q)' = Unfinished(q)
           /\ Publishing(q)' = Publishing(q)
  BY <1>0 DEF Typed, Unfinished, Publishing
<1>2. MutexInv' BY <1>0, <1>1 DEF MutexInv
<1>3. PreparedInv'
  <2>1. Injective(next[p])' BY <1>0 DEF Injective
  <2>2. ASSUME NEW q \in Publishers, Unfinished(q)'
        PROVE  /\ Injective(next[q])'
               /\ \A n \in Names : next'[q].entries[n] # None => next'[q].entries[n] \in made'
               /\ \A r \in Regs : r \in retiring'[q] <=>
                    \E n \in Names : previous'[q].entries[n] = r /\ next'[q].entries[n] # r
    <3>1. CASE q = p BY <1>0, <1>1, <2>1, <3>1 DEF PreparedInv
    <3>2. CASE q # p BY <1>0, <1>1, <2>2, <3>2, PreparedKept
    <3>3. QED BY <3>1, <3>2
  <2>3. QED BY <1>0, <2>2, CurrentKept DEF PreparedInv
<1>4. FreshInv'
  <2> SUFFICES ASSUME NEW q \in Publishers, NEW n \in Names, Unfinished(q)',
                      next'[q].entries[n] # None, next'[q].entries[n] # previous'[q].entries[n]
               PROVE  /\ active'[next'[q].entries[n]]
                      /\ \A m \in Names : current'.entries[m] # next'[q].entries[n]
                      /\ \A o \in Publishers, m \in Names :
                           o # q /\ Unfinished(o)' => next'[o].entries[m] # next'[q].entries[n]
    BY DEF FreshInv
  <2>1. CASE q = p
    <3>1. next'[p].entries[n] \in made' \ made BY <1>0, <1>1, <2>1
    <3>2. active[next'[p].entries[n]] BY <1>0, <3>1 DEF FlagInv
    <3>3. QED BY <1>0, <1>1, <2>1, <3>1, <3>2 DEF PreparedInv
  <2>2. CASE q # p
    <3>1. /\ active[next[q].entries[n]] /\ next[q].entries[n] \in made
          /\ \A m \in Names : current.entries[m] # next[q].entries[n]
      <4>1. /\ Unfinished(q) /\ next[q].entries[n] # None
            /\ next[q].entries[n] # previous[q].entries[n]
        BY <1>1, <2>2
      <4>2. next[q].entries[n] \in made BY <4>1 DEF PreparedInv
      <4>3. QED BY <4>1, <4>2 DEF FreshInv
    <3>2. QED BY <1>0, <1>1, <2>2, <3>1 DEF FreshInv
  <2>3. QED BY <2>1, <2>2
<1>5. FlagInv' BY <1>0, <1>1 DEF FlagInv
<1>6. QED BY <1>2, <1>3, <1>4, <1>5

\* A Prepared that is dropped: refused, not committed, or done with.
LEMMA ReturnPub ==
  ASSUME Typed, PubInv, NEW p \in Publishers, pc[p] # "retire", Return(p)
  PROVE  PubInv'
<1> USE DEF PubInv
<1>1. /\ ~Unfinished(p)' /\ ~Publishing(p)' /\ pc'[p] = "idle" /\ marked'[p] = {}
      /\ \A q \in Publishers : q # p =>
           /\ pc'[q] = pc[q] /\ next'[q] = next[q] /\ previous'[q] = previous[q]
           /\ retiring'[q] = retiring[q] /\ marked'[q] = marked[q]
           /\ Unfinished(q)' = Unfinished(q) /\ Publishing(q)' = Publishing(q)
      /\ UNCHANGED <<current, made, active>>
  BY DEF Return, Typed, Unfinished, Publishing
<1>2. MutexInv' BY <1>1 DEF MutexInv
<1>3. PreparedInv'
  <2>1. \A q \in Publishers : Unfinished(q)' =>
          /\ Unfinished(q) /\ next'[q] = next[q] /\ previous'[q] = previous[q]
          /\ retiring'[q] = retiring[q]
    BY <1>1
  <2>2. QED BY <1>1, <2>1, PreparedKept, CurrentKept DEF PreparedInv
<1>4. FreshInv' BY <1>1 DEF FreshInv
<1>5. FlagInv' BY <1>1 DEF FlagInv
<1>6. QED BY <1>2, <1>3, <1>4, <1>5

\* publish() takes the mutex, and beforeCommit succeeds.
LEMMA CommitPub ==
  ASSUME Typed, PubInv, NEW p \in Publishers, Publish(p) \/ CommitSucceeds(p)
  PROVE  PubInv'
<1> USE DEF PubInv
<1>1. /\ Unfinished(p) /\ Unfinished(p)' /\ Publishing(p)' /\ pc'[p] \in {"commit", "retire"}
      /\ pc[p] \in {"prepared", "commit"} /\ previous[p] = current
      /\ \A q \in Publishers : q # p => ~Publishing(q)
      /\ \A q \in Publishers : q # p =>
           pc'[q] = pc[q] /\ Unfinished(q)' = Unfinished(q) /\ Publishing(q)' = Publishing(q)
      /\ UNCHANGED <<current, made, active, next, previous, retiring, marked>>
  BY DEF Publish, CommitSucceeds, Typed, MutexInv, Unfinished, Publishing, publishMutexFree, Unchanged
<1>2. MutexInv' BY <1>1 DEF MutexInv
<1>3. PreparedInv'
  <2>1. \A q \in Publishers : Unfinished(q)' =>
          /\ Unfinished(q) /\ next'[q] = next[q] /\ previous'[q] = previous[q]
          /\ retiring'[q] = retiring[q]
    BY <1>1
  <2>2. QED BY <1>1, <2>1, PreparedKept, CurrentKept DEF PreparedInv
<1>4. FreshInv'
  <2> SUFFICES ASSUME NEW q \in Publishers, NEW n \in Names, Unfinished(q)',
                      next'[q].entries[n] # None, next'[q].entries[n] # previous'[q].entries[n]
               PROVE  /\ active'[next'[q].entries[n]]
                      /\ \A m \in Names : current'.entries[m] # next'[q].entries[n]
                      /\ \A o \in Publishers, m \in Names :
                           o # q /\ Unfinished(o)' => next'[o].entries[m] # next'[q].entries[n]
    BY DEF FreshInv
  <2>1. /\ Unfinished(q) /\ next'[q] = next[q]
        /\ next[q].entries[n] # None /\ next[q].entries[n] # previous[q].entries[n]
    BY <1>1
  <2>2. /\ active[next[q].entries[n]]
        /\ \A m \in Names : current.entries[m] # next[q].entries[n]
        /\ \A o \in Publishers, m \in Names :
             o # q /\ Unfinished(o) => next[o].entries[m] # next[q].entries[n]
    BY <2>1 DEF FreshInv
  <2>3. QED BY <1>1, <2>1, <2>2
<1>5. FlagInv' BY <1>1 DEF FlagInv
<1>6. QED BY <1>2, <1>3, <1>4, <1>5

\* publish() clears a flag: the registration is served, so no other preparation
\* regards it as new.
LEMMA MarkPub ==
  ASSUME Typed, PubInv, NEW p \in Publishers, NEW r \in Regs, Mark(p, r)
  PROVE  PubInv'
<1> USE DEF PubInv
<1>1. /\ pc[p] = "retire" /\ r \in retiring[p] /\ previous[p] = current /\ Unfinished(p)
      /\ active' = [active EXCEPT ![r] = FALSE] /\ marked' = [marked EXCEPT ![p] = @ \cup {r}]
      /\ UNCHANGED <<current, made, pc, next, previous, retiring>>
      /\ \A q \in Publishers : Unfinished(q)' = Unfinished(q) /\ Publishing(q)' = Publishing(q)
  BY DEF Mark, MutexInv, Unfinished, Publishing
<1>2. PICK n \in Names : current.entries[n] = r BY <1>1 DEF PreparedInv
<1>3. r \in made BY <1>2, RegistryAssumption DEF PreparedInv
<1>4. \A q \in Regs : active'[q] <=> active[q] /\ q # r BY <1>1 DEF Typed
<1>5. \A q \in Publishers : marked'[q] = IF q = p THEN marked[q] \cup {r} ELSE marked[q]
  BY <1>1 DEF Typed
<1>6. MutexInv' BY <1>1 DEF MutexInv
<1>7. PreparedInv'
  <2>1. \A q \in Publishers : Unfinished(q)' =>
          /\ Unfinished(q) /\ next'[q] = next[q] /\ previous'[q] = previous[q]
          /\ retiring'[q] = retiring[q]
    BY <1>1
  <2>2. QED BY <1>1, <2>1, PreparedKept, CurrentKept DEF PreparedInv
<1>8. FreshInv'
  <2> SUFFICES ASSUME NEW q \in Publishers, NEW m \in Names, Unfinished(q),
                      next[q].entries[m] # None, next[q].entries[m] # previous[q].entries[m]
               PROVE  active'[next[q].entries[m]]
    BY ZenonT(30), <1>1 DEF FreshInv
  <2>1. active[next[q].entries[m]] /\ next[q].entries[m] # r BY <1>2 DEF FreshInv
  <2>2. next[q].entries[m] \in Regs BY DEF PreparedInv, Typed
  <2>3. QED BY <1>4, <2>1, <2>2
<1>9. FlagInv'
  <2>1. \A m \in Names : current.entries[m] # None =>
          active'[current.entries[m]] \/ \E q \in Publishers : current.entries[m] \in marked'[q] /\ pc[q] = "retire"
    <3> SUFFICES ASSUME NEW m \in Names, current.entries[m] # None, ~active'[current.entries[m]]
                 PROVE  \E q \in Publishers : current.entries[m] \in marked'[q] /\ pc[q] = "retire"
      OBVIOUS
    <3>1. current.entries[m] \in Regs BY DEF PreparedInv, Typed
    <3>2. CASE current.entries[m] = r BY <1>1, <1>5, <3>2
    <3>3. CASE current.entries[m] # r BY <1>4, <1>5, <3>1, <3>3 DEF FlagInv
    <3>4. QED BY <3>2, <3>3
  <2>2. ASSUME NEW q \in Publishers, NEW s \in marked'[q] PROVE ~active'[s]
    <3>1. s = r \/ s \in marked[q] BY <1>5
    <3>2. s \in Regs BY <3>1 DEF Typed
    <3>3. QED BY <1>4, <3>1, <3>2 DEF FlagInv
  <2>3. \A q \in Publishers : pc[q] \in {"idle", "prepared", "commit"} => marked'[q] = {}
    BY <1>1, <1>5 DEF FlagInv
  <2>4. \A q \in Publishers : pc[q] = "retire" => marked'[q] \subseteq retiring[q]
    BY <1>1, <1>5 DEF FlagInv
  <2>5. \A q \in Publishers : pc[q] = "finish" => \A s \in retiring[q] : ~active'[s]
    BY <1>4 DEF FlagInv, Typed
  <2>6. \A s \in Regs : ~active'[s] => s \in made BY <1>3, <1>4 DEF FlagInv
  <2>7. QED BY <1>1, <2>1, <2>2, <2>3, <2>4, <2>5, <2>6 DEF FlagInv
<1>10. QED BY <1>6, <1>7, <1>8, <1>9

\* publish() stores the snapshot: what it holds is new, or was kept and has not
\* been marked, because a registration serves one name only.
LEMMA StorePub ==
  ASSUME Typed, PubInv, NEW p \in Publishers, Store(p)
  PROVE  PubInv'
<1> USE DEF PubInv
<1>1. /\ pc[p] = "retire" /\ pc'[p] = "finish" /\ retiring[p] \subseteq marked[p]
      /\ current' = next[p] /\ previous[p] = current
      /\ Unfinished(p) /\ Publishing(p) /\ ~Unfinished(p)' /\ ~Publishing(p)'
      /\ \A q \in Publishers : q # p =>
           /\ pc'[q] = pc[q] /\ ~Publishing(q)
           /\ Unfinished(q)' = Unfinished(q) /\ Publishing(q)' = Publishing(q)
      /\ UNCHANGED <<made, active, next, previous, retiring, marked>>
  BY DEF Store, MutexInv, Typed, Unfinished, Publishing
<1>2. \A n \in Names : next[p].entries[n] # None =>
        active[next[p].entries[n]] /\ next[p].entries[n] \in made
  <2> SUFFICES ASSUME NEW n \in Names, next[p].entries[n] # None
               PROVE  active[next[p].entries[n]]
    BY <1>1 DEF PreparedInv
  <2>1. CASE next[p].entries[n] # current.entries[n] BY <1>1, <2>1 DEF FreshInv
  <2>2. CASE next[p].entries[n] = current.entries[n]
    <3>1. next[p].entries[n] \in Regs BY <1>1 DEF PreparedInv, Typed
    <3>2. next[p].entries[n] \notin retiring[p]
      <4> SUFFICES ASSUME next[p].entries[n] \in retiring[p] PROVE FALSE OBVIOUS
      <4>1. PICK m \in Names : current.entries[m] = next[p].entries[n]
                              /\ next[p].entries[m] # next[p].entries[n]
        BY <1>1, <3>1 DEF PreparedInv
      <4>2. m = n BY <2>2, <4>1 DEF PreparedInv, Injective
      <4>3. QED BY <4>1, <4>2
    <3>3. next[p].entries[n] \notin marked[p] BY <1>1, <3>2 DEF FlagInv
    <3>4. QED BY <1>1, <2>2, <3>3 DEF FlagInv, Publishing
  <2>3. QED BY <2>1, <2>2
<1>3. MutexInv' BY <1>1 DEF MutexInv
<1>4. PreparedInv'
  <2>1. Injective(current') /\ \A n \in Names : current'.entries[n] # None => current'.entries[n] \in made
    BY <1>1, <1>2 DEF PreparedInv
  <2>2. ASSUME NEW q \in Publishers, Unfinished(q)'
        PROVE  /\ Injective(next[q])
               /\ \A n \in Names : next[q].entries[n] # None => next[q].entries[n] \in made
               /\ \A r \in Regs : r \in retiring[q] <=>
                    \E n \in Names : previous[q].entries[n] = r /\ next[q].entries[n] # r
    <3>1. Unfinished(q) BY <1>1, <2>2
    <3>2. QED BY <3>1 DEF PreparedInv
  <2>3. /\ \A q \in Publishers : Injective(next[q])' <=> Injective(next[q])
        /\ Injective(current)' <=> Injective(current')
    BY <1>1 DEF Injective
  <2>4. ASSUME NEW q \in Publishers, Unfinished(q)'
        PROVE  /\ Injective(next[q])'
               /\ \A n \in Names : next'[q].entries[n] # None => next'[q].entries[n] \in made'
               /\ \A r \in Regs : r \in retiring'[q] <=>
                    \E n \in Names : previous'[q].entries[n] = r /\ next'[q].entries[n] # r
    BY <1>1, <2>2, <2>3, <2>4
  <2>5. Injective(current)' /\ \A n \in Names : current'.entries[n] # None => current'.entries[n] \in made'
    BY <1>1, <2>1, <2>3
  <2>6. QED BY <2>4, <2>5 DEF PreparedInv
<1>5. FreshInv'
  <2> SUFFICES ASSUME NEW q \in Publishers, NEW n \in Names, Unfinished(q)',
                      next'[q].entries[n] # None, next'[q].entries[n] # previous'[q].entries[n]
               PROVE  /\ active'[next'[q].entries[n]]
                      /\ \A m \in Names : current'.entries[m] # next'[q].entries[n]
                      /\ \A o \in Publishers, m \in Names :
                           o # q /\ Unfinished(o)' => next'[o].entries[m] # next'[q].entries[n]
    BY DEF FreshInv
  <2>1. /\ q # p /\ Unfinished(q) /\ next'[q] = next[q]
        /\ next[q].entries[n] # None /\ next[q].entries[n] # previous[q].entries[n]
    BY <1>1
  <2>2. /\ active[next[q].entries[n]]
        /\ \A m \in Names : current.entries[m] # next[q].entries[n]
        /\ \A o \in Publishers, m \in Names :
             o # q /\ Unfinished(o) => next[o].entries[m] # next[q].entries[n]
    BY <2>1 DEF FreshInv
  <2>3. QED BY <1>1, <2>1, <2>2
<1>6. FlagInv' BY <1>1, <1>2 DEF FlagInv
<1>7. QED BY <1>3, <1>4, <1>5, <1>6

\* finish() only empties the list of what is still to be closed, and channels do
\* not touch the publication at all.
LEMMA OthersPub ==
  ASSUME Typed, PubInv, UNCHANGED <<current, made, active, pc, next, previous, marked>>,
         retiring' \in [Publishers -> SUBSET Regs],
         \A q \in Publishers : \/ retiring'[q] = retiring[q]
                               \/ pc[q] = "finish" /\ retiring'[q] \subseteq retiring[q]
  PROVE  PubInv'
<1> USE DEF PubInv
<1>1. \A q \in Publishers : /\ Unfinished(q)' = Unfinished(q) /\ Publishing(q)' = Publishing(q)
                            /\ Unfinished(q) => retiring'[q] = retiring[q]
                            /\ pc[q] = "retire" => retiring'[q] = retiring[q]
                            /\ pc[q] = "finish" => retiring'[q] \subseteq retiring[q]
  BY DEF Unfinished, Publishing
<1>2. MutexInv' BY <1>1 DEF MutexInv
<1>3. PreparedInv'
  <2>1. \A q \in Publishers : Unfinished(q)' =>
          /\ Unfinished(q) /\ next'[q] = next[q] /\ previous'[q] = previous[q]
          /\ retiring'[q] = retiring[q]
    BY <1>1
  <2>2. QED BY <1>1, <2>1, PreparedKept, CurrentKept DEF PreparedInv
<1>4. FreshInv'
  <2> SUFFICES ASSUME NEW q \in Publishers, NEW n \in Names, Unfinished(q)',
                      next'[q].entries[n] # None, next'[q].entries[n] # previous'[q].entries[n]
               PROVE  /\ active'[next'[q].entries[n]]
                      /\ \A m \in Names : current'.entries[m] # next'[q].entries[n]
                      /\ \A o \in Publishers, m \in Names :
                           o # q /\ Unfinished(o)' => next'[o].entries[m] # next'[q].entries[n]
    BY DEF FreshInv
  <2>1. /\ Unfinished(q) /\ next'[q] = next[q]
        /\ next[q].entries[n] # None /\ next[q].entries[n] # previous[q].entries[n]
    BY <1>1
  <2>2. /\ active[next[q].entries[n]]
        /\ \A m \in Names : current.entries[m] # next[q].entries[n]
        /\ \A o \in Publishers, m \in Names :
             o # q /\ Unfinished(o) => next[o].entries[m] # next[q].entries[n]
    BY <2>1 DEF FreshInv
  <2>3. QED BY <1>1, <2>1, <2>2
<1>5. FlagInv' BY <1>1 DEF FlagInv
<1>6. QED BY <1>2, <1>3, <1>4, <1>5

\* Every step keeps the invariant of the publication.
LEMMA PubNext == ASSUME Typed, PubInv, [Next]_vars PROVE PubInv'
<1>1. ASSUME NEW p \in Publishers, NEW desired \in [Names -> Bindings \cup {None}],
             Prepare(p, desired)
      PROVE  PubInv'
  BY <1>1, PreparePub
<1>2. ASSUME NEW p \in Publishers, Refuse(p) \/ CommitFails(p) \/ Finished(p) PROVE PubInv'
  <2>1. Return(p) /\ pc[p] # "retire" BY <1>2 DEF Refuse, CommitFails, Finished
  <2>2. QED BY <2>1, ReturnPub
<1>3. ASSUME NEW p \in Publishers, Publish(p) \/ CommitSucceeds(p) PROVE PubInv'
  BY <1>3, CommitPub
<1>4. ASSUME NEW p \in Publishers, NEW r \in Regs, Mark(p, r) PROVE PubInv'
  BY <1>4, MarkPub
<1>5. ASSUME NEW p \in Publishers, Store(p) PROVE PubInv'
  BY <1>5, StorePub
<1>6. ASSUME NEW p \in Publishers, NEW r \in Regs, Drain(p, r) PROVE PubInv'
  <2>1. /\ UNCHANGED <<current, made, active, pc, next, previous, marked>>
        /\ retiring' \in [Publishers -> SUBSET Regs]
        /\ \A q \in Publishers : \/ retiring'[q] = retiring[q]
                                 \/ pc[q] = "finish" /\ retiring'[q] \subseteq retiring[q]
    BY <1>6 DEF Drain, Typed
  <2>2. QED BY <2>1, OthersPub
<1>7. ASSUME UNCHANGED <<current, made, active, pc, next, previous, marked, retiring>> PROVE PubInv'
  BY <1>7, OthersPub DEF Typed
<1>8. ASSUME NEW p \in Publishers, NEW c \in Channels, CloseNext(p, c) PROVE PubInv'
  BY <1>7, <1>8 DEF CloseNext
<1>9. ASSUME NEW c \in Channels, ChannelStep(c) PROVE PubInv'
  BY <1>7, <1>9 DEF ChannelStep, Find, track, WrapperRefuses, attach, Created, Destroyed, Request,
    Dispatch, Ended, pubVars
<1>10. CASE UNCHANGED vars BY <1>7, <1>10 DEF vars, pubVars
<1>11. QED
  BY <1>1, <1>2, <1>3, <1>4, <1>5, <1>6, <1>8, <1>9, <1>10 DEF Next, PublisherStep

-----------------------------------------------------------------------------
(* Channels *)

\* A channel that has found an active registration finds it under its name still.
ServedInv ==
  /\ \A c \in Channels : step[c] = "new" => op[c] = "none"
  /\ \A c \in Channels : step[c] # "new" =>
       /\ name[c] \in Names /\ reg[c] \in Regs
       /\ active[reg[c]] => current.entries[name[c]] = reg[c]

\* The channel lists.
ListInv ==
  /\ \A r \in Regs : \A c \in channels[r] : step[c] \notin {"new", "found"} /\ reg[c] = r
  /\ \A p \in Publishers : \A c \in list[p] : step[c] \notin {"new", "found"} /\ ~active[reg[c]]
  /\ \A c \in Channels :
       step[c] \in {"tracked", "attached", "done"} /\ active[reg[c]] => c \in channels[reg[c]]

ChanInv == ServedInv /\ ListInv /\ RetiredChannelsClosed
IInv == Typed /\ PubInv /\ ChanInv

\* No channel exists at first.
LEMMA InitChan == Init => ChanInv
BY DEF Init, ChanInv, ServedInv, ListInv, RetiredChannelsClosed

\* A step of a publisher that touches neither flags nor channels nor their lists.
LEMMA QuietChan ==
  ASSUME Typed, ChanInv, NEW p \in Publishers,
         UNCHANGED <<current, active, channels, list, chanVars, op>>,
         \A q \in Publishers : q # p => pc'[q] = pc[q] /\ retiring'[q] = retiring[q],
         \A r \in retiring[p] : pc[p] \in {"retire", "finish"} =>
           r \in retiring'[p] /\ pc'[p] \in {"retire", "finish"},
         pc[p] = "finish" /\ list[p] # {} => pc'[p] = pc[p]
  PROVE  ChanInv'
<1> USE DEF ChanInv, chanVars
<1>1. ServedInv' BY DEF ServedInv
<1>2. ListInv' BY DEF ListInv
<1>3. RetiredChannelsClosed'
  <2> SUFFICES ASSUME NEW c \in Channels, NEW q \in Publishers, WillClose(q, c)
               PROVE  WillClose(q, c)'
    BY DEF RetiredChannelsClosed
  <2>1. CASE q = p BY <2>1 DEF WillClose
  <2>2. CASE q # p BY <2>2 DEF WillClose
  <2>3. QED BY <2>1, <2>2
<1>4. QED BY <1>1, <1>2, <1>3

\* A flag is cleared: the publisher that clears it will find every channel that
\* was created on the registration in its list.
LEMMA MarkChan ==
  ASSUME Typed, PubInv, ChanInv, NEW p \in Publishers, NEW r \in Regs, Mark(p, r)
  PROVE  ChanInv'
<1> USE DEF ChanInv, chanVars
<1>1. /\ pc[p] = "retire" /\ r \in retiring[p] /\ active' = [active EXCEPT ![r] = FALSE]
      /\ UNCHANGED <<current, channels, pc, retiring, list, chanVars, op>>
  BY DEF Mark
<1>2. \A s \in Regs : active'[s] <=> active[s] /\ s # r BY <1>1 DEF Typed
<1>3. ServedInv' BY <1>1, <1>2 DEF ServedInv
<1>4. ListInv'
  <2>1. ASSUME NEW q \in Publishers, NEW c \in list[q]
        PROVE  step[c] \notin {"new", "found"} /\ ~active'[reg[c]]
    <3>1. c \in Channels /\ step[c] \notin {"new", "found"} /\ ~active[reg[c]] BY DEF ListInv, Typed
    <3>2. reg[c] \in Regs BY <3>1 DEF ServedInv
    <3>3. QED BY <1>2, <3>1, <3>2
  <2>2. ASSUME NEW c \in Channels, step[c] \in {"tracked", "attached", "done"}, active'[reg[c]]
        PROVE  c \in channels[reg[c]]
    <3>1. reg[c] \in Regs BY <2>2 DEF ServedInv
    <3>2. QED BY <1>2, <2>2, <3>1 DEF ListInv
  <2>3. QED BY <1>1, <2>1, <2>2 DEF ListInv
<1>5. RetiredChannelsClosed'
  <2> SUFFICES ASSUME NEW c \in Channels, step[c] = "done", ~closed[c], ~active'[reg[c]]
               PROVE  \E q \in Publishers : WillClose(q, c)'
    BY <1>1 DEF RetiredChannelsClosed
  <2>1. reg[c] \in Regs BY DEF ServedInv
  <2>2. CASE active[reg[c]] BY <1>1, <1>2, <2>1, <2>2 DEF ListInv, WillClose
  <2>3. CASE ~active[reg[c]]
    <3>1. PICK q \in Publishers : WillClose(q, c) BY <2>3 DEF RetiredChannelsClosed
    <3>2. QED BY <1>1, <3>1 DEF WillClose
  <2>4. QED BY <2>2, <2>3
<1>6. QED BY <1>3, <1>4, <1>5

\* The new snapshot is stored: a name whose registration changes was marked.
LEMMA StoreChan ==
  ASSUME Typed, PubInv, ChanInv, NEW p \in Publishers, Store(p)
  PROVE  ChanInv'
<1> USE DEF ChanInv, chanVars
<1>1. /\ pc[p] = "retire" /\ retiring[p] \subseteq marked[p] /\ current' = next[p]
      /\ pc' = [pc EXCEPT ![p] = "finish"] /\ previous[p] = current
      /\ UNCHANGED <<active, channels, retiring, list, chanVars, op>>
  BY DEF Store, PubInv, MutexInv, Publishing
<1>2. ASSUME NEW c \in Channels, step[c] # "new", active[reg[c]]
      PROVE  next[p].entries[name[c]] = reg[c]
  <2>1. name[c] \in Names /\ reg[c] \in Regs /\ current.entries[name[c]] = reg[c]
    BY <1>2 DEF ServedInv
  <2>2. reg[c] \notin retiring[p] BY <1>1, <1>2 DEF PubInv, FlagInv
  <2>3. PreparedInv /\ Unfinished(p) BY <1>1 DEF PubInv, Unfinished
  <2>4. QED BY <1>1, <2>1, <2>2, <2>3 DEF PreparedInv
<1>3. ServedInv' BY <1>1, <1>2 DEF ServedInv
<1>4. ListInv' BY <1>1 DEF ListInv
<1>5. RetiredChannelsClosed'
  <2> SUFFICES ASSUME NEW c \in Channels, NEW q \in Publishers, WillClose(q, c)
               PROVE  WillClose(q, c)'
    BY <1>1 DEF RetiredChannelsClosed
  <2>1. pc'[q] = IF q = p THEN "finish" ELSE pc[q] BY <1>1 DEF Typed
  <2>2. QED BY <1>1, <2>1 DEF WillClose
<1>6. QED BY <1>3, <1>4, <1>5

\* close() swaps the list out: the channels on it are the publisher's to close.
LEMMA DrainChan ==
  ASSUME Typed, PubInv, ChanInv, NEW p \in Publishers, NEW r \in Regs, Drain(p, r)
  PROVE  ChanInv'
<1> USE DEF ChanInv, chanVars
<1>1. /\ pc[p] = "finish" /\ r \in retiring[p] /\ list[p] = {} /\ ~active[r]
      /\ list' = [list EXCEPT ![p] = channels[r]] /\ channels' = [channels EXCEPT ![r] = {}]
      /\ retiring' = [retiring EXCEPT ![p] = @ \ {r}]
      /\ UNCHANGED <<current, active, pc, chanVars, op>>
  BY DEF Drain, Owned, PubInv, FlagInv
<1>2. \A q \in Publishers : /\ list'[q] = IF q = p THEN channels[r] ELSE list[q]
                            /\ retiring'[q] = IF q = p THEN retiring[q] \ {r} ELSE retiring[q]
  BY <1>1 DEF Typed
<1>3. \A s \in Regs : channels'[s] = IF s = r THEN {} ELSE channels[s] BY <1>1 DEF Typed
<1>4. ServedInv' BY <1>1 DEF ServedInv
<1>5. ListInv'
  <2>1. ASSUME NEW s \in Regs, NEW c \in channels'[s]
        PROVE  step[c] \notin {"new", "found"} /\ reg[c] = s
    BY <1>3 DEF ListInv
  <2>2. ASSUME NEW q \in Publishers, NEW c \in list'[q]
        PROVE  step[c] \notin {"new", "found"} /\ ~active[reg[c]]
    <3>1. CASE q = p
      <4>1. c \in channels[r] BY <1>2, <3>1
      <4>2. step[c] \notin {"new", "found"} /\ reg[c] = r BY <4>1 DEF ListInv
      <4>3. QED BY <1>1, <4>2
    <3>2. CASE q # p
      <4>1. c \in list[q] BY <1>2, <3>2
      <4>2. QED BY <4>1 DEF ListInv
    <3>3. QED BY <3>1, <3>2
  <2>3. ASSUME NEW c \in Channels, step[c] \in {"tracked", "attached", "done"}, active[reg[c]]
        PROVE  c \in channels'[reg[c]]
    <3>1. reg[c] \in Regs BY <2>3 DEF ServedInv
    <3>2. QED BY <1>1, <1>3, <2>3, <3>1 DEF ListInv
  <2>4. QED BY <1>1, <2>1, <2>2, <2>3 DEF ListInv
<1>6. RetiredChannelsClosed'
  <2> SUFFICES ASSUME NEW c \in Channels, step[c] = "done", ~closed[c], ~active[reg[c]]
               PROVE  \E q \in Publishers : WillClose(q, c)'
    BY <1>1 DEF RetiredChannelsClosed
  <2>1. PICK q \in Publishers : WillClose(q, c) BY DEF RetiredChannelsClosed
  <2>2. reg[c] \in Regs BY DEF ServedInv
  <2>3. CASE reg[c] = r /\ c \in channels[r]
    <3>1. WillClose(p, c)' BY <1>1, <1>2, <2>3 DEF WillClose
    <3>2. QED BY <3>1
  <2>4. CASE ~(reg[c] = r /\ c \in channels[r])
    <3>1. CASE pc[q] = "finish" /\ c \in list[q]
      <4>1. q # p BY <1>1, <3>1
      <4>2. pc'[q] = "finish" /\ c \in list'[q] BY <1>1, <1>2, <3>1, <4>1
      <4>3. QED BY <4>2 DEF WillClose
    <3>2. CASE pc[q] \in {"retire", "finish"} /\ reg[c] \in retiring[q] /\ c \in channels[reg[c]]
      <4>1. reg[c] # r BY <2>4, <3>2
      <4>2. reg[c] \in retiring'[q] BY <1>2, <3>2, <4>1
      <4>3. channels'[reg[c]] = channels[reg[c]] BY <1>3, <2>2, <4>1
      <4>4. QED BY <1>1, <3>2, <4>2, <4>3 DEF WillClose
    <3>3. QED BY <2>1, <3>1, <3>2 DEF WillClose
  <2>5. QED BY <2>3, <2>4
<1>7. QED BY <1>4, <1>5, <1>6

\* The publisher closes a channel.
LEMMA CloseChan ==
  ASSUME Typed, ChanInv, NEW p \in Publishers, NEW c \in Channels, CloseNext(p, c)
  PROVE  ChanInv'
<1> USE DEF ChanInv, chanVars
<1>1. /\ c \in list[p] /\ list' = [list EXCEPT ![p] = @ \ {c}]
      /\ \A d \in Channels : closed'[d] # closed[d] => d = c
      /\ \A d \in Channels : closed[d] => closed'[d]
      /\ step[c] = "done" => closed'[c]
      /\ UNCHANGED <<current, active, channels, pc, retiring, step, name, reg, op>>
  BY DEF CloseNext, Typed
<1>2. \A q \in Publishers : list'[q] \subseteq list[q] /\ list[q] \subseteq list'[q] \cup {c}
  BY <1>1 DEF Typed
<1>3. ServedInv' BY <1>1 DEF ServedInv
<1>4. ListInv' BY <1>1, <1>2 DEF ListInv
<1>5. RetiredChannelsClosed'
  <2> SUFFICES ASSUME NEW d \in Channels, step[d] = "done", ~closed'[d], ~active[reg[d]]
               PROVE  \E q \in Publishers : WillClose(q, d)'
    BY <1>1 DEF RetiredChannelsClosed
  <2>1. d # c BY <1>1
  <2>2. PICK q \in Publishers : WillClose(q, d) BY <1>1 DEF RetiredChannelsClosed
  <2>3. WillClose(q, d)' BY <1>1, <1>2, <2>1, <2>2 DEF WillClose
  <2>4. QED BY <2>3
<1>6. QED BY <1>3, <1>4, <1>5

\* onCreate() reads the snapshot.
LEMMA FindChan ==
  ASSUME Typed, PubInv, ChanInv, NEW c \in Channels, NEW n \in Names, Find(c, n)
  PROVE  ChanInv'
<1> USE DEF ChanInv
<1>1. /\ step[c] = "new" /\ current.entries[n] \in Regs /\ step' = [step EXCEPT ![c] = "found"]
      /\ name' = [name EXCEPT ![c] = n] /\ reg' = [reg EXCEPT ![c] = current.entries[n]]
      /\ UNCHANGED <<current, active, channels, pc, retiring, list, closed, op>>
  BY DEF Find, pubVars, PubInv, PreparedInv, Typed
<1>2. \A d \in Channels :
        /\ step'[d] = IF d = c THEN "found" ELSE step[d]
        /\ name'[d] = IF d = c THEN n ELSE name[d]
        /\ reg'[d] = IF d = c THEN current.entries[n] ELSE reg[d]
  BY <1>1 DEF Typed
<1>3. ServedInv'
  <2>1. ASSUME NEW d \in Channels, step'[d] = "new" PROVE op[d] = "none"
    BY <1>2, <2>1 DEF ServedInv
  <2>2. ASSUME NEW d \in Channels, step'[d] # "new"
        PROVE  /\ name'[d] \in Names /\ reg'[d] \in Regs
               /\ active[reg'[d]] => current.entries[name'[d]] = reg'[d]
    <3>1. CASE d = c BY <1>1, <1>2, <3>1
    <3>2. CASE d # c BY <1>2, <2>2, <3>2 DEF ServedInv
    <3>3. QED BY <3>1, <3>2
  <2>3. QED BY <1>1, <2>1, <2>2 DEF ServedInv
<1>4. ListInv'
  <2>1. ASSUME NEW r \in Regs, NEW d \in channels[r]
        PROVE  step'[d] \notin {"new", "found"} /\ reg'[d] = r
    <3>1. d \in Channels /\ step[d] \notin {"new", "found"} /\ reg[d] = r BY DEF ListInv, Typed
    <3>2. QED BY <1>1, <1>2, <3>1
  <2>2. ASSUME NEW q \in Publishers, NEW d \in list[q]
        PROVE  step'[d] \notin {"new", "found"} /\ ~active[reg'[d]]
    <3>1. d \in Channels /\ step[d] \notin {"new", "found"} /\ ~active[reg[d]] BY DEF ListInv, Typed
    <3>2. QED BY <1>1, <1>2, <3>1
  <2>3. ASSUME NEW d \in Channels, step'[d] \in {"tracked", "attached", "done"}, active[reg'[d]]
        PROVE  d \in channels[reg'[d]]
    <3>1. d # c BY <1>2, <2>3
    <3>2. QED BY <1>2, <2>3, <3>1 DEF ListInv
  <2>4. QED BY <1>1, <2>1, <2>2, <2>3 DEF ListInv
<1>5. RetiredChannelsClosed'
  <2> SUFFICES ASSUME NEW d \in Channels, step'[d] = "done", ~closed[d], ~active[reg'[d]]
               PROVE  \E q \in Publishers : WillClose(q, d)'
    BY <1>1 DEF RetiredChannelsClosed
  <2>1. d # c /\ step[d] = "done" /\ reg'[d] = reg[d] BY <1>2
  <2>2. PICK q \in Publishers : WillClose(q, d) BY <2>1 DEF RetiredChannelsClosed
  <2>3. WillClose(q, d)' BY <1>1, <2>1, <2>2 DEF WillClose
  <2>4. QED BY <2>3
<1>6. QED BY <1>3, <1>4, <1>5

\* The channel is tracked; those that are gone leave the list.
LEMMA TrackChan ==
  ASSUME Typed, ChanInv, NEW c \in Channels, track(c)
  PROVE  ChanInv'
<1> USE DEF ChanInv
<1>1. /\ step[c] = "found" /\ reg[c] \in Regs /\ step' = [step EXCEPT ![c] = "tracked"]
      /\ channels' = [channels EXCEPT ![reg[c]] = {d \in @ : step[d] # "gone"} \cup {c}]
      /\ UNCHANGED <<current, active, pc, retiring, list, name, reg, closed, op>>
  BY DEF track, pubVars, ServedInv
<1>2. \A d \in Channels : step'[d] = IF d = c THEN "tracked" ELSE step[d] BY <1>1 DEF Typed
<1>3. \A r \in Regs : channels'[r] = IF r = reg[c]
                                     THEN {d \in channels[r] : step[d] # "gone"} \cup {c}
                                     ELSE channels[r]
  BY <1>1 DEF Typed
<1>4. ServedInv' BY <1>1, <1>2 DEF ServedInv
<1>5. ListInv'
  <2>1. ASSUME NEW r \in Regs, NEW d \in channels'[r]
        PROVE  step'[d] \notin {"new", "found"} /\ reg'[d] = r
    BY <1>1, <1>2, <1>3 DEF ListInv, Typed
  <2>2. ASSUME NEW q \in Publishers, NEW d \in list'[q]
        PROVE  step'[d] \notin {"new", "found"} /\ ~active'[reg'[d]]
    BY <1>1, <1>2 DEF ListInv, Typed
  <2>3. ASSUME NEW d \in Channels, step'[d] \in {"tracked", "attached", "done"}, active'[reg'[d]]
        PROVE  d \in channels'[reg'[d]]
    <3>1. CASE d = c
      <4>1. reg[c] \in Regs /\ reg' = reg BY <1>1
      <4>2. c \in channels'[reg[c]] BY <1>3, <4>1
      <4>3. QED BY <3>1, <4>1, <4>2
    <3>2. CASE d # c
      <4>1. step[d] \in {"tracked", "attached", "done"} /\ active[reg[d]] BY <1>1, <1>2, <2>3, <3>2
      <4>2. reg[d] \in Regs BY <4>1 DEF ServedInv
      <4>3. d \in channels[reg[d]] BY <4>1 DEF ListInv
      <4>4. d \in channels'[reg[d]]
        <5>1. CASE reg[d] = reg[c] BY <1>3, <4>1, <4>2, <4>3, <5>1
        <5>2. CASE reg[d] # reg[c] BY <1>3, <4>2, <4>3, <5>2
        <5>3. QED BY <5>1, <5>2
      <4>5. QED BY <1>1, <4>4
    <3>3. QED BY <3>1, <3>2
  <2>4. QED BY <2>1, <2>2, <2>3 DEF ListInv
<1>6. RetiredChannelsClosed'
  <2> SUFFICES ASSUME NEW d \in Channels, step'[d] = "done", ~closed[d], ~active[reg[d]]
               PROVE  \E q \in Publishers : WillClose(q, d)'
    BY <1>1 DEF RetiredChannelsClosed
  <2>1. d # c /\ step[d] = "done" /\ reg[d] \in Regs BY <1>2 DEF ServedInv
  <2>2. PICK q \in Publishers : WillClose(q, d) BY <2>1 DEF RetiredChannelsClosed
  <2>3. d \in channels[reg[d]] => d \in channels'[reg[d]] BY <1>3, <2>1
  <2>4. WillClose(q, d)' BY <1>1, <2>2, <2>3 DEF WillClose
  <2>5. QED BY <2>4
<1>7. QED BY <1>4, <1>5, <1>6

\* The rest of onCreate(), and the end of a channel: the flag is read again after
\* attach(), when the channel is on the list of its registration or was taken from it.
LEMMA CreateFacts ==
  ASSUME Typed, ChanInv, NEW c \in Channels,
         step[c] # "new", step[c] # "found", step'[c] \in {"attached", "done", "gone"},
         \A d \in Channels : d # c => step'[d] = step[d] /\ closed'[d] = closed[d],
         step'[c] = "done" /\ ~closed'[c] => active[reg[c]],
         step'[c] # "gone" => step[c] \in {"tracked", "attached"},
         UNCHANGED <<current, active, channels, pc, retiring, list, name, reg, op>>
  PROVE  ChanInv'
<1> USE DEF ChanInv
<1>0. \A d \in Channels : step'[d] # step[d] => d = c OBVIOUS
<1>1. ServedInv' BY <1>0 DEF ServedInv
<1>2. ListInv'
  <2>1. ASSUME NEW d \in Channels, step[d] \notin {"new", "found"}
        PROVE  step'[d] \notin {"new", "found"}
    BY <2>1
  <2>2. ASSUME NEW d \in Channels, step'[d] \in {"tracked", "attached", "done"}, active[reg[d]]
        PROVE  d \in channels[reg[d]]
    <3>1. step[d] \in {"tracked", "attached", "done"} BY <2>2
    <3>2. QED BY <2>2, <3>1 DEF ListInv
  <2>3. /\ \A r \in Regs : channels[r] \subseteq Channels
        /\ \A q \in Publishers : list[q] \subseteq Channels
    BY DEF Typed
  <2>4. \A r \in Regs : \A d \in channels[r] : step'[d] \notin {"new", "found"} /\ reg[d] = r
    BY <2>1, <2>3 DEF ListInv
  <2>5. \A q \in Publishers : \A d \in list[q] : step'[d] \notin {"new", "found"} /\ ~active[reg[d]]
    BY <2>1, <2>3 DEF ListInv
  <2>6. QED BY <2>2, <2>4, <2>5 DEF ListInv
<1>3. RetiredChannelsClosed'
  <2> SUFFICES ASSUME NEW d \in Channels, step'[d] = "done", ~closed'[d], ~active[reg[d]]
               PROVE  \E q \in Publishers : WillClose(q, d)'
    BY DEF RetiredChannelsClosed
  <2>1. d # c OBVIOUS
  <2>2. PICK q \in Publishers : WillClose(q, d) BY <2>1 DEF RetiredChannelsClosed
  <2>3. WillClose(q, d)' BY <2>2 DEF WillClose
  <2>4. QED BY <2>3
<1>4. QED BY <1>1, <1>2, <1>3

\* The actions that do so.
LEMMA CreateChan ==
  ASSUME Typed, ChanInv, NEW c \in Channels,
         WrapperRefuses(c) \/ attach(c) \/ Created(c) \/ Destroyed(c)
  PROVE  ChanInv'
<1> DEFINE Facts ==
             /\ step[c] # "new"
             /\ step'[c] \in {"attached", "done", "gone"}
             /\ \A d \in Channels : d # c => step'[d] = step[d] /\ closed'[d] = closed[d]
             /\ step'[c] = "done" /\ ~closed'[c] => active[reg[c]]
             /\ step'[c] # "gone" => step[c] \in {"tracked", "attached"}
             /\ step[c] # "found"
             /\ UNCHANGED <<current, active, channels, pc, retiring, list, name, reg, op>>
<1>1. CASE WrapperRefuses(c) \/ Destroyed(c)
  <2>1. Facts BY <1>1 DEF WrapperRefuses, Destroyed, Typed, pubVars
  <2>2. QED BY <2>1, CreateFacts
<1>2. CASE attach(c)
  <2>1. Facts BY <1>2 DEF attach, Typed, pubVars
  <2>2. QED BY <2>1, CreateFacts
<1>3. CASE Created(c)
  <2>1. Facts BY <1>3 DEF Created, CloseIfRetired, Typed, pubVars
  <2>2. QED BY <2>1, CreateFacts
<1>4. QED BY <1>1, <1>2, <1>3

\* Operations start only on channels that exist.
LEMMA OperationChan ==
  ASSUME Typed, ChanInv, NEW c \in Channels, Request(c) \/ Dispatch(c) \/ Ended(c)
  PROVE  ChanInv'
<1> USE DEF ChanInv
<1>0. step[c] # "new" BY DEF Request, Dispatch, Ended, ServedInv
<1>1. /\ step[c] # "new" /\ \A d \in Channels : d # c => op'[d] = op[d]
      /\ UNCHANGED <<current, active, channels, pc, retiring, list, step, name, reg, closed>>
  <2>1. op \in [Channels -> {"none", "queued", "dispatched"}] BY DEF Typed
  <2>2. QED BY <1>0, <2>1 DEF Request, Dispatch, Ended, pubVars, chanVars
<1>2. ServedInv' BY <1>1 DEF ServedInv
<1>3. ListInv' BY <1>1 DEF ListInv
<1>4. RetiredChannelsClosed' BY <1>1 DEF RetiredChannelsClosed, WillClose
<1>5. QED BY <1>2, <1>3, <1>4

\* Every step keeps the invariant of the channels.
LEMMA ChanNext == ASSUME Typed, PubInv, ChanInv, [Next]_vars PROVE ChanInv'
<1>1. ASSUME NEW p \in Publishers, NEW desired \in [Names -> Bindings \cup {None}],
             Prepare(p, desired)
      PROVE  ChanInv'
  <2>1. PreparedInv BY DEF PubInv
  <2>2. /\ pc[p] = "idle" /\ pc' = [pc EXCEPT ![p] = "prepared"]
        /\ retiring' = [retiring EXCEPT ![p] = retiring'[p]]
        /\ UNCHANGED <<current, active, channels, list, chanVars, op>>
    BY <1>1, <2>1, PrepareFacts
  <2>3. \A q \in Publishers : q # p => pc'[q] = pc[q] /\ retiring'[q] = retiring[q]
    BY <2>2 DEF Typed
  <2>4. QED BY <2>2, <2>3, QuietChan
<1>2. ASSUME NEW p \in Publishers, Refuse(p) \/ CommitFails(p) \/ Finished(p) PROVE ChanInv'
  <2>1. /\ pc[p] = "finish" => list[p] = {} /\ retiring[p] = {}
        /\ pc[p] # "retire"
        /\ UNCHANGED <<current, active, channels, list, chanVars, op>>
        /\ \A q \in Publishers : q # p => pc'[q] = pc[q] /\ retiring'[q] = retiring[q]
    BY <1>2 DEF Refuse, CommitFails, Finished, Return, Typed
  <2>2. QED BY <2>1, QuietChan
<1>3. ASSUME NEW p \in Publishers, Publish(p) \/ CommitSucceeds(p) PROVE ChanInv'
  <2>1. /\ pc[p] \in {"prepared", "commit"}
        /\ UNCHANGED <<current, active, channels, list, chanVars, op>>
        /\ \A q \in Publishers : q # p => pc'[q] = pc[q] /\ retiring'[q] = retiring[q]
    BY <1>3 DEF Publish, CommitSucceeds, Typed
  <2>2. QED BY <2>1, QuietChan
<1>4. ASSUME NEW p \in Publishers, PublisherStep(p) PROVE ChanInv'
  BY <1>1, <1>2, <1>3, <1>4, MarkChan, StoreChan, DrainChan, CloseChan DEF PublisherStep
<1>5. ASSUME NEW c \in Channels, ChannelStep(c) PROVE ChanInv'
  BY <1>5, FindChan, TrackChan, CreateChan, OperationChan DEF ChannelStep
<1>6. CASE UNCHANGED vars
  BY <1>6 DEF vars, pubVars, chanVars, ChanInv, ServedInv, ListInv, RetiredChannelsClosed, WillClose
<1>7. QED BY <1>4, <1>5, <1>6 DEF Next

-----------------------------------------------------------------------------
(* Theorems *)

\* The inductive invariant of the registry.
THEOREM Invariance == Spec => []IInv
<1>1. ASSUME IInv, [Next]_vars PROVE IInv'
  <2>1. Typed /\ PubInv /\ PreparedInv /\ ChanInv BY <1>1 DEF IInv, PubInv
  <2>2. Typed' /\ PubInv' /\ ChanInv' BY <1>1, <2>1, TypedNext, PubNext, ChanNext
  <2>3. QED BY <2>2 DEF IInv
<1>2. Init => IInv BY InitPub, InitChan DEF IInv
<1>3. QED BY <1>1, <1>2, PTL DEF Spec

\* Outside a publication every served registration is active, whatever publishers
\* prepare and publish() at the same time.
THEOREM Served == Spec => []ServedAreActive
<1>1. IInv => ServedAreActive
  <2> SUFFICES ASSUME IInv, publishMutexFree, NEW n \in Names, current.entries[n] # None
               PROVE  active[current.entries[n]]
    BY DEF ServedAreActive, Registered
  <2>1. \A p \in Publishers : pc[p] # "retire" BY DEF publishMutexFree
  <2>2. QED BY <2>1 DEF IInv, PubInv, FlagInv
<1>2. QED BY <1>1, Invariance, PTL

\* However onCreate() and publish() interleave, no channel that was created on a
\* retired registration is left open.
THEOREM Closed == Spec => []RetiredChannelsClosed
<1>1. IInv => RetiredChannelsClosed BY DEF IInv, ChanInv
<1>2. QED BY <1>1, Invariance, PTL

\* The registry closes only channels of retired registrations.
THEOREM OthersStayOpen == Spec => OnlyRetiredClosed
<1> DEFINE A == \A c \in Channels : ~closed[c] /\ closed'[c] /\ step'[c] # "gone" => ~active[reg[c]]
<1>1. ASSUME IInv, Next PROVE A
  <2> SUFFICES ASSUME NEW c \in Channels, ~closed[c], closed'[c], step'[c] # "gone"
               PROVE  ~active[reg[c]]
    OBVIOUS
  <2>1. ASSUME NEW p \in Publishers, PublisherStep(p) PROVE ~active[reg[c]]
    <3>1. PICK d \in Channels : CloseNext(p, d)
      BY <2>1 DEF PublisherStep, Prepare, Refuse, Publish, CommitFails, CommitSucceeds, Mark, Store,
                  Drain, Finished, Return, chanVars
    <3>2. c = d /\ c \in list[p] BY <1>1, <3>1 DEF CloseNext, IInv, Typed
    <3>3. QED BY <1>1, <3>2 DEF IInv, ChanInv, ListInv
  <2>2. ASSUME NEW d \in Channels, ChannelStep(d) PROVE ~active[reg[c]]
    <3>1. Created(d) \/ WrapperRefuses(d) \/ Destroyed(d)
      BY <2>2 DEF ChannelStep, Find, track, attach, Request, Dispatch, Ended, chanVars
    <3>2. CASE Created(d) BY <1>1, <3>2 DEF Created, CloseIfRetired, IInv, Typed
    <3>3. CASE WrapperRefuses(d) BY <1>1, <3>3 DEF WrapperRefuses, IInv, Typed
    <3>4. CASE Destroyed(d) BY <1>1, <3>4 DEF Destroyed, IInv, Typed
    <3>5. QED BY <3>1, <3>2, <3>3, <3>4
  <2>3. QED BY <1>1, <2>1, <2>2 DEF Next
<1>2. IInv /\ [Next]_vars => [A]_vars BY <1>1
<1>3. QED BY <1>2, Invariance, PTL DEF Spec, OnlyRetiredClosed

\* authorized() lets a queued operation through only where the published namespace
\* still holds, under its name, the registration that admitted it.
THEOREM Dispatched == Spec => DispatchedOnServed
<1> DEFINE A == \A c \in Channels : op[c] = "queued" /\ op'[c] = "dispatched"
                  => current.entries[name[c]] = reg[c]
<1>1. ASSUME IInv, Next PROVE A
  <2> SUFFICES ASSUME NEW c \in Channels, op[c] = "queued", op'[c] = "dispatched"
               PROVE  current.entries[name[c]] = reg[c]
    OBVIOUS
  <2>1. ~\E p \in Publishers : PublisherStep(p)
    <3>1. ASSUME NEW p \in Publishers, PublisherStep(p) PROVE op' = op
      BY ZenonT(30), <3>1 DEF PublisherStep, Prepare, Refuse, Publish, CommitFails, CommitSucceeds, Mark,
                              Store, Drain, CloseNext, Finished, Return
    <3>2. QED BY <3>1
  <2>2. PICK d \in Channels : ChannelStep(d) BY <1>1, <2>1 DEF Next
  <2>3. d = c /\ Dispatch(c)
    BY <1>1, <2>2 DEF ChannelStep, Find, track, WrapperRefuses, attach, Created, Destroyed,
                Request, Dispatch, Ended, IInv, Typed
  <2>4. step[c] # "new" /\ active[reg[c]] BY <1>1, <2>3 DEF Dispatch, authorized, IInv, ChanInv, ServedInv
  <2>5. QED BY <1>1, <2>4 DEF IInv, ChanInv, ServedInv
<1>2. IInv /\ [Next]_vars => [A]_vars BY <1>1
<1>3. QED BY <1>2, Invariance, PTL DEF Spec, DispatchedOnServed
=============================================================================
