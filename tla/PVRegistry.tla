----------------------------- MODULE PVRegistry -----------------------------
(***************************************************************************)
(* The endpoint registry of src/src/pv_registry.cpp.  A publisher prepares *)
(* a snapshot of the whole namespace off-line and then replaces the        *)
(* published one; a registration owns the channels that were created under *)
(* one served name.  Every action is one atomic access: the snapshot       *)
(* pointer, an `active` flag, a registration's list of channels, or the    *)
(* call of one channel.                                                    *)
(*                                                                         *)
(* A binding stands for the pair of owner and access assignment, the only  *)
(* part of a PVBinding that prepare() compares.                            *)
(***************************************************************************)
EXTENDS Naturals

CONSTANTS
  Names, Bindings,
  Regs,          \* the identities of Registration objects
  Publishers,    \* threads that publish
  Channels,      \* channels that clients open
  None,
  MaxSnapshots   \* bound: snapshots ever prepared

ASSUME RegistryAssumption ==
  None \notin Bindings /\ None \notin Regs /\ None \notin Names /\ MaxSnapshots \in Nat

VARIABLES
  current,       \* the published snapshot, with its identity
  snapshots,     \* the last identity given
  made,          \* registrations that exist
  binding, active, channels,   \* their fields
  pc,            \* what a publisher does: "idle", "prepared", "commit", "retire", "finish"
  previous, next, retiring,    \* the fields of its Prepared
  marked,        \* the members of `retiring` whose flag it has cleared
  list,          \* the channels that Registration::close() has swapped out
  step,          \* how far onCreate() is: "new", "found", "tracked", "attached", "done", "gone"
  name, reg,     \* the served name and the registration of a channel
  closed,        \* the channel has been closed, by the registry or by its peer
  op             \* an operation of the channel: "none", "queued" or "dispatched"

pubVars == <<pc, previous, next, retiring, marked, list>>
chanVars == <<step, name, reg, closed>>
vars == <<current, snapshots, made, binding, active, channels, pubVars, chanVars, op>>

Entries == [Names -> Regs \cup {None}]
Snapshots == [id : Nat, entries : Entries]
Empty == [id |-> 0, entries |-> [n \in Names |-> None]]
Registered(s) == {s.entries[n] : n \in Names} \ {None}

Init ==
  /\ current = Empty /\ snapshots = 0 /\ made = {}
  /\ binding \in [Regs -> {None}] /\ active = [r \in Regs |-> TRUE]
  /\ channels = [r \in Regs |-> {}]
  /\ pc = [p \in Publishers |-> "idle"]
  /\ previous = [p \in Publishers |-> Empty] /\ next = [p \in Publishers |-> Empty]
  /\ retiring = [p \in Publishers |-> {}] /\ marked = [p \in Publishers |-> {}]
  /\ list = [p \in Publishers |-> {}]
  /\ step = [c \in Channels |-> "new"] /\ name = [c \in Channels |-> None]
  /\ reg = [c \in Channels |-> None] /\ closed = [c \in Channels |-> FALSE]
  /\ op = [c \in Channels |-> "none"]

-----------------------------------------------------------------------------
(* Publication *)

Keeps(n, desired) == current.entries[n] # None /\ binding[current.entries[n]] = desired[n]

\* prepare(): the names of `desired` that change get a registration of their own.
\* clear() desires no name.
Prepare(p, desired) ==
  LET wanted == {n \in Names : desired[n] # None}
      renewed == {n \in wanted : ~Keeps(n, desired)}
  IN /\ pc[p] = "idle" /\ snapshots < MaxSnapshots
     /\ \E fresh \in [renewed -> Regs \ made] :
          LET entries == [n \in Names |-> IF n \in renewed THEN fresh[n]
                                         ELSE IF n \in wanted THEN current.entries[n] ELSE None]
          IN /\ \A m, n \in renewed : fresh[m] = fresh[n] => m = n
             /\ made' = made \cup {fresh[n] : n \in renewed}
             /\ binding' = [r \in Regs |-> IF \E n \in renewed : fresh[n] = r
                                           THEN desired[CHOOSE n \in renewed : fresh[n] = r]
                                           ELSE binding[r]]
             /\ next' = [next EXCEPT ![p] = [id |-> snapshots + 1, entries |-> entries]]
             /\ retiring' = [retiring EXCEPT ![p] =
                  {r \in Regs : \E n \in Names : current.entries[n] = r /\ entries[n] # r}]
     /\ snapshots' = snapshots + 1
     /\ previous' = [previous EXCEPT ![p] = current]
     /\ pc' = [pc EXCEPT ![p] = "prepared"]
     /\ UNCHANGED <<current, active, channels, marked, list, chanVars, op>>

publishMutexFree == \A p \in Publishers : pc[p] \notin {"commit", "retire"}

\* Mutant of Unchanged: the snapshot the preparation started from is not compared.
UnchangedOrNot(p) == TRUE

\* The published snapshot is still the object that prepare() read.
Unchanged(p) == previous[p] = current

\* The Prepared goes with the call that used it.
Return(p) ==
  /\ pc' = [pc EXCEPT ![p] = "idle"]
  /\ previous' = [previous EXCEPT ![p] = Empty] /\ next' = [next EXCEPT ![p] = Empty]
  /\ retiring' = [retiring EXCEPT ![p] = {}] /\ marked' = [marked EXCEPT ![p] = {}]
  /\ UNCHANGED <<current, snapshots, made, binding, active, channels, list, chanVars, op>>

\* publish() refuses a preparation that another publication has overtaken.
Refuse(p) == pc[p] = "prepared" /\ publishMutexFree /\ ~Unchanged(p) /\ Return(p)

\* publish() holds publishMutex and calls beforeCommit, ...
Publish(p) ==
  /\ pc[p] = "prepared" /\ publishMutexFree /\ Unchanged(p)
  /\ pc' = [pc EXCEPT ![p] = "commit"]
  /\ UNCHANGED <<current, snapshots, made, binding, active, channels, previous, next, retiring,
                 marked, list, chanVars, op>>

\* ... which may fail, ...
CommitFails(p) == pc[p] = "commit" /\ Return(p)

CommitSucceeds(p) ==
  /\ pc[p] = "commit"
  /\ pc' = [pc EXCEPT ![p] = "retire"]
  /\ UNCHANGED <<current, snapshots, made, binding, active, channels, previous, next, retiring,
                 marked, list, chanVars, op>>

\* ... then clears the flags of the retiring registrations one by one ...
Mark(p, r) ==
  /\ pc[p] = "retire" /\ r \in retiring[p] \ marked[p]
  /\ active' = [active EXCEPT ![r] = FALSE]
  /\ marked' = [marked EXCEPT ![p] = @ \cup {r}]
  /\ UNCHANGED <<current, snapshots, made, binding, channels, pc, previous, next, retiring, list,
                 chanVars, op>>

\* ... and stores the snapshot.
Store(p) ==
  /\ pc[p] = "retire" /\ retiring[p] \subseteq marked[p]
  /\ current' = next[p]
  /\ pc' = [pc EXCEPT ![p] = "finish"]
  /\ UNCHANGED <<snapshots, made, binding, active, channels, previous, next, retiring, marked, list,
                 chanVars, op>>

\* Mutant of Owned: closing a registration closes its SharedPV.
OwnedByPV(r) == UNION {channels[q] : q \in {s \in Regs : binding[s] = binding[r]}}

Owned(r) == channels[r]

\* finish(): Registration::close() swaps the list of channels out ...
Drain(p, r) ==
  /\ pc[p] = "finish" /\ list[p] = {} /\ r \in retiring[p]
  /\ list' = [list EXCEPT ![p] = Owned(r)]
  /\ channels' = [channels EXCEPT ![r] = {}]
  /\ retiring' = [retiring EXCEPT ![p] = @ \ {r}]
  /\ UNCHANGED <<current, snapshots, made, binding, active, pc, previous, next, marked, chanVars, op>>

\* ... and closes each that still exists.  Closing a channel that is not attached
\* yet may be without effect: attach() installs its handlers afterwards.
CloseNext(p, c) ==
  /\ pc[p] = "finish" /\ c \in list[p]
  /\ list' = [list EXCEPT ![p] = @ \ {c}]
  /\ \E effective \in IF step[c] = "tracked" THEN BOOLEAN ELSE {TRUE} :
       closed' = [closed EXCEPT ![c] = @ \/ effective]
  /\ UNCHANGED <<current, snapshots, made, binding, active, channels, pc, previous, next, retiring,
                 marked, step, name, reg, op>>

Finished(p) == pc[p] = "finish" /\ list[p] = {} /\ retiring[p] = {} /\ Return(p)

PublisherStep(p) ==
  \/ \E desired \in [Names -> Bindings \cup {None}] : Prepare(p, desired)
  \/ Refuse(p) \/ Publish(p) \/ CommitFails(p) \/ CommitSucceeds(p)
  \/ (\E r \in Regs : Mark(p, r)) \/ Store(p)
  \/ (\E r \in Regs : Drain(p, r)) \/ (\E c \in Channels : CloseNext(p, c)) \/ Finished(p)

-----------------------------------------------------------------------------
(* onCreate(), on a thread of the server *)

\* A name that the snapshot does not hold is left to other sources.
Find(c, n) ==
  /\ step[c] = "new" /\ current.entries[n] # None
  /\ step' = [step EXCEPT ![c] = "found"]
  /\ name' = [name EXCEPT ![c] = n]
  /\ reg' = [reg EXCEPT ![c] = current.entries[n]]
  /\ UNCHANGED <<current, snapshots, made, binding, active, channels, pubVars, closed, op>>

\* TrackedChannel(): track() drops the channels that no longer exist.
track(c) ==
  /\ step[c] = "found"
  /\ step' = [step EXCEPT ![c] = "tracked"]
  /\ channels' = [channels EXCEPT ![reg[c]] = {d \in @ : step[d] # "gone"} \cup {c}]
  /\ UNCHANGED <<current, snapshots, made, binding, active, pubVars, name, reg, closed, op>>

\* The wrapper returns no channel, and the channel is destroyed.
WrapperRefuses(c) ==
  /\ step[c] = "tracked"
  /\ step' = [step EXCEPT ![c] = "gone"] /\ closed' = [closed EXCEPT ![c] = TRUE]
  /\ UNCHANGED <<current, snapshots, made, binding, active, channels, pubVars, name, reg, op>>

attach(c) ==
  /\ step[c] = "tracked"
  /\ step' = [step EXCEPT ![c] = "attached"]
  /\ UNCHANGED <<current, snapshots, made, binding, active, channels, pubVars, name, reg, closed, op>>

\* Mutant of CloseIfRetired: the flag is not read again after attach().
LeaveOpen(c) == closed[c]

CloseIfRetired(c) == closed[c] \/ ~active[reg[c]]

Created(c) ==
  /\ step[c] = "attached"
  /\ step' = [step EXCEPT ![c] = "done"]
  /\ closed' = [closed EXCEPT ![c] = CloseIfRetired(c)]
  /\ UNCHANGED <<current, snapshots, made, binding, active, channels, pubVars, name, reg, op>>

\* The peer closes its channel, or the server destroys a closed one.
Destroyed(c) ==
  /\ step[c] = "done"
  /\ step' = [step EXCEPT ![c] = "gone"] /\ closed' = [closed EXCEPT ![c] = TRUE]
  /\ UNCHANGED <<current, snapshots, made, binding, active, channels, pubVars, name, reg, op>>

-----------------------------------------------------------------------------
(* Operations *)

\* TrackedChannel and TrackedConnect: an operation that starts on a retired
\* registration is answered "endpoint retired".
Request(c) ==
  /\ step[c] \in {"attached", "done"} /\ ~closed[c] /\ op[c] = "none" /\ active[reg[c]]
  /\ op' = [op EXCEPT ![c] = "queued"]
  /\ UNCHANGED <<current, snapshots, made, binding, active, channels, pubVars, chanVars>>

\* Mutant of authorized: the lease of the registration is not tested again.
authorizedAtAdmission(c) == TRUE

\* TrackedExec::authorized(), where the access control allows the operation.
authorized(c) == active[reg[c]]

\* A queued put or RPC is dispatched, though its channel may be closed by then.
Dispatch(c) ==
  /\ op[c] = "queued" /\ authorized(c)
  /\ op' = [op EXCEPT ![c] = "dispatched"]
  /\ UNCHANGED <<current, snapshots, made, binding, active, channels, pubVars, chanVars>>

\* It has been refused, or has ended.
Ended(c) ==
  /\ op[c] # "none" /\ (op[c] = "queued" => ~authorized(c))
  /\ op' = [op EXCEPT ![c] = "none"]
  /\ UNCHANGED <<current, snapshots, made, binding, active, channels, pubVars, chanVars>>

ChannelStep(c) ==
  \/ \E n \in Names : Find(c, n)
  \/ track(c) \/ WrapperRefuses(c) \/ attach(c) \/ Created(c) \/ Destroyed(c)
  \/ Request(c) \/ Dispatch(c) \/ Ended(c)

Next == (\E p \in Publishers : PublisherStep(p)) \/ (\E c \in Channels : ChannelStep(c))

Spec == Init /\ [][Next]_vars

-----------------------------------------------------------------------------
(* Properties *)

\* Outside a publication every served registration is active: publish() never
\* stores a snapshot that was prepared before another publication, which could
\* serve again what the other has retired.
ServedAreActive == publishMutexFree => \A r \in Registered(current) : active[r]

\* The publisher has yet to close the channel.
WillClose(p, c) ==
  \/ pc[p] \in {"retire", "finish"} /\ reg[c] \in retiring[p] /\ c \in channels[reg[c]]
  \/ pc[p] = "finish" /\ c \in list[p]

\* However onCreate() and a retirement interleave, a channel that has been created
\* on a retired registration is closed, or a publisher is about to close it.
RetiredChannelsClosed ==
  \A c \in Channels :
    step[c] = "done" /\ ~closed[c] /\ ~active[reg[c]] => \E p \in Publishers : WillClose(p, c)

\* The registry closes no channel of a registration that stays: a publication that
\* removes an alias leaves the channels of the other names of the PV alone.
OnlyRetiredClosed ==
  [][\A c \in Channels : ~closed[c] /\ closed'[c] /\ step'[c] # "gone" => ~active[reg[c]]]_vars

\* A queued operation is dispatched only while its name is served by the
\* registration that admitted it, though the namespace was published anew between.
DispatchedOnServed ==
  [][\A c \in Channels : op[c] = "queued" /\ op'[c] = "dispatched"
       => current.entries[name[c]] = reg[c]]_vars
=============================================================================
