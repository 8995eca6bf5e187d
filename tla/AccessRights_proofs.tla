------------------------ MODULE AccessRights_proofs ------------------------
(***************************************************************************)
(* The cached rights, for every set of channels, identities and policies.  *)
(*                                                                         *)
(* The argument: the server's threads and the application write to one     *)
(* channel at a time, so what they keep is said of one channel.  A channel *)
(* whose access has not changed behind initialize() either has the rights  *)
(* its clients give, or has had them taken away; then it is marked, and    *)
(* what is marked is queued, or the whole list is to be recomputed.  What  *)
(* it was opened with is never lost in between: it is the cached rights,   *)
(* the rights put aside, or what the callback holds in its hands.          *)
(***************************************************************************)
EXTENDS AccessRights, TLAPS

Steps == {"new", "added", "stored", "cleared", "initialized", "joined", "open", "gone"}
Mains == {"idle", "compute", "clear", "note", "recompute"}

Typed ==
  /\ policy \in [Users -> SUBSET Rights]
  /\ access \in [Channels -> [Users -> SUBSET Rights]]
  /\ rights \in [Channels -> SUBSET Rights] /\ rightsBeforeChange \in [Channels -> SUBSET Rights]
  /\ dirty \in [Channels -> BOOLEAN] /\ initialized \in [Channels -> BOOLEAN]
  /\ step \in [Channels -> Steps]
  /\ read \in [Channels -> SUBSET Users] /\ found \in [Channels -> SUBSET Rights]
  /\ closed \in [Channels -> BOOLEAN] /\ overtaken \in [Channels -> BOOLEAN]
  /\ granted \in [Channels -> SUBSET Rights]
  /\ main \in Mains

\* The callback that runs, if any, and what it holds.
Caller ==
  /\ main = "clear" => \E c \in Channels : client = <<c>>
  /\ main = "note" => \E c \in Channels, r \in SUBSET Rights : client = <<c, r>>

Called(c) == main \in {"clear", "note"} /\ client[1] = c
Held(c) == IF main = "note" /\ client[1] = c THEN client[2] ELSE {}

\* The library computes, and calls back, clients that initialize() has added.
ClientInv(c) ==
  step[c] = "new" =>
    /\ ~Called(c) /\ ~overtaken[c]
    /\ main = "compute" \/ main = "clear" \/ main = "note" => \A u \in Users : <<c, u>> \notin todo

\* What the fields say of how far initialize() has come.
PhaseInv(c) ==
  /\ initialized[c] <=> step[c] \in {"initialized", "joined", "open", "gone"}
  /\ c \in members <=> step[c] \in {"joined", "open"}
  /\ c \in queue => initialized[c]
  /\ dirty[c] => initialized[c]
  /\ step[c] = "new" => found[c] = {} /\ read[c] = {}

\* While initialize() runs and no access changes behind it, what it reads is the access.
StartInv(c) ==
  ~overtaken[c] =>
    /\ step[c] \in {"new", "added", "stored", "cleared", "initialized"} =>
         rightsBeforeChange[c] = {} /\ ~dirty[c] /\ ~Called(c)
    /\ step[c] = "added" => found[c] = UNION {access[c][u] : u \in read[c]}
    /\ step[c] \in {"stored", "cleared", "initialized"} =>
         rights[c] = Allowed(c) /\ granted[c] = Allowed(c)

\* Once a channel is a member, a change is either noted or its callback is on the way.
MemberInv(c) ==
  ~overtaken[c] /\ step[c] \in {"joined", "open"} =>
    /\ dirty[c] => rights[c] = {} /\ Held(c) = {}
    /\ dirty[c] => c \in queue \/ recomputeNeeded \/ (main = "recompute" /\ c \in todo)
    /\ ~dirty[c] => rightsBeforeChange[c] = {}
    /\ ~dirty[c] /\ ~Called(c) => rights[c] = Allowed(c)
    /\ main = "note" /\ client[1] = c => rights[c] = {}
    /\ ~closed[c] => granted[c] = rightsBeforeChange[c] \cup rights[c] \cup Held(c)

ChannelInv(c) == ClientInv(c) /\ PhaseInv(c) /\ StartInv(c) /\ MemberInv(c)

IInv == Typed /\ Caller /\ \A c \in Channels : ChannelInv(c)

-----------------------------------------------------------------------------
(* One channel *)

\* A step leaves these fields of a channel alone.
Kept(d) ==
  /\ access'[d] = access[d] /\ rights'[d] = rights[d]
  /\ rightsBeforeChange'[d] = rightsBeforeChange[d] /\ dirty'[d] = dirty[d]
  /\ initialized'[d] = initialized[d] /\ step'[d] = step[d]
  /\ read'[d] = read[d] /\ found'[d] = found[d] /\ closed'[d] = closed[d]
  /\ overtaken'[d] = overtaken[d] /\ granted'[d] = granted[d]
  /\ d \in members' <=> d \in members

\* What a channel may do follows from the access of its own clients.
LEMMA AllowedSame ==
  ASSUME NEW d \in Channels, access'[d] = access[d]
  PROVE  Allowed(d)' = Allowed(d)
BY DEF Allowed

\* What initialize() has read of a channel follows from the access of its own clients.
LEMMA ReadSame ==
  ASSUME NEW d \in Channels, access'[d] = access[d], read'[d] = read[d]
  PROVE  (UNION {access[d][u] : u \in read[d]})' = UNION {access[d][u] : u \in read[d]}
OBVIOUS

\* A step of the server's thread for another channel keeps what is said of this one.
LEMMA ServerFrame ==
  ASSUME IInv, NEW d \in Channels, Kept(d), UNCHANGED <<mainVars, queue, recomputeNeeded>>
  PROVE  ChannelInv(d)'
<1> USE DEF mainVars
<1> ChannelInv(d)
  BY DEF IInv
<1>1. Allowed(d)' = Allowed(d)
  BY AllowedSame DEF Kept
<1>2. (UNION {access[d][u] : u \in read[d]})' = UNION {access[d][u] : u \in read[d]}
  BY ReadSame DEF Kept
<1>3. ClientInv(d)'
  BY DEF ChannelInv, ClientInv, Called, Kept
<1>4. PhaseInv(d)'
  BY DEF ChannelInv, PhaseInv, Kept
<1>5. StartInv(d)'
  BY <1>1, <1>2 DEF ChannelInv, StartInv, Called, Kept
<1>6. MemberInv(d)'
  BY <1>1 DEF ChannelInv, MemberInv, Called, Held, Kept
<1> QED
  BY <1>3, <1>4, <1>5, <1>6 DEF ChannelInv

\* A step that leaves the callback alone keeps the form of its record.
LEMMA CallerFrame ==
  ASSUME IInv, UNCHANGED <<main, client>>
  PROVE  Caller'
BY DEF IInv, Caller

\* The invariant holds again when it holds of the shape, the callback and each channel.
LEMMA Together ==
  ASSUME Typed', Caller', \A d \in Channels : ChannelInv(d)'
  PROVE  IInv'
BY DEF IInv

-----------------------------------------------------------------------------
(* The steps of initialize() *)

\* asAddClient(): the access of a new channel is that of the policy in force.
LEMMA AddClientsKeeps ==
  ASSUME IInv, NEW c \in Channels, AddClients(c)
  PROVE  IInv'
<1> USE DEF AddClients, chanVars, mainVars
<1>1. Typed'
  BY DEF IInv, Typed, Steps
<1>2. Caller'
  BY CallerFrame
<1>3. ASSUME NEW d \in Channels, d # c
      PROVE  ChannelInv(d)'
  <2>1. Kept(d)
    BY <1>3 DEF Kept, IInv, Typed
  <2> QED
    BY <1>3, <2>1, ServerFrame
<1>4. ChannelInv(c)'
  <2>1. ChannelInv(c)
    BY DEF IInv
  <2>2. step'[c] = "added" /\ access'[c] = policy
    BY DEF IInv, Typed
  <2>3. found'[c] = UNION {access'[c][u] : u \in read'[c]}
    BY <2>1, <2>2 DEF ChannelInv, PhaseInv
  <2>4. ClientInv(c)'
    BY <2>2 DEF ClientInv
  <2>5. PhaseInv(c)'
    BY <2>1, <2>2 DEF ChannelInv, PhaseInv
  <2>6. StartInv(c)'
    BY <2>1, <2>2, <2>3 DEF ChannelInv, ClientInv, PhaseInv, StartInv, Called
  <2>7. MemberInv(c)'
    BY <2>2 DEF MemberInv
  <2> QED
    BY <2>4, <2>5, <2>6, <2>7 DEF ChannelInv
<1> QED
  BY <1>1, <1>2, <1>3, <1>4, Together

\* recompute(false): what has been read of the access is what has been read so far.
LEMMA ReadClientKeeps ==
  ASSUME IInv, NEW c \in Channels, NEW v \in Users, ReadClient(c, v)
  PROVE  IInv'
<1> USE DEF ReadClient, chanVars, mainVars
<1>1. Typed'
  BY DEF IInv, Typed
<1>2. Caller'
  BY CallerFrame
<1>3. ASSUME NEW d \in Channels, d # c
      PROVE  ChannelInv(d)'
  <2>1. Kept(d)
    BY <1>3 DEF Kept, IInv, Typed
  <2> QED
    BY <1>3, <2>1, ServerFrame
<1>4. ChannelInv(c)'
  <2>1. ChannelInv(c)
    BY DEF IInv
  <2>2. step[c] = "added" /\ step'[c] = "added"
    OBVIOUS
  <2>3. read'[c] = read[c] \cup {v} /\ found'[c] = found[c] \cup access[c][v]
    BY DEF IInv, Typed
  <2>4. ASSUME ~overtaken[c]
        PROVE  found'[c] = UNION {access'[c][u] : u \in read'[c]}
    <3>1. found[c] = UNION {access[c][u] : u \in read[c]}
      BY <2>1, <2>2, <2>4 DEF ChannelInv, StartInv
    <3> QED
      BY <2>3, <3>1
  <2>5. ClientInv(c)'
    BY <2>2 DEF ClientInv
  <2>6. PhaseInv(c)'
    BY <2>1, <2>2 DEF ChannelInv, PhaseInv
  <2>7. StartInv(c)'
    BY <2>1, <2>2, <2>4 DEF ChannelInv, StartInv, Called
  <2>8. MemberInv(c)'
    BY <2>2 DEF MemberInv
  <2> QED
    BY <2>5, <2>6, <2>7, <2>8 DEF ChannelInv
<1> QED
  BY <1>1, <1>2, <1>3, <1>4, Together

\* recompute(false) has read every client: what it stores is what they allow.
LEMMA StoreRightsKeeps ==
  ASSUME IInv, NEW c \in Channels, StoreRights(c)
  PROVE  IInv'
<1> USE DEF StoreRights, chanVars, mainVars
<1>1. Typed'
  BY DEF IInv, Typed, Steps
<1>2. Caller'
  BY CallerFrame
<1>3. ASSUME NEW d \in Channels, d # c
      PROVE  ChannelInv(d)'
  <2>1. Kept(d)
    BY <1>3 DEF Kept, IInv, Typed
  <2> QED
    BY <1>3, <2>1, ServerFrame
<1>4. ChannelInv(c)'
  <2>1. ChannelInv(c)
    BY DEF IInv
  <2>2. Allowed(c)' = Allowed(c)
    BY AllowedSame
  <2>3. /\ step[c] = "added" /\ step'[c] = "stored" /\ read[c] = Users
        /\ rights'[c] = found[c] /\ granted'[c] = found[c]
    BY DEF IInv, Typed
  <2>8. ~overtaken[c] => found[c] = Allowed(c)
    BY <2>1, <2>3 DEF ChannelInv, StartInv, Allowed
  <2>4. ClientInv(c)'
    BY <2>1, <2>3 DEF ChannelInv, ClientInv, Called
  <2>5. PhaseInv(c)'
    BY <2>1, <2>3 DEF ChannelInv, PhaseInv
  <2>6. StartInv(c)'
    BY <2>1, <2>2, <2>3, <2>8 DEF ChannelInv, StartInv, Called
  <2>7. MemberInv(c)'
    BY <2>1, <2>2, <2>3 DEF ChannelInv, StartInv, MemberInv, Called, Held
  <2> QED
    BY <2>4, <2>5, <2>6, <2>7 DEF ChannelInv
<1> QED
  BY <1>1, <1>2, <1>3, <1>4, Together

\* What a callback has left is cleared; without a change behind initialize() it left nothing.
LEMMA ClearChangeKeeps ==
  ASSUME IInv, NEW c \in Channels, ClearChange(c)
  PROVE  IInv'
<1> USE DEF ClearChange, chanVars, mainVars
<1>1. Typed'
  BY DEF IInv, Typed, Steps
<1>2. Caller'
  BY CallerFrame
<1>3. ASSUME NEW d \in Channels, d # c
      PROVE  ChannelInv(d)'
  <2>1. Kept(d)
    BY <1>3 DEF Kept, IInv, Typed
  <2> QED
    BY <1>3, <2>1, ServerFrame
<1>4. ChannelInv(c)'
  <2>1. ChannelInv(c)
    BY DEF IInv
  <2>2. Allowed(c)' = Allowed(c)
    BY AllowedSame
  <2>3. /\ step[c] = "stored" /\ step'[c] = "cleared"
        /\ ~dirty'[c] /\ rightsBeforeChange'[c] = {}
    BY DEF IInv, Typed
  <2>4. ClientInv(c)'
    BY <2>1, <2>3 DEF ChannelInv, ClientInv, Called
  <2>5. PhaseInv(c)'
    BY <2>1, <2>3 DEF ChannelInv, PhaseInv
  <2>6. StartInv(c)'
    BY <2>1, <2>2, <2>3 DEF ChannelInv, StartInv, Called
  <2>7. MemberInv(c)'
    BY <2>1, <2>2, <2>3 DEF ChannelInv, StartInv, MemberInv, Called, Held
  <2> QED
    BY <2>4, <2>5, <2>6, <2>7 DEF ChannelInv
<1> QED
  BY <1>1, <1>2, <1>3, <1>4, Together

\* From now on callbacks queue the channel.
LEMMA SetInitializedKeeps ==
  ASSUME IInv, NEW c \in Channels, SetInitialized(c)
  PROVE  IInv'
<1> USE DEF SetInitialized, chanVars, mainVars
<1>1. Typed'
  BY DEF IInv, Typed, Steps
<1>2. Caller'
  BY CallerFrame
<1>3. ASSUME NEW d \in Channels, d # c
      PROVE  ChannelInv(d)'
  <2>1. Kept(d)
    BY <1>3 DEF Kept, IInv, Typed
  <2> QED
    BY <1>3, <2>1, ServerFrame
<1>4. ChannelInv(c)'
  <2>1. ChannelInv(c)
    BY DEF IInv
  <2>2. Allowed(c)' = Allowed(c)
    BY AllowedSame
  <2>3. /\ step[c] = "cleared" /\ step'[c] = "initialized" /\ initialized'[c]
    BY DEF IInv, Typed
  <2>4. ClientInv(c)'
    BY <2>1, <2>3 DEF ChannelInv, ClientInv, Called
  <2>5. PhaseInv(c)'
    BY <2>1, <2>3 DEF ChannelInv, PhaseInv
  <2>6. StartInv(c)'
    BY <2>1, <2>2, <2>3 DEF ChannelInv, StartInv, Called
  <2>7. MemberInv(c)'
    BY <2>1, <2>2, <2>3 DEF ChannelInv, StartInv, MemberInv, Called, Held
  <2> QED
    BY <2>4, <2>5, <2>6, <2>7 DEF ChannelInv
<1> QED
  BY <1>1, <1>2, <1>3, <1>4, Together

\* A channel that joins unchanged has its rights, and no mark.
LEMMA addClientKeeps ==
  ASSUME IInv, NEW c \in Channels, addClient(c)
  PROVE  IInv'
<1> USE DEF addClient, chanVars, mainVars
<1>1. Typed'
  BY DEF IInv, Typed, Steps
<1>2. Caller'
  BY CallerFrame
<1>3. ASSUME NEW d \in Channels, d # c
      PROVE  ChannelInv(d)'
  <2>1. Kept(d)
    BY <1>3 DEF Kept, IInv, Typed
  <2> QED
    BY <1>3, <2>1, ServerFrame
<1>4. ChannelInv(c)'
  <2>1. ChannelInv(c)
    BY DEF IInv
  <2>2. Allowed(c)' = Allowed(c)
    BY AllowedSame
  <2>3. /\ step[c] = "initialized" /\ step'[c] = "joined" /\ c \in members'
    BY DEF IInv, Typed
  <2>4. ClientInv(c)'
    BY <2>1, <2>3 DEF ChannelInv, ClientInv, Called
  <2>5. PhaseInv(c)'
    BY <2>1, <2>3 DEF ChannelInv, PhaseInv
  <2>6. StartInv(c)'
    BY <2>1, <2>2, <2>3 DEF ChannelInv, StartInv, Called
  <2>7. MemberInv(c)'
    BY <2>1, <2>2, <2>3 DEF ChannelInv, StartInv, MemberInv, Called, Held
  <2> QED
    BY <2>4, <2>5, <2>6, <2>7 DEF ChannelInv
<1> QED
  BY <1>1, <1>2, <1>3, <1>4, Together

\* Opening a channel changes none of its fields.
LEMMA OpenKeeps ==
  ASSUME IInv, NEW c \in Channels, Open(c)
  PROVE  IInv'
<1> USE DEF Open, chanVars, mainVars
<1>1. Typed'
  BY DEF IInv, Typed, Steps
<1>2. Caller'
  BY CallerFrame
<1>3. ASSUME NEW d \in Channels, d # c
      PROVE  ChannelInv(d)'
  <2>1. Kept(d)
    BY <1>3 DEF Kept, IInv, Typed
  <2> QED
    BY <1>3, <2>1, ServerFrame
<1>4. ChannelInv(c)'
  <2>1. ChannelInv(c)
    BY DEF IInv
  <2>2. Allowed(c)' = Allowed(c)
    BY AllowedSame
  <2>3. /\ step[c] = "joined" /\ step'[c] = "open"
    BY DEF IInv, Typed
  <2>4. ClientInv(c)'
    BY <2>1, <2>3 DEF ChannelInv, ClientInv, Called
  <2>5. PhaseInv(c)'
    BY <2>1, <2>3 DEF ChannelInv, PhaseInv
  <2>6. StartInv(c)'
    BY <2>1, <2>2, <2>3 DEF ChannelInv, StartInv, Called
  <2>7. MemberInv(c)'
    BY <2>1, <2>2, <2>3 DEF ChannelInv, StartInv, MemberInv, Called, Held
  <2> QED
    BY <2>4, <2>5, <2>6, <2>7 DEF ChannelInv
<1> QED
  BY <1>1, <1>2, <1>3, <1>4, Together

\* A channel that is gone promises nothing.
LEMMA DisconnectKeeps ==
  ASSUME IInv, NEW c \in Channels, Disconnect(c)
  PROVE  IInv'
<1> USE DEF Disconnect, chanVars, mainVars
<1>1. Typed'
  BY DEF IInv, Typed, Steps
<1>2. Caller'
  BY CallerFrame
<1>3. ASSUME NEW d \in Channels, d # c
      PROVE  ChannelInv(d)'
  <2>1. Kept(d)
    BY <1>3 DEF Kept, IInv, Typed
  <2> QED
    BY <1>3, <2>1, ServerFrame
<1>4. ChannelInv(c)'
  <2>1. ChannelInv(c)
    BY DEF IInv
  <2>2. Allowed(c)' = Allowed(c)
    BY AllowedSame
  <2>3. /\ step[c] = "open" /\ step'[c] = "gone" /\ c \notin members'
    BY DEF IInv, Typed
  <2>4. ClientInv(c)'
    BY <2>1, <2>3 DEF ChannelInv, ClientInv, Called
  <2>5. PhaseInv(c)'
    BY <2>1, <2>3 DEF ChannelInv, PhaseInv
  <2>6. StartInv(c)'
    BY <2>1, <2>2, <2>3 DEF ChannelInv, StartInv, Called
  <2>7. MemberInv(c)'
    BY <2>1, <2>2, <2>3 DEF ChannelInv, StartInv, MemberInv, Called, Held
  <2> QED
    BY <2>4, <2>5, <2>6, <2>7 DEF ChannelInv
<1> QED
  BY <1>1, <1>2, <1>3, <1>4, Together

-----------------------------------------------------------------------------
(* The access library *)

\* A step that moves only the library's thread, and calls nobody back, keeps what is
\* said of a channel: what was to be recomputed still is.
LEMMA MainFrame ==
  ASSUME IInv, NEW d \in Channels, Kept(d), ~Called(d), ~Called(d)',
         step[d] = "new" /\ main' \in {"compute", "clear", "note"} =>
           \A u \in Users : <<d, u>> \notin todo',
         d \in queue' => d \in queue,
         d \in queue \/ recomputeNeeded \/ (main = "recompute" /\ d \in todo)
           => \/ d \in queue' \/ recomputeNeeded' \/ (main' = "recompute" /\ d \in todo')
              \/ ~dirty[d] \/ step[d] \notin {"joined", "open"}
  PROVE  ChannelInv(d)'
<1> ChannelInv(d)
  BY DEF IInv
<1>1. Allowed(d)' = Allowed(d)
  BY AllowedSame DEF Kept
<1>2. (UNION {access[d][u] : u \in read[d]})' = UNION {access[d][u] : u \in read[d]}
  BY ReadSame DEF Kept
<1>3. ClientInv(d)'
  BY DEF ChannelInv, ClientInv, Kept
<1>4. PhaseInv(d)'
  BY DEF ChannelInv, PhaseInv, Kept
<1>5. StartInv(d)'
  BY <1>1, <1>2 DEF ChannelInv, StartInv, Kept
<1>6. Held(d) = {} /\ Held(d)' = {}
  BY DEF Held, Called
<1>7. ~(main = "note" /\ client[1] = d)'
  BY DEF Called
<1>8. MemberInv(d)'
  BY <1>1, <1>6, <1>7 DEF ChannelInv, MemberInv, Kept
<1> QED
  BY <1>3, <1>4, <1>5, <1>8 DEF ChannelInv

\* asInitMem() and asRefreshHag() begin: no client has been computed yet.
LEMMA ChangeKeeps ==
  ASSUME IInv, NEW p \in Policies, NEW hag \in Refreshes, Change(p, hag)
  PROVE  IInv'
<1> USE DEF Change, chanVars, initVars
<1>1. Typed'
  BY RightsAssumption DEF IInv, Typed, Mains
<1>2. Caller'
  BY DEF Caller
<1>3. ASSUME NEW d \in Channels
      PROVE  ChannelInv(d)'
  <2>1. Kept(d) /\ ~Called(d) /\ ~Called(d)'
    BY DEF Kept, Called
  <2>2. step[d] = "new" => \A u \in Users : <<d, u>> \notin todo'
    BY DEF Clients
  <2> QED
    BY <2>1, <2>2, MainFrame
<1> QED
  BY <1>1, <1>2, <1>3, Together

\* A client whose access stays the same is passed over.
LEMMA SameKeeps ==
  ASSUME IInv, NEW c \in Channels, NEW v \in Users, Same(c, v)
  PROVE  IInv'
<1> USE DEF Same, chanVars, initVars
<1>1. Typed'
  BY DEF IInv, Typed
<1>2. Caller'
  BY CallerFrame
<1>3. ASSUME NEW d \in Channels
      PROVE  ChannelInv(d)'
  <2>1. Kept(d) /\ ~Called(d) /\ ~Called(d)'
    BY DEF Kept, Called
  <2>2. step[d] = "new" => \A u \in Users : <<d, u>> \notin todo'
    BY DEF IInv, ChannelInv, ClientInv
  <2> QED
    BY <2>1, <2>2, MainFrame
<1> QED
  BY <1>1, <1>2, <1>3, Together

\* The access of a client changes, and its callback is on the way: a channel behind
\* whose initialize() this happens is overtaken.
LEMMA DiffersKeeps ==
  ASSUME IInv, NEW c \in Channels, NEW v \in Users, Differs(c, v)
  PROVE  IInv'
<1> USE DEF Differs, chanVars, initVars
<1>1. Typed'
  <2>1. policy[v] \in SUBSET Rights /\ access[c] \in [Users -> SUBSET Rights]
    BY DEF IInv, Typed
  <2>2. access' \in [Channels -> [Users -> SUBSET Rights]]
    BY <2>1 DEF IInv, Typed
  <2> QED
    BY <2>2 DEF IInv, Typed, Mains
<1>2. Caller'
  BY DEF Caller
<1>3. ASSUME NEW d \in Channels, d # c
      PROVE  ChannelInv(d)'
  <2>1. Kept(d)
    BY <1>3 DEF Kept, IInv, Typed
  <2>2. ~Called(d) /\ ~Called(d)'
    BY <1>3 DEF Called
  <2>3. step[d] = "new" => \A u \in Users : <<d, u>> \notin todo'
    BY DEF IInv, ChannelInv, ClientInv
  <2> QED
    BY <2>1, <2>2, <2>3, MainFrame
<1>4. ChannelInv(c)'
  <2>1. ChannelInv(c)
    BY DEF IInv
  <2>2. ~Called(c) /\ Held(c) = {} /\ Held(c)' = {}
    BY DEF Called, Held
  <2>3. step[c] # "new"
    BY <2>1 DEF ChannelInv, ClientInv
  <2>4. overtaken'[c] = (overtaken[c] \/ step[c] \notin {"joined", "open"})
    BY DEF IInv, Typed
  <2>5. ClientInv(c)'
    BY <2>3 DEF ClientInv
  <2>6. PhaseInv(c)'
    BY <2>1 DEF ChannelInv, PhaseInv
  <2>7. StartInv(c)'
    BY <2>4 DEF StartInv
  <2>8. Called(c)' /\ ~(main = "note")'
    BY DEF Called
  <2>9. MemberInv(c)'
    BY <2>1, <2>2, <2>4, <2>8 DEF ChannelInv, MemberInv
  <2> QED
    BY <2>5, <2>6, <2>7, <2>9 DEF ChannelInv
<1> QED
  BY <1>1, <1>2, <1>3, <1>4, Together

\* rights.exchange(0): what the channel had is in the hands of the callback.
LEMMA TakeRightsKeeps ==
  ASSUME IInv, TakeRights
  PROVE  IInv'
<1> USE DEF TakeRights, chanVars, initVars
<1>1. PICK c \in Channels : client = <<c>>
  BY DEF IInv, Caller
<1>2. rights' = [rights EXCEPT ![c] = {}] /\ client' = <<c, rights[c]>>
  BY <1>1 DEF Taken
<1>3. Typed'
  BY <1>2 DEF IInv, Typed, Mains
<1>4. Caller'
  BY <1>2 DEF Caller, IInv, Typed
<1>5. ASSUME NEW d \in Channels, d # c
      PROVE  ChannelInv(d)'
  <2>1. Kept(d)
    BY <1>2, <1>5 DEF Kept, IInv, Typed
  <2>2. ~Called(d) /\ ~Called(d)'
    BY <1>1, <1>2, <1>5 DEF Called
  <2>3. step[d] = "new" => \A u \in Users : <<d, u>> \notin todo'
    BY DEF IInv, ChannelInv, ClientInv
  <2> QED
    BY <2>1, <2>2, <2>3, MainFrame
<1>6. ChannelInv(c)'
  <2>1. ChannelInv(c)
    BY DEF IInv
  <2>2. Called(c) /\ Called(c)'
    BY <1>1, <1>2 DEF Called
  <2>3. Held(c) = {} /\ Held(c)' = rights[c]
    BY <1>1, <1>2 DEF Held
  <2>4. rights'[c] = {}
    BY <1>2 DEF IInv, Typed
  <2>5. ClientInv(c)'
    BY <2>1, <2>2 DEF ChannelInv, ClientInv
  <2>6. PhaseInv(c)'
    BY <2>1 DEF ChannelInv, PhaseInv
  <2>7. StartInv(c)'
    BY <2>1, <2>2 DEF ChannelInv, StartInv, IInv, Typed, Steps
  <2>8. MemberInv(c)'
    BY <2>1, <2>2, <2>3, <2>4 DEF ChannelInv, MemberInv
  <2> QED
    BY <2>5, <2>6, <2>7, <2>8 DEF ChannelInv
<1> QED
  BY <1>3, <1>4, <1>5, <1>6, Together

\* What was taken is put aside and the channel is marked, and queued or left to the
\* recomputation of all: the callback lets go of nothing it has not handed on.
LEMMA NoteChangeKeeps ==
  ASSUME IInv, NoteChange
  PROVE  IInv'
<1> USE DEF NoteChange, initVars
<1>1. PICK c \in Channels, r \in SUBSET Rights : client = <<c, r>>
  BY DEF IInv, Caller
<1>2. client[1] = c /\ client[2] = r
  BY <1>1
<1>3. rightsBeforeChange' = [rightsBeforeChange EXCEPT ![c] = @ \cup r]
  BY <1>2
<1>4. \/ /\ initialized[c] /\ ~dirty[c]
         /\ dirty' = [dirty EXCEPT ![c] = TRUE]
         /\ \/ queue' = queue \cup {c} /\ recomputeNeeded' = recomputeNeeded
            \/ recomputeNeeded' = TRUE /\ queue' = queue
      \/ /\ ~(initialized[c] /\ ~dirty[c])
         /\ dirty' = dirty /\ queue' = queue /\ recomputeNeeded' = recomputeNeeded
  BY <1>2
<1>5. Typed'
  <2>1. dirty' \in [Channels -> BOOLEAN]
    <3>1. dirty \in [Channels -> BOOLEAN]
      BY DEF IInv, Typed
    <3>2. dirty' = dirty \/ dirty' = [dirty EXCEPT ![c] = TRUE]
      BY <1>4
    <3> QED
      BY <3>1, <3>2
  <2>2. rightsBeforeChange' \in [Channels -> SUBSET Rights]
    <3>1. rightsBeforeChange \in [Channels -> SUBSET Rights]
      BY DEF IInv, Typed
    <3>2. rightsBeforeChange[c] \cup r \in SUBSET Rights
      BY <3>1
    <3> QED
      BY <1>3, <3>1, <3>2
  <2>3. main' \in Mains
    BY DEF Mains
  <2> QED
    BY <2>1, <2>2, <2>3 DEF IInv, Typed
<1>6. Caller'
  BY DEF Caller
<1>7. ASSUME NEW d \in Channels, d # c
      PROVE  ChannelInv(d)'
  <2>1. Kept(d)
    BY <1>3, <1>4, <1>7 DEF Kept, IInv, Typed
  <2>2. ~Called(d) /\ ~Called(d)'
    BY <1>2, <1>7 DEF Called
  <2>3. step[d] = "new" => \A u \in Users : <<d, u>> \notin todo'
    BY DEF IInv, ChannelInv, ClientInv
  <2>4. d \in queue' <=> d \in queue
    BY <1>4, <1>7
  <2>5. recomputeNeeded => recomputeNeeded'
    BY <1>4
  <2> QED
    BY <2>1, <2>2, <2>3, <2>4, <2>5, MainFrame
<1>8. ChannelInv(c)'
  <2>1. ChannelInv(c)
    BY DEF IInv
  <2>2. Called(c) /\ ~Called(c)' /\ Held(c) = r /\ Held(c)' = {}
    BY <1>2 DEF Called, Held
  <2>3. step[c] # "new"
    BY <2>1, <2>2 DEF ChannelInv, ClientInv
  <2>4. rightsBeforeChange'[c] = rightsBeforeChange[c] \cup r
    BY <1>3 DEF IInv, Typed
  <2>5. dirty'[c] <=> dirty[c] \/ initialized[c]
    <3>1. dirty \in [Channels -> BOOLEAN] /\ initialized \in [Channels -> BOOLEAN]
      BY DEF IInv, Typed
    <3>2. CASE dirty[c] \/ ~initialized[c]
      BY <1>4, <3>2
    <3>3. CASE initialized[c] /\ ~dirty[c]
      <4>1. dirty' = [dirty EXCEPT ![c] = TRUE]
        BY <1>4, <3>3
      <4> QED
        BY <3>1, <3>3, <4>1
    <3> QED
      BY <3>2, <3>3
  <2>6. ~dirty[c] /\ initialized[c] => c \in queue' \/ recomputeNeeded'
    BY <1>4
  <2>7. c \in queue' => c \in queue \/ initialized[c]
    BY <1>4
  <2>8. c \in queue \/ recomputeNeeded => c \in queue' \/ recomputeNeeded'
    BY <1>4
  <2>9. ClientInv(c)'
    BY <2>3 DEF ClientInv
  <2>10. PhaseInv(c)'
    BY <2>1, <2>3, <2>5, <2>7 DEF ChannelInv, PhaseInv
  <2>11. StartInv(c)'
    <3>1. overtaken[c] \/ step[c] \in {"joined", "open", "gone"}
      BY <2>1, <2>2 DEF ChannelInv, StartInv, IInv, Typed, Steps
    <3> QED
      BY <3>1 DEF StartInv
  <2>12. MemberInv(c)'
    <3> SUFFICES ASSUME ~overtaken[c], step[c] \in {"joined", "open"}
                 PROVE  MemberInv(c)'
      BY DEF MemberInv
    <3>1. initialized[c] /\ dirty'[c]
      BY <2>1, <2>5 DEF ChannelInv, PhaseInv
    <3>2. rights[c] = {}
      BY <1>2, <2>1 DEF ChannelInv, MemberInv
    <3>3. c \in queue' \/ recomputeNeeded'
      BY <2>1, <2>6, <2>8, <3>1 DEF ChannelInv, MemberInv
    <3>4. ~closed[c] => granted[c] = rightsBeforeChange'[c]
      BY <2>1, <2>2, <2>4, <3>2 DEF ChannelInv, MemberInv
    <3> QED
      BY <2>2, <3>1, <3>2, <3>3, <3>4 DEF MemberInv
  <2> QED
    BY <2>9, <2>10, <2>11, <2>12 DEF ChannelInv
<1> QED
  BY <1>5, <1>6, <1>7, <1>8, Together

\* recomputeAllClients() may drop the queue: every member is to be visited.
LEMMA ComputedKeeps ==
  ASSUME IInv, Computed
  PROVE  IInv'
<1> USE DEF Computed, chanVars, initVars
<1>1. Typed'
  BY DEF IInv, Typed, Mains
<1>2. Caller'
  BY DEF Caller
<1>3. ASSUME NEW d \in Channels
      PROVE  ChannelInv(d)'
  <2>1. Kept(d) /\ ~Called(d) /\ ~Called(d)'
    BY DEF Kept, Called
  <2> QED
    BY <2>1, MainFrame
<1> QED
  BY <1>1, <1>2, <1>3, Together

\* When asRefreshHag() fails the queue stays.
LEMMA RefreshFailsKeeps ==
  ASSUME IInv, RefreshFails
  PROVE  IInv'
<1> USE DEF RefreshFails, chanVars, initVars
<1>1. Typed'
  BY DEF IInv, Typed, Mains
<1>2. Caller'
  BY DEF Caller
<1>3. ASSUME NEW d \in Channels
      PROVE  ChannelInv(d)'
  <2>1. Kept(d) /\ ~Called(d) /\ ~Called(d)'
    BY DEF Kept, Called
  <2> QED
    BY <2>1, MainFrame
<1> QED
  BY <1>1, <1>2, <1>3, Together

-----------------------------------------------------------------------------
(* Recomputation *)

\* recompute(true) gives a channel what its clients allow; one that was opened with
\* other rights is closed.
LEMMA RecomputeOne ==
  ASSUME IInv, NEW c \in Channels, recompute(c), main \in {"idle", "recompute"},
         step[c] \in {"initialized", "joined", "open"}, main' = main,
         UNCHANGED <<access, initialized, initVars>>, c \in queue' => c \in queue
  PROVE  ChannelInv(c)'
<1> USE DEF initVars
<1>1. ChannelInv(c)
  BY DEF IInv
<1>2. ~Called(c) /\ ~Called(c)' /\ Held(c) = {} /\ Held(c)' = {} /\ main' # "note"
  BY DEF Called, Held
<1>3. Allowed(c)' = Allowed(c)
  BY AllowedSame
<1>4. /\ rights'[c] = Allowed(c) /\ ~dirty'[c] /\ rightsBeforeChange'[c] = {}
      /\ ~overtaken'[c]
      /\ closed'[c] = (closed[c] \/ (Prior(c) # Allowed(c) /\ step[c] = "open"))
      /\ granted'[c] = IF overtaken[c] \/ step[c] # "open" THEN Allowed(c) ELSE granted[c]
  BY DEF recompute, StillDirty, IInv, Typed
<1>5. ~closed'[c] => granted'[c] = Allowed(c)
  <2> SUFFICES ASSUME ~closed[c], ~overtaken[c], step[c] = "open"
               PROVE  Prior(c) = granted[c]
    BY <1>4
  <2>1. CASE dirty[c]
    BY <1>1, <1>2, <2>1 DEF ChannelInv, MemberInv, Prior
  <2>2. CASE ~dirty[c]
    BY <1>1, <1>2, <2>2 DEF ChannelInv, MemberInv, Prior
  <2> QED
    BY <2>1, <2>2
<1>6. ClientInv(c)'
  BY DEF ClientInv
<1>7. PhaseInv(c)'
  BY <1>1, <1>4 DEF ChannelInv, PhaseInv
<1>8. step[c] # "open" => granted'[c] = Allowed(c)
  BY <1>4
<1>9. StartInv(c)'
  BY <1>2, <1>3, <1>4, <1>8 DEF StartInv
<1>10. MemberInv(c)'
  BY <1>2, <1>3, <1>4, <1>5 DEF MemberInv
<1> QED
  BY <1>6, <1>7, <1>9, <1>10 DEF ChannelInv

\* recompute(true) writes to its own channel.
LEMMA RecomputeTyped ==
  ASSUME IInv, NEW c \in Channels, recompute(c),
         UNCHANGED <<policy, access, initialized, initVars, main>>
  PROVE  Typed' /\ \A d \in Channels : d # c => Kept(d)
<1> USE DEF initVars
<1>1. Allowed(c) \in SUBSET Rights
  BY DEF IInv, Typed, Allowed
<1>2. /\ rights' \in [Channels -> SUBSET Rights] /\ dirty' \in [Channels -> BOOLEAN]
      /\ rightsBeforeChange' \in [Channels -> SUBSET Rights]
  BY <1>1 DEF recompute, StillDirty, IInv, Typed
<1>3. closed' \in [Channels -> BOOLEAN] /\ overtaken' \in [Channels -> BOOLEAN]
  BY DEF recompute, IInv, Typed
<1>4. granted' \in [Channels -> SUBSET Rights]
  BY <1>1 DEF recompute, IInv, Typed
<1>5. Typed'
  BY <1>2, <1>3, <1>4 DEF IInv, Typed
<1>6. ASSUME NEW d \in Channels, d # c
      PROVE  Kept(d)
  BY <1>6 DEF Kept, recompute, IInv, Typed
<1> QED
  BY <1>5, <1>6

\* recomputeAllClients() visits a channel: one that is not a member is left alone.
LEMMA RecomputeKeeps ==
  ASSUME IInv, NEW c \in Channels, Recompute(c)
  PROVE  IInv'
<1> USE DEF Recompute, initVars
<1>1. main = "recompute" /\ main' = main /\ todo' = todo \ {c} /\ client' = client
  OBVIOUS
<1>2. Caller'
  BY <1>1, CallerFrame
<1>3. ChannelInv(c)
  BY DEF IInv
<1>4. \A d \in Channels : ~Called(d) /\ ~Called(d)'
  BY <1>1 DEF Called
<1>5. CASE c \in members
  <2>1. recompute(c)
    BY <1>5
  <2>2. step[c] \in {"joined", "open"}
    BY <1>3, <1>5 DEF ChannelInv, PhaseInv
  <2>3. Typed' /\ \A d \in Channels : d # c => Kept(d)
    BY <1>1, <2>1, RecomputeTyped
  <2>4. ChannelInv(c)'
    BY <1>1, <2>1, <2>2, RecomputeOne
  <2>5. ASSUME NEW d \in Channels, d # c
        PROVE  ChannelInv(d)'
    BY <1>1, <1>4, <2>3, <2>5, MainFrame
  <2> QED
    BY <1>2, <2>3, <2>4, <2>5, Together
<1>6. CASE c \notin members
  <2>1. UNCHANGED <<rights, dirty, rightsBeforeChange, closed, overtaken, granted>>
    BY <1>6
  <2>2. Typed'
    BY <1>1, <2>1 DEF IInv, Typed
  <2>3. step[c] \notin {"joined", "open"}
    BY <1>3, <1>6 DEF ChannelInv, PhaseInv
  <2>4. ASSUME NEW d \in Channels
        PROVE  ChannelInv(d)'
    <3>1. Kept(d)
      BY <2>1 DEF Kept
    <3> QED
      BY <1>1, <1>4, <2>3, <3>1, MainFrame
  <2> QED
    BY <1>2, <2>2, <2>4, Together
<1> QED
  BY <1>5, <1>6

\* recomputeAllClients() ends when every channel has been visited.
LEMMA RecomputedKeeps ==
  ASSUME IInv, Recomputed
  PROVE  IInv'
<1> USE DEF Recomputed, chanVars, initVars
<1>1. Typed'
  BY DEF IInv, Typed, Mains
<1>2. Caller'
  BY DEF Caller
<1>3. ASSUME NEW d \in Channels
      PROVE  ChannelInv(d)'
  <2>1. Kept(d) /\ ~Called(d) /\ ~Called(d)'
    BY DEF Kept, Called
  <2> QED
    BY <2>1, MainFrame
<1> QED
  BY <1>1, <1>2, <1>3, Together

\* drainDirty() after a failure of markDirty(): every member is to be visited.
LEMMA DrainAllKeeps ==
  ASSUME IInv, DrainAll
  PROVE  IInv'
<1> USE DEF DrainAll, chanVars, initVars
<1>1. Typed'
  BY DEF IInv, Typed, Mains
<1>2. Caller'
  BY DEF Caller
<1>3. ASSUME NEW d \in Channels
      PROVE  ChannelInv(d)'
  <2>1. Kept(d) /\ ~Called(d) /\ ~Called(d)'
    BY DEF Kept, Called
  <2> QED
    BY <2>1, MainFrame
<1> QED
  BY <1>1, <1>2, <1>3, Together

\* drainDirty() for one queued channel: one that is gone is dropped.
LEMMA drainDirtyKeeps ==
  ASSUME IInv, NEW c \in Channels, drainDirty(c)
  PROVE  IInv'
<1> USE DEF drainDirty, initVars, mainVars
<1>1. /\ main = "idle" /\ main' = main /\ client' = client /\ c \in queue
      /\ queue' = queue \ {c}
  OBVIOUS
<1>2. Caller'
  BY <1>1, CallerFrame
<1>3. ChannelInv(c)
  BY DEF IInv
<1>4. \A d \in Channels : ~Called(d) /\ ~Called(d)'
  BY <1>1 DEF Called
<1>5. CASE step[c] # "gone"
  <2>1. recompute(c)
    BY <1>5
  <2>2. step[c] \in {"initialized", "joined", "open"}
    BY <1>1, <1>3, <1>5 DEF ChannelInv, PhaseInv
  <2>3. Typed' /\ \A d \in Channels : d # c => Kept(d)
    BY <1>1, <2>1, RecomputeTyped
  <2>4. ChannelInv(c)'
    BY <1>1, <2>1, <2>2, RecomputeOne
  <2>5. ASSUME NEW d \in Channels, d # c
        PROVE  ChannelInv(d)'
    BY <1>1, <1>4, <2>3, <2>5, MainFrame
  <2> QED
    BY <1>2, <2>3, <2>4, <2>5, Together
<1>6. CASE step[c] = "gone"
  <2>1. UNCHANGED <<rights, dirty, rightsBeforeChange, closed, overtaken, granted>>
    BY <1>6
  <2>2. Typed'
    BY <1>1, <2>1 DEF IInv, Typed
  <2>3. ASSUME NEW d \in Channels
        PROVE  ChannelInv(d)'
    <3>1. Kept(d)
      BY <2>1 DEF Kept
    <3>2. step[d] \in {"joined", "open"} => d # c
      BY <1>6
    <3> QED
      BY <1>1, <1>4, <3>1, <3>2, MainFrame
  <2> QED
    BY <1>2, <2>2, <2>3, Together
<1> QED
  BY <1>5, <1>6

-----------------------------------------------------------------------------
(* The theorems *)

\* No channel has been initialised, and no callback runs.
LEMMA InitHolds == Init => IInv
<1> SUFFICES ASSUME Init PROVE IInv
  OBVIOUS
<1>1. Typed
  BY RightsAssumption DEF Init, Typed, Steps, Mains
<1>2. Caller
  BY DEF Init, Caller
<1>3. ASSUME NEW c \in Channels
      PROVE  ChannelInv(c)
  BY DEF Init, ChannelInv, ClientInv, PhaseInv, StartInv, MemberInv, Called
<1> QED
  BY <1>1, <1>2, <1>3 DEF IInv

\* Every step of the server's threads, of the library and of the application keeps
\* the invariant.
LEMMA NextKeeps == IInv /\ [Next]_vars => IInv'
<1> SUFFICES ASSUME IInv, [Next]_vars PROVE IInv'
  OBVIOUS
<1>1. ASSUME NEW c \in Channels, ServerStep(c)
      PROVE  IInv'
  BY <1>1, AddClientsKeeps, ReadClientKeeps, StoreRightsKeeps, ClearChangeKeeps,
     SetInitializedKeeps, addClientKeeps, OpenKeeps, DisconnectKeeps DEF ServerStep
<1>2. ASSUME NEW p \in Policies, NEW hag \in Refreshes, Change(p, hag)
      PROVE  IInv'
  BY <1>2, ChangeKeeps
<1>3. CASE LibraryStep
  BY <1>3, SameKeeps, DiffersKeeps, TakeRightsKeeps, NoteChangeKeeps, ComputedKeeps,
     RefreshFailsKeeps DEF LibraryStep
<1>4. CASE RecomputeStep
  BY <1>4, RecomputeKeeps, drainDirtyKeeps, RecomputedKeeps, DrainAllKeeps DEF RecomputeStep
<1>5. CASE UNCHANGED vars
  <2>1. UNCHANGED <<policy, access, chanVars, queue, recomputeNeeded, initVars, closed, mainVars,
                    overtaken, granted>>
    BY <1>5 DEF vars
  <2>2. Typed'
    BY <2>1 DEF IInv, Typed, chanVars, initVars, mainVars
  <2>3. Caller'
    BY <2>1, CallerFrame DEF mainVars
  <2>4. ASSUME NEW d \in Channels
        PROVE  ChannelInv(d)'
    <3>1. Kept(d)
      BY <2>1 DEF Kept, chanVars, initVars
    <3> QED
      BY <2>1, <3>1, ServerFrame
  <2> QED
    BY <2>2, <2>3, <2>4, Together
<1> QED
  BY <1>1, <1>2, <1>3, <1>4, <1>5 DEF Next

\* The invariant, in every reachable state.
THEOREM Invariance == Spec => []IInv
BY InitHolds, NextKeeps, PTL DEF Spec

\* accessChanged() and recompute() in src/src/access_control.cpp: whatever the policies,
\* the channels and the order of the callbacks, a channel in use that was not overtaken
\* while it was initialised never has a right that the policy in force denies, except
\* while the callback that takes it is on its way.
THEOREM RevokedImmediately == Spec => []RevokedAtOnce
<1>1. IInv => RevokedAtOnce
  <2> SUFFICES ASSUME IInv, NEW c \in Channels, InUse(c), ~overtaken[c],
                      ~(main = "clear" /\ client = <<c>>)
               PROVE  rights[c] \subseteq Allowed(c)
    BY DEF RevokedAtOnce
  <2>1. MemberInv(c) /\ step[c] = "open"
    BY DEF IInv, ChannelInv, InUse
  <2>2. CASE dirty[c]
    BY <2>1, <2>2 DEF MemberInv
  <2>3. CASE ~dirty[c] /\ ~Called(c)
    BY <2>1, <2>3 DEF MemberInv
  <2>4. CASE Called(c)
    <3>1. main # "clear"
      BY <2>4 DEF Called, IInv, Caller
    <3> QED
      BY <2>1, <2>4, <3>1 DEF MemberInv, Called
  <2> QED
    BY <2>2, <2>3, <2>4
<1> QED
  BY <1>1, Invariance, PTL

\* recompute() in src/src/access_control.cpp: when nothing is left to recompute, a channel
\* that is still in use has the rights it was opened with, and they are those of the
\* policy in force.
THEOREM ClosedWhenChanged == Spec => []ClosedOnChange
<1>1. IInv => ClosedOnChange
  <2> SUFFICES ASSUME IInv, Settled, NEW c \in Channels, InUse(c), ~overtaken[c]
               PROVE  rights[c] = granted[c] /\ rights[c] = Allowed(c)
    BY DEF ClosedOnChange
  <2>1. MemberInv(c) /\ step[c] = "open" /\ ~closed[c]
    BY DEF IInv, ChannelInv, InUse
  <2>2. ~Called(c) /\ Held(c) = {}
    BY DEF Settled, Called, Held
  <2>3. ~dirty[c]
    BY <2>1 DEF MemberInv, Settled
  <2> QED
    BY <2>1, <2>2, <2>3 DEF MemberInv
<1> QED
  BY <1>1, Invariance, PTL
=============================================================================
