-------------------------- MODULE ReleaseAssets_proofs --------------------------
(* Proofs about ReleaseAssets, for any sets of requests, releases and assets,   *)
(* any sizes and limits and any faults.                                         *)
EXTENDS ReleaseAssets, FiniteSetTheorems, TLAPS

-----------------------------------------------------------------------------
\* The invariants.

Uploading(r) == pc[r] \in {"put", "insert", "cleanup"}
Holding(r, a) == pc[r] \in {"insert", "cleanup"} /\ local[r].asset = a

\* What an upload remembers: its asset has no row until it inserts it, nobody
\* can have started to delete it, and its bytes wait for the row.
UploadInv(r) ==
  /\ Uploading(r) => local[r].release \in Releases /\ local[r].asset \in issued
  /\ pc[r] \in {"put", "insert"} =>
       rows[local[r].asset] = None /\ local[r].asset \notin doomed
  /\ pc[r] = "insert" => local[r].asset \in blobs
  /\ pc[r] = "cleanup" /\ "answer" \notin faults => rows[local[r].asset] = None

Ending == {"deleting", "deleted"}

\* What a deletion remembers: a row goes after its bytes, and the rows of a
\* release that is being deleted are among those that were listed, unless the
\* mark on the release was overwritten.
DeletionInv(r) ==
  /\ pc[r] \in DeleteSteps \cup {"write"} => local[r].release \in Releases
  /\ pc[r] \in {"list", "next"} => local[r].all
  /\ pc[r] \in {"blob", "row"} => local[r].asset \in doomed
  /\ pc[r] = "row" => local[r].asset \notin blobs
  /\ pc[r] \in DeleteSteps /\ local[r].all /\ ~revived =>
       releases[local[r].release] \in Ending
  /\ pc[r] \in {"next", "blob", "row"} /\ local[r].all /\ ~revived =>
       InRelease(local[r].release) \subseteq local[r].todo

\* An identifier is given to one upload.
OneUpload ==
  \A r, q \in Requests :
    Uploading(r) /\ Uploading(q) /\ local[r].asset = local[q].asset => r = q

IssuedInv ==
  /\ blobs \subseteq issued /\ doomed \subseteq issued
  /\ \A a \in Assets : rows[a] # None => a \in issued

\* Bytes without a row belong to an upload that is on its way.
BytesInv ==
  ~revived /\ faults \cap {"storage", "stop"} = {} =>
    \A a \in blobs : rows[a] # None \/ \E r \in Requests : Holding(r, a)

Inv ==
  /\ TypeOK /\ IssuedInv /\ OneUpload /\ RowsHaveBytes /\ BytesInv
  /\ \A r \in Requests : UploadInv(r) /\ DeletionInv(r)

-----------------------------------------------------------------------------
\* Types and frames.

LEMMA PcMoves ==
  ASSUME TypeOK, NEW r \in Requests, NEW step \in Steps, Goto(r, step)
  PROVE  /\ pc' \in [Requests -> Steps] /\ pc'[r] = step
         /\ \A q \in Requests \ {r} : pc'[q] = pc[q]
<1>1. pc \in [Requests -> Steps]
  BY DEF TypeOK
<1> QED BY <1>1 DEF Goto

LEMMA LocalMoves ==
  ASSUME TypeOK, NEW r \in Requests, NEW m \in Local, local' = [local EXCEPT ![r] = m]
  PROVE  /\ local' \in [Requests -> Local] /\ local'[r] = m
         /\ \A q \in Requests \ {r} : local'[q] = local[q]
<1>1. local \in [Requests -> Local]
  BY DEF TypeOK
<1> QED BY <1>1

LEMMA IdleType == Idle \in Local
BY DEF Idle, Local

LEMMA Returns ==
  ASSUME TypeOK, NEW r \in Requests, Return(r)
  PROVE  /\ pc' \in [Requests -> Steps] /\ pc'[r] = "idle"
         /\ local' \in [Requests -> Local] /\ local'[r] = Idle
         /\ \A q \in Requests \ {r} : pc'[q] = pc[q] /\ local'[q] = local[q]
<1>1. "idle" \in Steps
  BY DEF Steps
<1> QED BY <1>1, PcMoves, LocalMoves, IdleType DEF Return

LEMMA FailsFacts ==
  ASSUME TypeOK, NEW kind, Fails(kind)
  PROVE  faults' \subseteq Kinds /\ faults \subseteq faults' /\ kind \in faults'
BY FaultAssumption DEF TypeOK, Fails

\* The steps in the middle of a request that move the program counter alone.
LEMMA Proceeds ==
  ASSUME TypeOK, NEW r \in Requests, NEW step \in Steps, Goto(r, step), UNCHANGED local
  PROVE  /\ pc' \in [Requests -> Steps] /\ pc'[r] = step
         /\ local' \in [Requests -> Local] /\ local'[r] = local[r]
         /\ \A q \in Requests \ {r} : pc'[q] = pc[q] /\ local'[q] = local[q]
BY PcMoves DEF TypeOK

LEMMA Begins ==
  ASSUME TypeOK, NEW r \in Requests, NEW step \in Steps, NEW m \in Local,
         Goto(r, step), local' = [local EXCEPT ![r] = m]
  PROVE  /\ pc' \in [Requests -> Steps] /\ pc'[r] = step
         /\ local' \in [Requests -> Local] /\ local'[r] = m
         /\ \A q \in Requests \ {r} : pc'[q] = pc[q] /\ local'[q] = local[q]
BY PcMoves, LocalMoves

\* The rest of the system keeps still while one request moves.
Others(r) == \A q \in Requests \ {r} : pc'[q] = pc[q] /\ local'[q] = local[q]
-----------------------------------------------------------------------------
\* What a step of request r may do to what the others rely on.

Calm(r) ==
  /\ Others(r)
  /\ issued \subseteq issued' /\ doomed \subseteq doomed' /\ faults \subseteq faults'
  /\ revived => revived'
  /\ \A a \in Assets : rows[a] = None /\ rows'[a] # None =>
       pc[r] = "insert" /\ a = local[r].asset /\ releases[rows'[a]] \in Visible
  /\ \A a \in Assets : rows[a] # None => rows'[a] \in {rows[a], None}
  /\ \A a \in doomed' \ doomed : rows[a] # None
  /\ \A a \in blobs \ blobs' : a \in doomed \/ (pc[r] = "cleanup" /\ a = local[r].asset)
  /\ \A a \in blobs' \ blobs : pc[r] = "put" /\ a = local[r].asset
  /\ \A x \in Releases : ~revived' /\ releases[x] \in Ending => releases'[x] \in Ending

LEMMA OthersKeep ==
  ASSUME Inv, TypeOK', NEW r \in Requests, Calm(r), NEW q \in Requests, q # r
  PROVE  UploadInv(q)' /\ DeletionInv(q)'
<1>1. /\ TypeOK /\ IssuedInv /\ UploadInv(q) /\ DeletionInv(q) /\ UploadInv(r)
      /\ OneUpload
  BY DEF Inv
<1>2. pc'[q] = pc[q] /\ local'[q] = local[q]
  BY DEF Calm, Others
<1>3. issued \subseteq Assets /\ doomed \subseteq Assets /\ issued' \subseteq Assets
  BY <1>1 DEF TypeOK
<1>4. Uploading(q) => ~(Uploading(r) /\ local[r].asset = local[q].asset)
  BY <1>1 DEF OneUpload
<1>5. ASSUME Uploading(q), rows[local[q].asset] = None PROVE rows'[local[q].asset] = None
  <2>1. local[q].asset \in Assets
    BY <1>1, <1>3, <1>5 DEF UploadInv
  <2> QED BY <1>4, <1>5, <2>1 DEF Calm, Uploading
<1>6. UploadInv(q)'
  <2>1. Uploading(q)' = Uploading(q)
    BY <1>2 DEF Uploading
  <2>2. Uploading(q) => local'[q].release \in Releases /\ local'[q].asset \in issued'
    BY <1>1, <1>2 DEF UploadInv, Calm
  <2>3. pc[q] \in {"put", "insert"} => rows'[local[q].asset] = None /\ local[q].asset \notin doomed'
    BY <1>1, <1>5 DEF UploadInv, Calm, Uploading
  <2>4. pc[q] = "insert" => local[q].asset \in blobs'
    <3> SUFFICES ASSUME pc[q] = "insert", local[q].asset \notin blobs' PROVE FALSE
      OBVIOUS
    <3>1. local[q].asset \in blobs /\ local[q].asset \notin doomed /\ Uploading(q)
      BY <1>1 DEF UploadInv, Uploading
    <3>2. pc[r] = "cleanup" /\ local[q].asset = local[r].asset
      BY <3>1 DEF Calm
    <3> QED BY <1>4, <3>1, <3>2 DEF Uploading
  <2>5. pc[q] = "cleanup" /\ "answer" \notin faults' => rows'[local[q].asset] = None
    BY <1>1, <1>5 DEF UploadInv, Calm, Uploading
  <2> QED BY <1>2, <2>1, <2>2, <2>3, <2>4, <2>5 DEF UploadInv
<1>7. DeletionInv(q)'
  <2>1. pc[q] \in {"blob", "row"} => local[q].asset \in doomed'
    BY <1>1 DEF DeletionInv, Calm
  <2>2. pc[q] = "row" => local[q].asset \notin blobs'
    <3> SUFFICES ASSUME pc[q] = "row", local[q].asset \in blobs' PROVE FALSE
      OBVIOUS
    <3>1. local[q].asset \notin blobs /\ local[q].asset \in doomed
      BY <1>1 DEF DeletionInv
    <3>2. pc[r] = "put" /\ local[q].asset = local[r].asset
      BY <3>1 DEF Calm
    <3> QED BY <1>1, <3>1, <3>2 DEF UploadInv
  <2>3. ASSUME pc[q] \in DeleteSteps, local[q].all, ~revived'
        PROVE  releases'[local[q].release] \in Ending /\ releases[local[q].release] \in Ending
    BY <1>1, <2>3 DEF DeletionInv, Calm
  <2>4. ASSUME pc[q] \in {"next", "blob", "row"}, local[q].all, ~revived'
        PROVE  InRelease(local[q].release)' \subseteq local[q].todo
    <3>1. pc[q] \in DeleteSteps /\ ~revived
      BY <2>4 DEF DeleteSteps, Calm
    <3>2. releases[local[q].release] \in Ending /\ local[q].release \in Releases
      BY <1>1, <2>3, <2>4, <3>1 DEF DeletionInv
    <3>3. ASSUME NEW a \in Assets, rows'[a] = local[q].release PROVE rows[a] = local[q].release
      <4>1. rows'[a] # None
        BY <3>2, <3>3, NoneAssumption
      <4>2. rows[a] # None
        BY <3>2, <3>3, <4>1 DEF Calm, Ending, Visible
      <4> QED BY <3>3, <4>1, <4>2 DEF Calm
    <3>4. InRelease(local[q].release) \subseteq local[q].todo
      BY <1>1, <2>4, <3>1 DEF DeletionInv
    <3> QED BY <1>2, <3>3, <3>4 DEF InRelease
  <2> QED BY <1>1, <1>2, <2>1, <2>2, <2>3, <2>4 DEF DeletionInv
<1> QED BY <1>6, <1>7

\* A listed asset keeps its bytes.
LEMMA RowsKeepBytes ==
  ASSUME Inv, NEW r \in Requests, Calm(r)
  PROVE  RowsHaveBytes'
<1>1. RowsHaveBytes /\ UploadInv(r)
  BY DEF Inv
<1>2. SUFFICES ASSUME "answer" \notin faults', NEW a \in Assets, rows'[a] # None, a \notin doomed'
               PROVE  a \in blobs'
  BY DEF RowsHaveBytes
<1>3. "answer" \notin faults /\ a \notin doomed
  BY <1>2 DEF Calm
<1>4. CASE rows[a] # None
  <2>1. a \in blobs
    BY <1>1, <1>3, <1>4 DEF RowsHaveBytes
  <2>2. pc[r] = "cleanup" => a # local[r].asset
    BY <1>1, <1>3, <1>4 DEF UploadInv
  <2> QED BY <1>3, <2>1, <2>2 DEF Calm
<1>5. CASE rows[a] = None
  <2>1. pc[r] = "insert" /\ a = local[r].asset
    BY <1>2, <1>5 DEF Calm
  <2>2. a \in blobs
    BY <1>1, <2>1 DEF UploadInv
  <2> QED BY <1>3, <2>1, <2>2 DEF Calm
<1> QED BY <1>4, <1>5

\* What a step of request r may do to bytes that have no row.
Neat(r) ==
  ~revived' /\ faults' \cap {"storage", "stop"} = {} =>
    /\ \A a \in blobs' : rows[a] # None => rows'[a] # None
    /\ \A a \in blobs' : Holding(r, a) => Holding(r, a)' \/ rows'[a] # None
    /\ \A a \in blobs' \ blobs : Holding(r, a)'

LEMMA BytesKept ==
  ASSUME Inv, NEW r \in Requests, Calm(r), Neat(r)
  PROVE  BytesInv'
<1>1. BytesInv
  BY DEF Inv
<1>2. SUFFICES ASSUME ~revived', faults' \cap {"storage", "stop"} = {}, NEW a \in blobs'
               PROVE  rows'[a] # None \/ \E q \in Requests : Holding(q, a)'
  BY DEF BytesInv
<1>3. ~revived /\ faults \cap {"storage", "stop"} = {}
  BY <1>2 DEF Calm
<1>4. CASE a \notin blobs
  BY <1>2, <1>4 DEF Neat
<1>5. CASE a \in blobs /\ rows[a] # None
  BY <1>2, <1>5 DEF Neat
<1>6. CASE a \in blobs /\ rows[a] = None
  <2>1. PICK q \in Requests : Holding(q, a)
    BY <1>1, <1>3, <1>6 DEF BytesInv
  <2>2. CASE q = r
    BY <1>2, <2>1, <2>2 DEF Neat
  <2>3. CASE q # r
    BY <2>1, <2>3 DEF Calm, Others, Holding
  <2> QED BY <2>2, <2>3
<1> QED BY <1>4, <1>5, <1>6

LEMMA IssuedKept ==
  ASSUME Inv, TypeOK', NEW r \in Requests, Calm(r)
  PROVE  IssuedInv'
<1>1. IssuedInv /\ UploadInv(r)
  BY DEF Inv
<1>2. blobs' \subseteq issued'
  <2> SUFFICES ASSUME NEW a \in blobs' PROVE a \in issued'
    OBVIOUS
  <2>1. CASE a \in blobs
    BY <1>1, <2>1 DEF IssuedInv, Calm
  <2>2. CASE a \notin blobs
    BY <1>1, <2>2 DEF UploadInv, Uploading, Calm
  <2> QED BY <2>1, <2>2
<1>3. doomed' \subseteq issued'
  <2> SUFFICES ASSUME NEW a \in doomed' PROVE a \in issued'
    OBVIOUS
  <2>1. CASE a \in doomed
    BY <1>1, <2>1 DEF IssuedInv, Calm
  <2>2. CASE a \notin doomed
    <3>1. rows[a] # None
      BY <2>2 DEF Calm
    <3>2. a \in Assets
      BY DEF TypeOK
    <3> QED BY <1>1, <3>1, <3>2 DEF IssuedInv, Calm
  <2> QED BY <2>1, <2>2
<1>4. \A a \in Assets : rows'[a] # None => a \in issued'
  <2> SUFFICES ASSUME NEW a \in Assets, rows'[a] # None PROVE a \in issued'
    OBVIOUS
  <2>1. CASE rows[a] # None
    BY <1>1, <2>1 DEF IssuedInv, Calm
  <2>2. CASE rows[a] = None
    BY <1>1, <2>2 DEF UploadInv, Uploading, Calm
  <2> QED BY <2>1, <2>2
<1> QED BY <1>2, <1>3, <1>4 DEF IssuedInv

\* An upload is the one it was, or has a new identifier.
Fresh(r) ==
  Uploading(r)' => \/ Uploading(r) /\ local'[r].asset = local[r].asset
                   \/ local'[r].asset \notin issued

LEMMA OneKept ==
  ASSUME Inv, NEW r \in Requests, Others(r), Fresh(r)
  PROVE  OneUpload'
<1>1. OneUpload /\ \A q \in Requests : UploadInv(q)
  BY DEF Inv
<1>2. \A q \in Requests \ {r} : Uploading(q)' = Uploading(q) /\ local'[q].asset = local[q].asset
  BY DEF Others, Uploading
<1>3. \A q \in Requests : Uploading(q) => local[q].asset \in issued
  BY <1>1 DEF UploadInv
<1>4. ASSUME NEW q \in Requests \ {r}, Uploading(q)', Uploading(r)'
      PROVE  local'[q].asset # local'[r].asset
  BY <1>1, <1>2, <1>3, <1>4 DEF Fresh, OneUpload
<1>5. ASSUME NEW p \in Requests \ {r}, NEW q \in Requests \ {r}, Uploading(p)', Uploading(q)',
             local'[p].asset = local'[q].asset
      PROVE  p = q
  BY <1>1, <1>2, <1>5 DEF OneUpload
<1> QED BY <1>4, <1>5 DEF OneUpload

\* What has to be shown of a step of request r.
Good(r) ==
  /\ TypeOK' /\ Calm(r) /\ Neat(r) /\ Fresh(r) /\ UploadInv(r)' /\ DeletionInv(r)'

LEMMA GoodStep ==
  ASSUME Inv, NEW r \in Requests, Good(r)
  PROVE  Inv'
<1>1. TypeOK' /\ Calm(r) /\ Neat(r) /\ Fresh(r) /\ Others(r) /\ UploadInv(r)' /\ DeletionInv(r)'
  BY DEF Good, Calm
<1>2. IssuedInv' /\ OneUpload' /\ RowsHaveBytes' /\ BytesInv'
  BY <1>1, IssuedKept, OneKept, RowsKeepBytes, BytesKept
<1>3. \A q \in Requests : UploadInv(q)' /\ DeletionInv(q)'
  BY <1>1, OthersKeep
<1> QED BY <1>1, <1>2, <1>3 DEF Inv
-----------------------------------------------------------------------------
\* The steps.

\* A step that leaves rows, bytes and deletions alone.
LEMMA CalmIdle ==
  ASSUME NEW r \in Requests, Others(r),
         UNCHANGED <<rows, blobs, doomed>>, issued \subseteq issued', faults \subseteq faults',
         revived => revived',
         \A x \in Releases : ~revived' /\ releases[x] \in Ending => releases'[x] \in Ending
  PROVE  Calm(r)
BY DEF Calm

LEMMA NeatIdle ==
  ASSUME NEW r \in Requests, UNCHANGED <<rows, blobs>>, \A a \in blobs : ~Holding(r, a)
  PROVE  Neat(r)
BY DEF Neat

\* A request that is over has nothing to remember.
LEMMA OverInv ==
  ASSUME NEW r \in Requests, pc'[r] = "idle"
  PROVE  UploadInv(r)' /\ DeletionInv(r)' /\ Fresh(r)
BY DEF UploadInv, DeletionInv, Fresh, Uploading, DeleteSteps

LEMMA CreateReleaseGood ==
  ASSUME Inv, NEW r \in Requests, NEW x \in Releases, NEW draft \in BOOLEAN,
         CreateRelease(r, x, draft)
  PROVE  Good(r)
<1>1. /\ pc[r] = "idle" /\ releases[x] = "absent"
      /\ releases' = [releases EXCEPT ![x] = ReleaseState(draft)]
      /\ UNCHANGED <<rows, blobs, issued, pc, local, faults, doomed, revived>>
  BY DEF CreateRelease, ghostVars
<1>2. TypeOK /\ ReleaseState(draft) \in States
  BY DEF Inv, ReleaseState, States, Present, Visible
<1>3. releases' \in [Releases -> States]
  BY <1>1, <1>2 DEF TypeOK
<1>4. TypeOK'
  BY <1>1, <1>2, <1>3 DEF TypeOK
<1>5. \A y \in Releases : releases[y] \in Ending => releases'[y] \in Ending
  BY <1>1, <1>2 DEF TypeOK, Ending
<1>6. Others(r) /\ pc'[r] = "idle"
  BY <1>1 DEF Others
<1> QED BY <1>1, <1>4, <1>5, <1>6, CalmIdle, NeatIdle, OverInv DEF Good, Holding

LEMMA UpdateReadGood ==
  ASSUME Inv, NEW r \in Requests, NEW x \in Releases, NEW draft \in BOOLEAN,
         UpdateRead(r, x, draft)
  PROVE  Good(r)
<1> DEFINE m == [Idle EXCEPT !.release = x, !.draft = draft]
<1>1. /\ pc[r] = "idle" /\ Goto(r, "write") /\ local' = [local EXCEPT ![r] = m]
      /\ UNCHANGED <<releases, rows, blobs, issued, faults, doomed, revived>>
  BY DEF UpdateRead, ghostVars, rowVars
<1>2. TypeOK /\ "write" \in Steps
  BY DEF Inv, Steps
<1>3. m \in Local /\ m.release = x
  BY DEF Idle, Local
<1> HIDE DEF m
<1>4. /\ pc' \in [Requests -> Steps] /\ pc'[r] = "write" /\ local' \in [Requests -> Local]
      /\ local'[r] = m /\ Others(r)
  BY <1>1, <1>2, <1>3, Begins DEF Others
<1>5. TypeOK'
  BY <1>1, <1>2, <1>4 DEF TypeOK
<1>6. UploadInv(r)' /\ DeletionInv(r)' /\ Fresh(r)
  BY <1>3, <1>4 DEF UploadInv, DeletionInv, Fresh, Uploading, DeleteSteps
<1> QED BY <1>1, <1>4, <1>5, <1>6, CalmIdle, NeatIdle DEF Good, Holding

LEMMA UpdateReleaseGood ==
  ASSUME Inv, NEW r \in Requests, UpdateRelease(r)
  PROVE  Good(r)
<1> DEFINE x == local[r].release
<1>1. /\ pc[r] = "write" /\ Return(r) /\ UNCHANGED <<rows, blobs, issued, faults, doomed>>
      /\ \/ /\ releases[x] \in Present
            /\ releases' = [releases EXCEPT ![x] = ReleaseState(local[r].draft)]
            /\ revived' = (revived \/ releases[x] = "deleting")
         \/ UNCHANGED <<releases, revived>>
  BY DEF UpdateRelease
<1>2. TypeOK /\ DeletionInv(r) /\ revived \in BOOLEAN
  BY DEF Inv, TypeOK
<1>3. x \in Releases /\ local[r] \in Local
  BY <1>1, <1>2 DEF DeletionInv, TypeOK
<1>4. ReleaseState(local[r].draft) \in States
  BY <1>3 DEF Local, ReleaseState, States, Present, Visible
<1> HIDE DEF x
<1>5. releases' \in [Releases -> States] /\ revived' \in BOOLEAN /\ (revived => revived')
  BY <1>1, <1>2, <1>3, <1>4 DEF TypeOK
<1>6. \A y \in Releases : ~revived' /\ releases[y] \in Ending => releases'[y] \in Ending
  BY <1>1, <1>2, <1>3 DEF TypeOK, Ending, Present, Visible
<1>7. /\ pc' \in [Requests -> Steps] /\ local' \in [Requests -> Local] /\ pc'[r] = "idle"
      /\ Others(r)
  BY <1>1, <1>2, Returns DEF Others
<1>8. TypeOK'
  BY <1>1, <1>2, <1>5, <1>7 DEF TypeOK
<1> QED BY <1>1, <1>5, <1>6, <1>7, <1>8, CalmIdle, NeatIdle, OverInv DEF Good, Holding

LEMMA UploadReadGood ==
  ASSUME Inv, NEW r \in Requests, NEW x \in Releases, NEW a \in Assets, UploadRead(r, x, a)
  PROVE  Good(r)
<1> DEFINE m == [Idle EXCEPT !.release = x, !.asset = a]
<1>1. /\ pc[r] = "idle" /\ Goto(r, "put") /\ local' = [local EXCEPT ![r] = m]
      /\ a \notin issued /\ issued' = issued \cup {a}
      /\ UNCHANGED <<releases, rows, blobs, faults, doomed, revived>>
  BY DEF UploadRead, ghostVars, rowVars
<1>2. TypeOK /\ "put" \in Steps /\ IssuedInv
  BY DEF Inv, Steps
<1>3. m \in Local /\ m.release = x /\ m.asset = a
  BY DEF Idle, Local
<1> HIDE DEF m
<1>4. /\ pc' \in [Requests -> Steps] /\ pc'[r] = "put" /\ local' \in [Requests -> Local]
      /\ local'[r] = m /\ Others(r)
  BY <1>1, <1>2, <1>3, Begins DEF Others
<1>5. TypeOK'
  BY <1>1, <1>2, <1>4 DEF TypeOK
<1>6. rows[a] = None /\ a \notin doomed
  BY <1>1, <1>2 DEF IssuedInv
<1>7. UploadInv(r)' /\ DeletionInv(r)' /\ Fresh(r)
  BY <1>1, <1>3, <1>4, <1>6 DEF UploadInv, DeletionInv, Fresh, Uploading, DeleteSteps
<1> QED BY <1>1, <1>4, <1>5, <1>7, CalmIdle, NeatIdle DEF Good, Holding

LEMMA PutGood ==
  ASSUME Inv, NEW r \in Requests, Put(r)
  PROVE  Good(r)
<1> DEFINE a == local[r].asset
<1>1. /\ pc[r] = "put" /\ UNCHANGED <<releases, rows, issued, doomed, revived>>
      /\ \/ blobs' = blobs \cup {a} /\ Goto(r, "insert") /\ UNCHANGED <<local, faults>>
         \/ Fails("storage") /\ Return(r) /\ blobs' \in {blobs, blobs \cup {a}}
  BY DEF Put, ghostVars, rowVars
<1>2. TypeOK /\ UploadInv(r) /\ "insert" \in Steps
  BY DEF Inv, Steps
<1>3. a \in Assets /\ a \in issued /\ local[r].release \in Releases /\ rows[a] = None
      /\ a \notin doomed
  BY <1>1, <1>2 DEF UploadInv, Uploading, TypeOK
<1> HIDE DEF a
<1>4. blobs' \subseteq Assets /\ blobs \subseteq blobs' /\ \A b \in blobs' \ blobs : b = a
  BY <1>1, <1>2, <1>3 DEF TypeOK
<1>5. CASE blobs' = blobs \cup {a} /\ Goto(r, "insert") /\ UNCHANGED <<local, faults>>
  <2>1. /\ pc' \in [Requests -> Steps] /\ pc'[r] = "insert" /\ local' \in [Requests -> Local]
        /\ local'[r] = local[r] /\ Others(r)
    BY <1>2, <1>5, Proceeds DEF Others
  <2>2. TypeOK'
    BY <1>1, <1>2, <1>4, <1>5, <2>1 DEF TypeOK
  <2>3. UploadInv(r)' /\ DeletionInv(r)' /\ Fresh(r)
    BY <1>1, <1>3, <1>5, <2>1 DEF UploadInv, DeletionInv, Fresh, Uploading, DeleteSteps, a
  <2>4. Calm(r)
    BY <1>1, <1>4, <1>5, <2>1 DEF Calm, a
  <2>5. Neat(r)
    BY <1>1, <1>4, <1>5, <2>1 DEF Neat, Holding, a
  <2> QED BY <2>2, <2>3, <2>4, <2>5 DEF Good
<1>6. CASE Fails("storage") /\ Return(r)
  <2>1. /\ pc' \in [Requests -> Steps] /\ local' \in [Requests -> Local] /\ pc'[r] = "idle"
        /\ Others(r)
    BY <1>2, <1>6, Returns DEF Others
  <2>2. faults' \subseteq Kinds /\ faults \subseteq faults' /\ "storage" \in faults'
    BY <1>2, <1>6, FailsFacts
  <2>3. TypeOK'
    BY <1>1, <1>2, <1>4, <2>1, <2>2 DEF TypeOK
  <2>4. Calm(r)
    BY <1>1, <1>4, <2>1, <2>2 DEF Calm, a
  <2>5. Neat(r)
    BY <2>2 DEF Neat
  <2> QED BY <2>1, <2>3, <2>4, <2>5, OverInv DEF Good
<1> QED BY <1>1, <1>5, <1>6

LEMMA CreateAssetGood ==
  ASSUME Inv, NEW r \in Requests, CreateAsset(r)
  PROVE  Good(r)
<1> DEFINE x == local[r].release
           a == local[r].asset
<1>1. /\ pc[r] = "insert" /\ UNCHANGED <<releases, blobs, issued, doomed, revived>>
      /\ \/ /\ Insertable(x, a) /\ rows' = [rows EXCEPT ![a] = x] /\ Return(r) /\ UNCHANGED faults
         \/ /\ Goto(r, "cleanup") /\ UNCHANGED local
            /\ \/ UNCHANGED <<rows, faults>>
               \/ Fails("database") /\ UNCHANGED rows
               \/ Insertable(x, a) /\ Fails("answer") /\ rows' = [rows EXCEPT ![a] = x]
  BY DEF CreateAsset, ghostVars
<1>2. TypeOK /\ UploadInv(r) /\ "cleanup" \in Steps
  BY DEF Inv, Steps
<1>3. /\ a \in Assets /\ a \in issued /\ x \in Releases /\ rows[a] = None /\ x # None
      /\ rows \in [Assets -> Releases \cup {None}] /\ a \in blobs
  BY <1>1, <1>2, NoneAssumption DEF UploadInv, Uploading, TypeOK
<1>4. Insertable(x, a) => releases[x] \in Visible
  BY DEF Insertable
<1> HIDE DEF a, x
\* The row is inserted or nothing changes.
<1>5. /\ rows' \in [Assets -> Releases \cup {None}]
      /\ \A b \in Assets : rows[b] # None => rows'[b] = rows[b]
      /\ \A b \in Assets : rows[b] = None /\ rows'[b] # None =>
           b = a /\ releases[rows'[b]] \in Visible
  BY <1>1, <1>3, <1>4
<1>6. /\ faults' \subseteq Kinds /\ faults \subseteq faults'
  BY <1>1, <1>2, FailsFacts DEF TypeOK
<1>7. CASE Return(r)
  <2>1. /\ pc' \in [Requests -> Steps] /\ local' \in [Requests -> Local] /\ pc'[r] = "idle"
        /\ Others(r)
    BY <1>2, <1>7, Returns DEF Others
  <2>2. TypeOK'
    BY <1>1, <1>2, <1>5, <1>6, <2>1 DEF TypeOK
  <2>3. Calm(r)
    BY <1>1, <1>5, <1>6, <2>1 DEF Calm, a
  <2>4. rows' = [rows EXCEPT ![a] = x] 
    <3>1. ~Goto(r, "cleanup")
      <4>1. Goto(r, "cleanup") => pc'[r] = "cleanup"
        BY <1>2, PcMoves
      <4> QED BY <2>1, <4>1
    <3> QED BY <1>1, <3>1
  <2>5. rows'[a] # None
    BY <1>3, <2>4
  <2>6. \A b \in blobs' : b \in Assets
    BY <1>1, <1>2 DEF TypeOK
  <2>7. Neat(r)
    BY <1>1, <1>5, <2>5, <2>6 DEF Neat, Holding, a
  <2> QED BY <2>1, <2>2, <2>3, <2>7, OverInv DEF Good
<1>8. CASE Goto(r, "cleanup") /\ UNCHANGED local
  <2>1. /\ pc' \in [Requests -> Steps] /\ pc'[r] = "cleanup" /\ local' \in [Requests -> Local]
        /\ local'[r] = local[r] /\ Others(r)
    BY <1>2, <1>8, Proceeds DEF Others
  <2>2. TypeOK'
    BY <1>1, <1>2, <1>5, <1>6, <2>1 DEF TypeOK
  <2>3. Calm(r)
    BY <1>1, <1>5, <1>6, <2>1 DEF Calm, a
  <2>4. \A b \in blobs' : b \in Assets
    BY <1>1, <1>2 DEF TypeOK
  <2>5. Neat(r)
    BY <1>1, <1>5, <2>1, <2>4 DEF Neat, Holding, a
  <2>6. "answer" \notin faults' => rows'[a] = None
    <3>1. pc'[r] # "idle"
      BY <2>1
    <3>2. ~Return(r)
      BY <1>2, <3>1, Returns
    <3>3. Fails("answer") => "answer" \in faults'
      BY DEF Fails
    <3> QED BY <1>1, <1>3, <3>2, <3>3
  <2>7. UploadInv(r)' /\ DeletionInv(r)' /\ Fresh(r)
    BY <1>1, <1>3, <2>1, <2>6
       DEF UploadInv, DeletionInv, Fresh, Uploading, DeleteSteps, a, x
  <2> QED BY <2>2, <2>3, <2>5, <2>7 DEF Good
<1> QED BY <1>1, <1>7, <1>8

LEMMA CleanupGood ==
  ASSUME Inv, NEW r \in Requests, Cleanup(r)
  PROVE  Good(r)
<1> DEFINE a == local[r].asset
<1>1. /\ pc[r] = "cleanup" /\ UNCHANGED <<releases, rows, issued, doomed, revived>> /\ Return(r)
      /\ \/ blobs' = blobs \ {a} /\ UNCHANGED faults
         \/ Fails("storage") /\ blobs' \in {blobs, blobs \ {a}}
  BY DEF Cleanup, ghostVars, rowVars
<1>2. TypeOK
  BY DEF Inv
<1>3. /\ pc' \in [Requests -> Steps] /\ local' \in [Requests -> Local] /\ pc'[r] = "idle"
      /\ Others(r)
  BY <1>1, <1>2, Returns DEF Others
<1>4. faults' \subseteq Kinds /\ faults \subseteq faults' /\ blobs' \subseteq blobs
  BY <1>1, <1>2, FailsFacts DEF TypeOK
<1>5. TypeOK'
  BY <1>1, <1>2, <1>3, <1>4 DEF TypeOK
<1>6. \A b \in blobs \ blobs' : b = a
  BY <1>1
<1>7. Calm(r)
  BY <1>1, <1>3, <1>4, <1>6 DEF Calm
<1>8. Neat(r)
  <2>1. Fails("storage") => "storage" \in faults'
    BY DEF Fails
  <2>2. "storage" \in faults' \/ a \notin blobs'
    BY <1>1, <2>1
  <2> QED BY <1>1, <1>4, <2>2 DEF Neat, Holding
<1> QED BY <1>3, <1>5, <1>7, <1>8, OverInv DEF Good

LEMMA BeginDeleteReleaseGood ==
  ASSUME Inv, NEW r \in Requests, NEW x \in Releases, BeginDeleteRelease(r, x)
  PROVE  Good(r)
<1> DEFINE m == [Idle EXCEPT !.release = x, !.all = TRUE]
<1>1. /\ pc[r] = "idle" /\ Goto(r, "list") /\ local' = [local EXCEPT ![r] = m]
      /\ releases' = [releases EXCEPT ![x] = "deleting"]
      /\ UNCHANGED <<rows, blobs, issued, faults, doomed, revived>>
  BY DEF BeginDeleteRelease, ghostVars
<1>2. TypeOK /\ "list" \in Steps /\ "deleting" \in States
  BY DEF Inv, Steps, DeleteSteps, States, Present
<1>3. m \in Local /\ m.release = x /\ m.all
  BY DEF Idle, Local
<1> HIDE DEF m
<1>4. /\ pc' \in [Requests -> Steps] /\ pc'[r] = "list" /\ local' \in [Requests -> Local]
      /\ local'[r] = m /\ Others(r)
  BY <1>1, <1>2, <1>3, Begins DEF Others
<1>5. releases' \in [Releases -> States] /\ releases'[x] \in Ending
      /\ \A y \in Releases : releases[y] \in Ending => releases'[y] \in Ending
  BY <1>1, <1>2 DEF TypeOK, Ending
<1>6. TypeOK'
  BY <1>1, <1>2, <1>4, <1>5 DEF TypeOK
<1>7. UploadInv(r)' /\ DeletionInv(r)' /\ Fresh(r)
  BY <1>3, <1>4, <1>5 DEF UploadInv, DeletionInv, Fresh, Uploading, DeleteSteps
<1> QED BY <1>1, <1>4, <1>5, <1>6, <1>7, CalmIdle, NeatIdle DEF Good, Holding

LEMMA ListAssetsGood ==
  ASSUME Inv, NEW r \in Requests, ListAssets(r)
  PROVE  Good(r)
<1> DEFINE T == InRelease(local[r].release)
           m == [local[r] EXCEPT !.todo = T]
<1>1. /\ pc[r] = "list" /\ Goto(r, "next") /\ local' = [local EXCEPT ![r].todo = T]
      /\ UNCHANGED <<releases, rows, blobs, issued, faults, doomed, revived>>
  BY DEF ListAssets, ghostVars, rowVars
<1>2. TypeOK /\ "next" \in Steps /\ local[r] \in Local /\ DeletionInv(r) /\ T \subseteq Assets
  BY DEF Inv, Steps, DeleteSteps, TypeOK, InRelease
<1>3. m \in Local /\ m.release = local[r].release /\ m.all = local[r].all /\ m.todo = T
  <2> HIDE DEF T
  <2> QED BY <1>2 DEF Local
<1>4. local' = [local EXCEPT ![r] = m]
  BY <1>1
<1>5. \A z : InRelease(z)' = InRelease(z)
  BY <1>1 DEF InRelease
<1> HIDE DEF m, T
<1>6. /\ pc' \in [Requests -> Steps] /\ pc'[r] = "next" /\ local' \in [Requests -> Local]
      /\ local'[r] = m /\ Others(r)
  BY <1>1, <1>2, <1>3, <1>4, Begins DEF Others
<1>7. TypeOK'
  BY <1>1, <1>2, <1>6 DEF TypeOK
<1>8. UploadInv(r)' /\ Fresh(r)
  BY <1>6 DEF UploadInv, Fresh, Uploading
<1>9. DeletionInv(r)'
  BY <1>1, <1>2, <1>3, <1>5, <1>6 DEF DeletionInv, DeleteSteps, T
<1> QED BY <1>1, <1>6, <1>7, <1>8, <1>9, CalmIdle, NeatIdle DEF Good, Holding

LEMMA DeleteNextGood ==
  ASSUME Inv, NEW r \in Requests, DeleteNext(r)
  PROVE  Good(r)
<1>1. /\ pc[r] = "next" /\ UNCHANGED <<releases, rows, blobs, issued, faults, revived>>
  BY DEF DeleteNext, rowVars
<1>2. TypeOK /\ local[r] \in Local /\ DeletionInv(r) /\ "blob" \in Steps
  BY DEF Inv, TypeOK, Steps, DeleteSteps
<1>3. local[r].release \in Releases /\ local[r].release # None /\ local[r].all
  BY <1>1, <1>2, NoneAssumption DEF DeletionInv, DeleteSteps
<1>4. PICK a \in local[r].todo :
        IF rows[a] = local[r].release
        THEN /\ local' = [local EXCEPT ![r].asset = a] /\ Goto(r, "blob")
             /\ doomed' = doomed \cup {a}
        ELSE Return(r) /\ UNCHANGED doomed
  BY DEF DeleteNext
<1>5. a \in Assets
  BY <1>2 DEF Local
<1>6. CASE rows[a] = local[r].release
  <2> DEFINE m == [local[r] EXCEPT !.asset = a]
  <2>1. local' = [local EXCEPT ![r] = m] /\ Goto(r, "blob") /\ doomed' = doomed \cup {a}
    BY <1>4, <1>6
  <2>2. m \in Local /\ m.release = local[r].release /\ m.all = local[r].all
        /\ m.todo = local[r].todo /\ m.asset = a
    BY <1>2, <1>5 DEF Local
  <2> HIDE DEF m
  <2>3. /\ pc' \in [Requests -> Steps] /\ pc'[r] = "blob" /\ local' \in [Requests -> Local]
        /\ local'[r] = m /\ Others(r)
    BY <1>2, <2>1, <2>2, Begins DEF Others
  <2>4. TypeOK'
    BY <1>1, <1>2, <1>5, <2>1, <2>3 DEF TypeOK
  <2>5. Calm(r)
    BY <1>1, <1>3, <1>6, <2>1, <2>3 DEF Calm
  <2>6. UploadInv(r)' /\ Fresh(r)
    BY <2>3 DEF UploadInv, Fresh, Uploading
  <2>7. \A z : InRelease(z)' = InRelease(z)
    BY <1>1 DEF InRelease
  <2>8. DeletionInv(r)'
    BY <1>1, <1>2, <1>3, <2>1, <2>2, <2>3, <2>7 DEF DeletionInv, DeleteSteps
  <2> QED BY <1>1, <2>4, <2>5, <2>6, <2>8, NeatIdle DEF Good, Holding
<1>7. CASE rows[a] # local[r].release
  <2>1. /\ pc' \in [Requests -> Steps] /\ local' \in [Requests -> Local] /\ pc'[r] = "idle"
        /\ Others(r) /\ UNCHANGED doomed
    BY <1>2, <1>4, <1>7, Returns DEF Others
  <2>2. TypeOK'
    BY <1>1, <1>2, <2>1 DEF TypeOK
  <2> QED BY <1>1, <2>1, <2>2, CalmIdle, NeatIdle, OverInv DEF Good, Holding
<1> QED BY <1>6, <1>7

LEMMA DeleteReleaseGood ==
  ASSUME Inv, NEW r \in Requests, DeleteRelease(r)
  PROVE  Good(r)
<1> DEFINE x == local[r].release
<1>1. /\ pc[r] = "next" /\ local[r].todo = {} /\ Return(r)
      /\ UNCHANGED <<blobs, issued, faults, doomed, revived>>
      /\ \/ /\ releases' = [releases EXCEPT ![x] = "deleted"]
            /\ rows' = [a \in Assets |-> IF rows[a] = x THEN None ELSE rows[a]]
         \/ UNCHANGED <<releases, rows>>
  BY DEF DeleteRelease, ghostVars, rowVars
<1>2. TypeOK /\ DeletionInv(r) /\ "deleted" \in States
  BY DEF Inv, States
<1>3. x \in Releases /\ x # None /\ local[r].all
  BY <1>1, <1>2, NoneAssumption DEF DeletionInv, DeleteSteps
<1>4. ~revived => \A a \in Assets : rows[a] # x
  BY <1>1, <1>2, <1>3 DEF DeletionInv, InRelease
<1> HIDE DEF x
<1>5. /\ releases' \in [Releases -> States] /\ rows' \in [Assets -> Releases \cup {None}]
      /\ \A a \in Assets : rows'[a] \in {rows[a], None} /\ (rows[a] = None => rows'[a] = None)
      /\ \A y \in Releases : releases[y] \in Ending => releases'[y] \in Ending
  BY <1>1, <1>2, <1>3 DEF TypeOK, Ending
<1>6. /\ pc' \in [Requests -> Steps] /\ local' \in [Requests -> Local] /\ pc'[r] = "idle"
      /\ Others(r)
  BY <1>1, <1>2, Returns DEF Others
<1>7. TypeOK'
  BY <1>1, <1>2, <1>5, <1>6 DEF TypeOK
<1>8. Calm(r)
  BY <1>1, <1>5, <1>6 DEF Calm
<1>9. ~revived => \A a \in Assets : rows'[a] = rows[a]
  BY <1>1, <1>4
<1>10. Neat(r)
  BY <1>1, <1>2, <1>9 DEF Neat, Holding, TypeOK
<1> QED BY <1>6, <1>7, <1>8, <1>10, OverInv DEF Good

LEMMA DeleteAssetGood ==
  ASSUME Inv, NEW r \in Requests, NEW a \in Assets, DeleteAsset(r, a)
  PROVE  Good(r)
<1> DEFINE m == [Idle EXCEPT !.release = rows[a], !.asset = a]
<1>1. /\ pc[r] = "idle" /\ rows[a] # None /\ Goto(r, "blob") /\ local' = [local EXCEPT ![r] = m]
      /\ doomed' = doomed \cup {a} /\ UNCHANGED <<releases, rows, blobs, issued, faults, revived>>
  BY DEF DeleteAsset, rowVars
<1>2. TypeOK /\ "blob" \in Steps
  BY DEF Inv, Steps, DeleteSteps
<1>3. rows[a] \in Releases
  BY <1>1, <1>2 DEF TypeOK
<1>4. m \in Local /\ m.release = rows[a] /\ m.asset = a /\ ~m.all
  BY <1>3 DEF Idle, Local
<1> HIDE DEF m
<1>5. /\ pc' \in [Requests -> Steps] /\ pc'[r] = "blob" /\ local' \in [Requests -> Local]
      /\ local'[r] = m /\ Others(r)
  BY <1>1, <1>2, <1>4, Begins DEF Others
<1>6. TypeOK'
  BY <1>1, <1>2, <1>5 DEF TypeOK
<1>7. Calm(r)
  BY <1>1, <1>5 DEF Calm
<1>8. UploadInv(r)' /\ DeletionInv(r)' /\ Fresh(r)
  BY <1>1, <1>3, <1>4, <1>5 DEF UploadInv, DeletionInv, Fresh, Uploading, DeleteSteps
<1> QED BY <1>1, <1>6, <1>7, <1>8, NeatIdle DEF Good, Holding

LEMMA DeleteBlobGood ==
  ASSUME Inv, NEW r \in Requests, DeleteBlob(r)
  PROVE  Good(r)
<1> DEFINE a == local[r].asset
<1>1. /\ pc[r] = "blob" /\ UNCHANGED <<releases, rows, issued, doomed, revived>>
      /\ \/ blobs' = blobs \ {a} /\ Goto(r, "row") /\ UNCHANGED <<local, faults>>
         \/ Fails("storage") /\ Return(r) /\ blobs' \in {blobs, blobs \ {a}}
  BY DEF DeleteBlob, ghostVars, rowVars
<1>2. TypeOK /\ DeletionInv(r) /\ "row" \in Steps
  BY DEF Inv, Steps, DeleteSteps
<1>3. a \in doomed
  BY <1>1, <1>2 DEF DeletionInv
<1>4. blobs' \subseteq blobs /\ \A b \in blobs \ blobs' : b \in doomed
  BY <1>1, <1>3
<1>5. CASE blobs' = blobs \ {a} /\ Goto(r, "row") /\ UNCHANGED <<local, faults>>
  <2>1. /\ pc' \in [Requests -> Steps] /\ pc'[r] = "row" /\ local' \in [Requests -> Local]
        /\ local'[r] = local[r] /\ Others(r)
    BY <1>2, <1>5, Proceeds DEF Others
  <2>2. TypeOK'
    BY <1>1, <1>2, <1>4, <1>5, <2>1 DEF TypeOK
  <2>3. Calm(r)
    BY <1>1, <1>4, <1>5, <2>1 DEF Calm
  <2>4. Neat(r)
    BY <1>1, <1>4 DEF Neat, Holding
  <2>5. UploadInv(r)' /\ Fresh(r)
    BY <2>1 DEF UploadInv, Fresh, Uploading
  <2>6. \A z : InRelease(z)' = InRelease(z)
    BY <1>1 DEF InRelease
  <2>7. DeletionInv(r)'
    BY <1>1, <1>2, <1>3, <1>5, <2>1, <2>6 DEF DeletionInv, DeleteSteps
  <2> QED BY <2>2, <2>3, <2>4, <2>5, <2>7 DEF Good
<1>6. CASE Fails("storage") /\ Return(r)
  <2>1. /\ pc' \in [Requests -> Steps] /\ local' \in [Requests -> Local] /\ pc'[r] = "idle"
        /\ Others(r)
    BY <1>2, <1>6, Returns DEF Others
  <2>2. faults' \subseteq Kinds /\ faults \subseteq faults'
    BY <1>2, <1>6, FailsFacts
  <2>3. TypeOK'
    BY <1>1, <1>2, <1>4, <2>1, <2>2 DEF TypeOK
  <2>4. Calm(r)
    BY <1>1, <1>4, <2>1, <2>2 DEF Calm
  <2>5. Neat(r)
    BY <1>1, <1>4 DEF Neat, Holding
  <2> QED BY <2>1, <2>3, <2>4, <2>5, OverInv DEF Good
<1> QED BY <1>1, <1>5, <1>6

LEMMA DeleteRowGood ==
  ASSUME Inv, NEW r \in Requests, DeleteRow(r)
  PROVE  Good(r)
<1> DEFINE a == local[r].asset
           m == [local[r] EXCEPT !.todo = @ \ {a}, !.asset = None]
<1>1. /\ pc[r] = "row" /\ UNCHANGED <<releases, blobs, issued, doomed, revived>>
      /\ \/ /\ rows[a] = local[r].release /\ UNCHANGED faults /\ rows' = [rows EXCEPT ![a] = None]
            /\ IF local[r].all
               THEN /\ local' = [local EXCEPT ![r].todo = @ \ {a}, ![r].asset = None]
                    /\ Goto(r, "next")
               ELSE Return(r)
         \/ Return(r) /\ UNCHANGED <<rows, faults>>
         \/ Fails("database") /\ Return(r) /\ UNCHANGED rows
  BY DEF DeleteRow, ghostVars
<1>2. TypeOK /\ DeletionInv(r) /\ "next" \in Steps /\ local[r] \in Local
  BY DEF Inv, Steps, DeleteSteps, TypeOK
<1>3. a \in doomed /\ a \in Assets /\ a \notin blobs
  BY <1>1, <1>2 DEF DeletionInv, TypeOK
<1>4. m \in Local /\ m.release = local[r].release /\ m.all = local[r].all
      /\ m.todo = local[r].todo \ {a}
  BY <1>2 DEF Local
<1>5. local[r].all /\ ~Return(r) => local' = [local EXCEPT ![r] = m]
  BY <1>1, <1>2 DEF TypeOK, Local
<1> HIDE DEF a, m
<1>6. /\ rows' \in [Assets -> Releases \cup {None}]
      /\ \A b \in Assets : b # a => rows'[b] = rows[b]
      /\ rows'[a] \in {rows[a], None}
  BY <1>1, <1>2, <1>3 DEF TypeOK
<1>7. faults' \subseteq Kinds /\ faults \subseteq faults'
  BY <1>1, <1>2, FailsFacts DEF TypeOK
<1>8. ASSUME Others(r) PROVE Calm(r)
  BY <1>1, <1>6, <1>7, <1>8 DEF Calm
<1>9. Neat(r)
  <2>1. \A b \in blobs' : b \in Assets /\ b # a
    BY <1>1, <1>2, <1>3 DEF TypeOK
  <2> QED BY <1>1, <1>6, <2>1 DEF Neat, Holding
<1>10. CASE Return(r)
  <2>1. /\ pc' \in [Requests -> Steps] /\ local' \in [Requests -> Local] /\ pc'[r] = "idle"
        /\ Others(r)
    BY <1>2, <1>10, Returns DEF Others
  <2>2. TypeOK'
    BY <1>1, <1>2, <1>6, <1>7, <2>1 DEF TypeOK
  <2> QED BY <1>8, <1>9, <2>1, <2>2, OverInv DEF Good
<1>11. CASE ~Return(r)
  <2>1. /\ local' = [local EXCEPT ![r] = m] /\ Goto(r, "next") /\ rows' = [rows EXCEPT ![a] = None]
        /\ local[r].all
    BY <1>1, <1>5, <1>11
  <2>2. /\ pc' \in [Requests -> Steps] /\ pc'[r] = "next" /\ local' \in [Requests -> Local]
        /\ local'[r] = m /\ Others(r)
    BY <1>2, <1>4, <2>1, Begins DEF Others
  <2>3. TypeOK'
    BY <1>1, <1>2, <1>6, <1>7, <2>2 DEF TypeOK
  <2>4. UploadInv(r)' /\ Fresh(r)
    BY <2>2 DEF UploadInv, Fresh, Uploading
  <2>5. local[r].release \in Releases /\ local[r].release # None
    BY <1>1, <1>2, NoneAssumption DEF DeletionInv, DeleteSteps
  <2>6. \A b \in Assets : rows'[b] = local[r].release => b # a /\ rows[b] = local[r].release
    BY <1>2, <1>3, <2>1, <2>5 DEF TypeOK
  <2>7. ~revived => {b \in Assets : rows'[b] = local[r].release} \subseteq local[r].todo \ {a}
    BY <1>1, <1>2, <2>1, <2>6 DEF DeletionInv, InRelease
  <2>8. DeletionInv(r)'
    <3>1. InRelease(local[r].release)' = {b \in Assets : rows'[b] = local[r].release}
      BY <1>4, <2>2 DEF InRelease
    <3> QED BY <1>1, <1>2, <1>4, <2>1, <2>2, <2>5, <2>7, <3>1 DEF DeletionInv, DeleteSteps
  <2> QED BY <1>8, <1>9, <2>2, <2>3, <2>4, <2>8 DEF Good
<1> QED BY <1>10, <1>11

LEMMA StopGood ==
  ASSUME Inv, NEW r \in Requests, Stop(r)
  PROVE  Good(r)
<1>1. /\ Fails("stop") /\ Return(r)
      /\ UNCHANGED <<releases, rows, blobs, issued, doomed, revived>>
  BY DEF Stop, ghostVars, rowVars
<1>2. TypeOK
  BY DEF Inv
<1>3. /\ pc' \in [Requests -> Steps] /\ local' \in [Requests -> Local] /\ pc'[r] = "idle"
      /\ Others(r)
  BY <1>1, <1>2, Returns DEF Others
<1>4. faults' \subseteq Kinds /\ faults \subseteq faults' /\ "stop" \in faults'
  BY <1>1, <1>2, FailsFacts
<1>5. TypeOK'
  BY <1>1, <1>2, <1>3, <1>4 DEF TypeOK
<1>6. Neat(r)
  BY <1>4 DEF Neat
<1> QED BY <1>1, <1>3, <1>4, <1>5, <1>6, CalmIdle, OverInv DEF Good
-----------------------------------------------------------------------------
\* The invariant and the theorems.

LEMMA InitInv == Init => Inv
<1> SUFFICES ASSUME Init PROVE Inv
  OBVIOUS
<1>1. TypeOK
  BY IdleType DEF Init, TypeOK, States, Steps
<1>2. IssuedInv /\ OneUpload /\ RowsHaveBytes /\ BytesInv
  BY DEF Init, IssuedInv, OneUpload, Uploading, RowsHaveBytes, BytesInv
<1>3. \A r \in Requests : UploadInv(r) /\ DeletionInv(r)
  BY DEF Init, UploadInv, DeletionInv, Uploading, DeleteSteps
<1> QED BY <1>1, <1>2, <1>3 DEF Inv

LEMMA NextInv == Inv /\ [Next]_vars => Inv'
<1> SUFFICES ASSUME Inv, [Next]_vars PROVE Inv'
  OBVIOUS
<1>1. ASSUME NEW r \in Requests, NEW x \in Releases, NEW draft \in BOOLEAN,
             CreateRelease(r, x, draft) \/ UpdateRead(r, x, draft)
      PROVE  Inv'
  BY <1>1, CreateReleaseGood, UpdateReadGood, GoodStep
<1>2. ASSUME NEW r \in Requests, UpdateRelease(r) \/ Stop(r) PROVE Inv'
  BY <1>2, UpdateReleaseGood, StopGood, GoodStep
<1>3. ASSUME NEW r \in Requests, UploadNext(r) PROVE Inv'
  BY <1>3, UploadReadGood, PutGood, CreateAssetGood, CleanupGood, GoodStep DEF UploadNext
<1>4. ASSUME NEW r \in Requests, DeletionNext(r) PROVE Inv'
  BY <1>4, BeginDeleteReleaseGood, DeleteAssetGood, ListAssetsGood, DeleteNextGood,
     DeleteReleaseGood, DeleteBlobGood, DeleteRowGood, GoodStep DEF DeletionNext
<1>5. CASE UNCHANGED vars
  <2>1. TypeOK' /\ IssuedInv' /\ OneUpload' /\ RowsHaveBytes' /\ BytesInv'
    BY <1>5 DEF vars, Inv, TypeOK, IssuedInv, OneUpload, Uploading, RowsHaveBytes, BytesInv,
                Holding
  <2>2. \A r \in Requests : UploadInv(r)' /\ DeletionInv(r)'
    BY <1>5 DEF vars, Inv, UploadInv, DeletionInv, Uploading, InRelease
  <2> QED BY <2>1, <2>2 DEF Inv
<1> QED BY <1>1, <1>2, <1>3, <1>4, <1>5 DEF Next

\* The inductive invariant holds in every reachable state.
THEOREM Invariance == Spec => []Inv
BY InitInv, NextInv, PTL DEF Spec

\* Every variable keeps its type.
THEOREM TypeCorrect == Spec => []TypeOK
<1>1. Inv => TypeOK
  BY DEF Inv
<1> QED BY <1>1, Invariance, PTL

\* A row has its bytes until somebody starts to delete the asset, unless the
\* answer to an insert was lost: no deletion, cleanup or upload of another
\* request takes them away.
THEOREM RowsDownloadable == Spec => []RowsHaveBytes
<1>1. Inv => RowsHaveBytes
  BY DEF Inv
<1> QED BY <1>1, Invariance, PTL

\* Uploads and deletions that run to their end leave no bytes without a row,
\* unless an Update overwrote the mark of a deletion.
THEOREM BytesAccounted == Spec => []NoOrphanBytes
<1>1. Inv => NoOrphanBytes
  <2> SUFFICES ASSUME Inv, Quiet, ~revived, faults \cap {"storage", "stop"} = {}
               PROVE  blobs \subseteq InRepository
    BY DEF NoOrphanBytes
  <2>1. \A a \in blobs : rows[a] # None \/ \E r \in Requests : Holding(r, a)
    BY DEF Inv, BytesInv
  <2>2. \A r \in Requests : pc[r] = "idle"
    BY DEF Quiet
  <2>3. blobs \subseteq Assets
    BY DEF Inv, TypeOK
  <2> QED BY <2>1, <2>2, <2>3 DEF Holding, InRepository
<1> QED BY <1>1, Invariance, PTL
-----------------------------------------------------------------------------
\* The quotas.

\* The bytes of one asset are as many as its size says.
LEMMA OneAsset ==
  ASSUME NEW a \in Assets
  PROVE  /\ IsFiniteSet({a} \X (1 .. Size[a]))
         /\ Cardinality({a} \X (1 .. Size[a])) = Size[a]
<1> DEFINE n == Size[a]
<1>1. n \in Nat
  BY SizeAssumption
<1> HIDE DEF n
<1>2. IsFiniteSet({a}) /\ Cardinality({a}) = 1
  BY FS_Singleton
<1>3. IsFiniteSet(1 .. n) /\ Cardinality(1 .. n) = IF 1 > n THEN 0 ELSE n - 1 + 1
  BY <1>1, FS_Interval
<1>4. Cardinality(1 .. n) = n
  BY <1>1, <1>3
<1>5. /\ IsFiniteSet({a} \X (1 .. n))
      /\ Cardinality({a} \X (1 .. n)) = Cardinality({a}) * Cardinality(1 .. n)
  BY <1>2, <1>3, FS_Product
<1>6. 1 * n = n
  BY <1>1
<1> QED BY <1>2, <1>4, <1>5, <1>6 DEF n

\* One more asset uses its size more.
LEMMA AddUsage ==
  ASSUME NEW S \in SUBSET Assets, NEW a \in Assets \ S, IsFiniteSet(Bytes(S))
  PROVE  /\ IsFiniteSet(Bytes(S \cup {a}))
         /\ Usage(S \cup {a}) = Usage(S) + Size[a]
         /\ Usage(S) \in Nat
<1> DEFINE one == {a} \X (1 .. Size[a])
<1>1. Bytes(S \cup {a}) = Bytes(S) \cup one
  BY DEF Bytes
<1>2. Bytes(S) \cap one = {}
  BY DEF Bytes
<1>3. IsFiniteSet(one) /\ Cardinality(one) = Size[a]
  BY OneAsset
<1>4. Cardinality(Bytes(S)) \in Nat
  BY FS_CardinalityType
<1> HIDE DEF one
<1>5. /\ IsFiniteSet(Bytes(S) \cup one)
      /\ Cardinality(Bytes(S) \cup one) =
           Cardinality(Bytes(S)) + Cardinality(one) - Cardinality(Bytes(S) \cap one)
  BY <1>3, FS_Union
<1>6. Cardinality(Bytes(S) \cap one) = 0
  BY <1>2, FS_EmptySet
<1>7. Size[a] \in Nat
  BY SizeAssumption
<1>8. Usage(S \cup {a}) = Usage(S) + Size[a] - 0
  BY <1>1, <1>3, <1>5, <1>6 DEF Usage
<1>9. Usage(S) \in Nat
  BY <1>4 DEF Usage
<1>10. Usage(S \cup {a}) = Usage(S) + Size[a]
  BY <1>7, <1>8, <1>9
<1> QED BY <1>1, <1>5, <1>9, <1>10

\* Fewer assets use no more.
LEMMA SubUsage ==
  ASSUME NEW S, NEW T \in SUBSET S, IsFiniteSet(Bytes(S))
  PROVE  /\ IsFiniteSet(Bytes(T))
         /\ Usage(T) <= Usage(S)
         /\ Usage(T) \in Nat /\ Usage(S) \in Nat
<1>1. Bytes(T) \in SUBSET Bytes(S)
  BY DEF Bytes
<1>2. IsFiniteSet(Bytes(T)) /\ Cardinality(Bytes(T)) <= Cardinality(Bytes(S))
  BY <1>1, FS_Subset
<1> QED BY <1>2, FS_CardinalityType DEF Usage

\* A step takes rows away, or inserts one that the quotas have room for.
Shrinks == \A a \in Assets : rows'[a] \in {rows[a], None}
Inserts(x, a) == Insertable(x, a) /\ rows[a] = None /\ rows' = [rows EXCEPT ![a] = x]

LEMMA RowsStep ==
  ASSUME Inv, [Next]_vars
  PROVE  Shrinks \/ \E x \in Releases, a \in Assets : Inserts(x, a)
<1>1. rows \in [Assets -> Releases \cup {None}] /\ issued \subseteq Assets
  BY DEF Inv, TypeOK
<1>2. rows' = rows => Shrinks
  BY DEF Shrinks
<1>3. ASSUME NEW r \in Requests, NEW x \in Releases, NEW draft \in BOOLEAN,
             CreateRelease(r, x, draft) \/ UpdateRead(r, x, draft)
      PROVE  rows' = rows
  BY <1>3 DEF CreateRelease, UpdateRead, rowVars
<1>4. ASSUME NEW r \in Requests, UpdateRelease(r) \/ Stop(r) PROVE rows' = rows
  BY <1>4 DEF UpdateRelease, Stop, rowVars
<1>5. ASSUME NEW r \in Requests, CreateAsset(r)
      PROVE  rows' = rows \/ \E x \in Releases, a \in Assets : Inserts(x, a)
  <2>1. pc[r] = "insert"
    BY <1>5 DEF CreateAsset
  <2>2. /\ local[r].release \in Releases /\ local[r].asset \in Assets
        /\ rows[local[r].asset] = None
    BY <1>1, <2>1 DEF Inv, UploadInv, Uploading
  <2> QED BY <1>5, <2>2 DEF CreateAsset, Inserts
<1>6. ASSUME NEW r \in Requests, UploadNext(r)
      PROVE  rows' = rows \/ \E x \in Releases, a \in Assets : Inserts(x, a)
  <2>1. (\E x \in Releases, a \in Assets : UploadRead(r, x, a)) => rows' = rows
    BY DEF UploadRead, rowVars
  <2>2. Put(r) \/ Cleanup(r) => rows' = rows
    BY DEF Put, Cleanup, rowVars
  <2> QED BY <1>5, <1>6, <2>1, <2>2 DEF UploadNext
<1>7. ASSUME NEW r \in Requests, DeletionNext(r) PROVE Shrinks
  <2>1. \A x \in Releases : BeginDeleteRelease(r, x) => rows' = rows
    BY DEF BeginDeleteRelease
  <2>2. \A a \in Assets : DeleteAsset(r, a) => rows' = rows
    BY DEF DeleteAsset, rowVars
  <2>3. ListAssets(r) \/ DeleteNext(r) \/ DeleteBlob(r) => rows' = rows
    BY DEF ListAssets, DeleteNext, DeleteBlob, rowVars
  <2>4. DeleteRelease(r) => Shrinks
    BY DEF DeleteRelease, rowVars, Shrinks
  <2>5. DeleteRow(r) => Shrinks
    BY <1>1 DEF DeleteRow, Shrinks
  <2> QED BY <1>2, <1>7, <2>1, <2>2, <2>3, <2>4, <2>5 DEF DeletionNext
<1>8. UNCHANGED vars => rows' = rows
  BY DEF vars
<1> QED BY <1>2, <1>3, <1>4, <1>6, <1>7, <1>8 DEF Next

\* The property with what makes the usage a number: the bytes stored are finitely many.
QuotaInv == IsFiniteSet(Bytes(InRepository)) /\ QuotaRespected

LEMMA QuotaShrinks ==
  ASSUME TypeOK, QuotaInv, Shrinks
  PROVE  QuotaInv'
<1>1. InRepository' \in SUBSET InRepository
  BY DEF InRepository, Shrinks, TypeOK
<1>2. \A x \in Releases : InRelease(x)' \in SUBSET InRelease(x)
  BY NoneAssumption DEF InRelease, Shrinks, TypeOK
<1>3. \A x \in Releases : InRelease(x) \in SUBSET InRepository
  BY NoneAssumption DEF InRelease, InRepository
<1>4. IsFiniteSet(Bytes(InRepository')) /\ Usage(InRepository') <= RepositoryBytes
  BY <1>1, SubUsage, LimitAssumption DEF QuotaInv, QuotaRespected
<1>5. ASSUME NEW x \in Releases
      PROVE  Usage(InRelease(x)') <= ReleaseBytes
  <2>1. IsFiniteSet(Bytes(InRelease(x)))
    BY <1>3, SubUsage DEF QuotaInv
  <2>2. /\ Usage(InRelease(x)') <= Usage(InRelease(x))
        /\ Usage(InRelease(x)') \in Nat /\ Usage(InRelease(x)) \in Nat
    BY <1>2, <2>1, SubUsage
  <2> QED BY <2>2, LimitAssumption DEF QuotaInv, QuotaRespected
<1>6. \A x \in Releases : Usage(InRelease(x))' <= ReleaseBytes
  BY <1>5 DEF Usage, Bytes
<1>7. IsFiniteSet(Bytes(InRepository))' /\ Usage(InRepository)' <= RepositoryBytes
  BY <1>4 DEF Usage, Bytes
<1> QED BY <1>6, <1>7 DEF QuotaInv, QuotaRespected

LEMMA QuotaInserts ==
  ASSUME TypeOK, QuotaInv, NEW x \in Releases, NEW a \in Assets, Inserts(x, a)
  PROVE  QuotaInv'
<1>1. /\ InRepository' = InRepository \cup {a} /\ a \notin InRepository
      /\ InRepository \in SUBSET Assets
  BY NoneAssumption DEF InRepository, Inserts, TypeOK
<1>2. /\ InRelease(x)' = InRelease(x) \cup {a} /\ a \notin InRelease(x)
      /\ InRelease(x) \in SUBSET Assets
  BY NoneAssumption DEF InRelease, Inserts, TypeOK
<1>3. \A y \in Releases \ {x} : InRelease(y)' = InRelease(y)
  BY NoneAssumption DEF InRelease, Inserts, TypeOK
<1>4. InRelease(x) \in SUBSET InRepository
  BY NoneAssumption DEF InRelease, InRepository
<1>5. Size[a] \in Nat
  BY SizeAssumption
<1>6. IsFiniteSet(Bytes(InRelease(x))) /\ IsFiniteSet(Bytes(InRepository))
  BY <1>4, SubUsage DEF QuotaInv
<1>7. /\ IsFiniteSet(Bytes(InRepository'))
      /\ Usage(InRepository') = Usage(InRepository) + Size[a]
      /\ Usage(InRepository) \in Nat
  BY <1>1, <1>6, AddUsage
<1>8. /\ Usage(InRelease(x)') = Usage(InRelease(x)) + Size[a]
      /\ Usage(InRelease(x)) \in Nat
  BY <1>2, <1>6, AddUsage
<1>9. Usage(InRepository') <= RepositoryBytes /\ Usage(InRelease(x)') <= ReleaseBytes
  BY <1>5, <1>7, <1>8, LimitAssumption DEF Inserts, Insertable, Exceeds
<1>10. \A y \in Releases : Usage(InRelease(y)') <= ReleaseBytes
  BY <1>3, <1>9 DEF QuotaInv, QuotaRespected
<1>11. \A y \in Releases : Usage(InRelease(y))' <= ReleaseBytes
  BY <1>10 DEF Usage, Bytes
<1>12. IsFiniteSet(Bytes(InRepository))' /\ Usage(InRepository)' <= RepositoryBytes
  BY <1>7, <1>9 DEF Usage, Bytes
<1> QED BY <1>11, <1>12 DEF QuotaInv, QuotaRespected

\* However many uploads run at once, and whatever fails between storing the bytes and
\* inserting the row, no release and no repository exceeds its limit.
THEOREM QuotasHold == Spec => []QuotaRespected
<1>1. Init => QuotaInv
  <2> SUFFICES ASSUME Init PROVE QuotaInv
    OBVIOUS
  <2>1. InRepository = {} /\ \A x \in Releases : InRelease(x) = {}
    BY NoneAssumption DEF Init, InRepository, InRelease
  <2>2. Bytes({}) = {}
    BY DEF Bytes
  <2> QED BY <2>1, <2>2, FS_EmptySet, LimitAssumption DEF QuotaInv, QuotaRespected, Usage
<1>2. Inv /\ QuotaInv /\ [Next]_vars => QuotaInv'
  BY RowsStep, QuotaShrinks, QuotaInserts DEF Inv
<1>3. QuotaInv => QuotaRespected
  BY DEF QuotaInv
<1> QED BY <1>1, <1>2, <1>3, Invariance, PTL DEF Spec
=============================================================================
