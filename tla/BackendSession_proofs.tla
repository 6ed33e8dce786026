------------------------ MODULE BackendSession_proofs ------------------------
(***************************************************************************)
(* Checkpoints are faithful, rows are learnt in order, and the arena is    *)
(* large enough, for every batch plan, stream and number of sessions.  A   *)
(* session that was created, restored or trained fits the setup of its run *)
(* (SessionFits), a file that it saved does too (FileFits), and the two    *)
(* agree on the statistics (Agree).  The sizes for which an arena has      *)
(* leases follow each other, so that they take less than twice the         *)
(* greatest of them (ChainInv), and that one was planned for (RoomInv).    *)
(***************************************************************************)
EXTENDS BackendSession, FiniteSetTheorems, TLAPS

Effectives == Linear \cup Mlp
Origins == {"data", "model"}
Weights == [from : {"seed", "model"}, rows : Nat]
Snaps   == [weights : Weights, stats : Origins]

Opened ==
    [open : {TRUE}, effective : Effectives, source : {"memory", "general", "native"},
     state : Snaps, handle : Snaps, cursor : Nat, skipped : Nat, scores : Nat,
     phase : {"loaded", "stepped", "running", "complete"}]

Files ==
    [kind : {"linear"} \cup Mlp, weights : Weights, stats : Origins, cursor : Nat,
     skipped : Nat, shown : Snaps]

TypeOK ==
    /\ setup \in [backend : Effectives, regression : BOOLEAN, stream : BOOLEAN,
                  plain : BOOLEAN, model : BOOLEAN, cap : ArenaCaps]
    /\ run \in [batch : Batches, evals : Nat, effective : Effectives]
    /\ session \in {NoSession} \cup Opened
    /\ arena \in [capacity : Nat, used : Nat, leases : SUBSET Batches]
    /\ file \in {NoFile} \cup Files

\* A backend that is not there is replaced by NumPy, and only the native one is asked to
\* read plain CSV.
RunInv ==
    /\ setup.plain => setup.stream /\ setup.backend = "native"
    /\ run.effective = setup.backend \/ (setup.backend \in Mlp /\ run.effective = "numpy")

KindOf(effective) == IF effective \in Linear THEN "linear" ELSE effective

Start == IF setup.model /\ setup.backend \in Linear THEN ModelCursor ELSE 0

\* What a session keeps from its creation to its end.
SessionFits(s) ==
    /\ s.effective = setup.backend \/ (setup.backend \in Mlp /\ s.effective = "numpy")
    /\ s.source = IF s.effective = "native" THEN NativeSource ELSE GeneralSource
    /\ setup.model => ModelFile.kind = KindOf(s.effective)
    /\ s.effective \in Mlp => s.state.stats = "data"
    /\ s.state.stats = "model" => setup.model /\ setup.regression
    /\ s.effective = "native" =>
            s.handle.stats = IF s.source = "native" THEN "data" ELSE s.state.stats
    /\ setup.stream => s.cursor = Start + Live(s).weights.rows + s.skipped

\* What every file of the run has.
FileFits(f) ==
    /\ f.weights = f.shown.weights
    /\ setup.model => f.kind = ModelFile.kind
    /\ f.kind \in Mlp => f.stats = "data"
    /\ f.stats = "model" => setup.model /\ setup.regression
    /\ f.shown.stats # f.stats => setup.backend = "native" /\ setup.regression /\ setup.model
    /\ setup.plain => f.shown.stats = "data"
    /\ setup.stream => f.cursor = Start + f.weights.rows + f.skipped

\* A session was made from the file of its run, or has made it.
Agree(s, f) == f.kind = KindOf(s.effective) /\ f.stats = s.state.stats

SessionInv ==
    session.open =>
      /\ SessionFits(session)
      /\ session.effective = run.effective
      /\ file # NoFile => Agree(session, file)
      /\ file # NoFile /\ session.phase \in {"loaded", "complete"} =>
            Live(session).weights = file.weights

FileInv == file # NoFile => FileFits(file)

\* The sizes for which there are leases, from the least to the greatest, are each twice the
\* one before, and the batch is one of them or the next one on either side.
Chain(low, high) ==
    /\ low \in arena.leases /\ high \in arena.leases
    /\ \A n \in arena.leases :
          /\ low <= n /\ n <= high
          /\ n # low => \E m \in arena.leases : n = 2 * m
          /\ n # high => 2 * n \in arena.leases
    /\ arena.used <= (2 * high - low) * RowBytes + 128 * Cardinality(arena.leases)
    /\ run.batch \in arena.leases \/ run.batch = 2 * high \/ low = 2 * run.batch
    /\ session.phase = "stepped" => run.batch \in arena.leases

ChainInv ==
    session.open /\ session.source = "native" =>
      \/ arena.leases = {} /\ arena.used = 0 /\ session.phase # "stepped"
      \/ \E low, high \in arena.leases : Chain(low, high)

\* The batch is doubled after two evaluations of a run and after four: how much larger than
\* the batch the arena is.
Growth(evals) == IF evals < 2 THEN 8 ELSE IF evals < 4 THEN 4 ELSE 2

RoomInv ==
    session.open =>
      \/ arena.capacity = setup.cap
      \/ /\ MinArena <= arena.capacity
         /\ Growth(run.evals) * (run.batch * RowBytes) <= arena.capacity
         /\ \A n \in arena.leases : 2 * (n * RowBytes) <= arena.capacity

IInv == TypeOK /\ RunInv /\ SessionInv /\ FileInv /\ ChainInv /\ RoomInv

-----------------------------------------------------------------------------
(* What the operators make of sessions and files.                          *)

LEMMA Distinct == NoFile \notin Files /\ NoSession \notin Opened /\ ~NoSession.open
  BY DEF NoFile, Files, NoSession, Opened, Linear, Mlp

LEMMA FreshFits ==
    /\ Fresh \in Snaps /\ Fresh.stats = "data" /\ Fresh.weights.rows = 0
    /\ Fresh.weights = [from |-> "seed", rows |-> 0]
  BY DEF Fresh, Snaps, Weights, Origins

LEMMA ModelIs ==
    /\ ModelFile.weights \in Weights /\ ModelFile.weights.rows = 0
    /\ ModelFile.stats = "model" /\ ModelFile.cursor = ModelCursor /\ ModelFile.skipped = 0
    /\ ModelFile.kind = IF setup.backend \in Linear THEN "linear" ELSE setup.backend
    /\ ModelCursor \in Nat
  BY NumberAssumption DEF ModelFile, Weights

LEMMA LiveIs ==
    ASSUME NEW s \in Opened
    PROVE  Live(s) \in Snaps
  BY DEF Live, Opened

\* The arrays a session takes from a file, and where it goes on reading.
LEMMA ArraysAre ==
    ASSUME NEW s \in Opened, NEW f, f.weights \in Weights, f.stats \in Origins,
           f.cursor \in Nat, f.skipped \in Nat
    PROVE  LET t == RestoredArrays(s, f)
           IN  /\ t \in Opened
               /\ t.state.weights = f.weights
               /\ t.state.stats = IF setup.regression THEN f.stats ELSE "data"
               /\ t.cursor = IF s.source = "memory" THEN 0 ELSE f.cursor
               /\ t.skipped = f.skipped
               /\ t.handle = s.handle /\ t.effective = s.effective /\ t.source = s.source
               /\ t.phase = s.phase
<1>. DEFINE r == Rewound(s, f)
            st == [weights |-> f.weights, stats |-> IF setup.regression THEN f.stats ELSE "data"]
<1>1. /\ r \in Opened
      /\ r.cursor = IF s.source = "memory" THEN 0 ELSE f.cursor
      /\ r.skipped = f.skipped
      /\ r.handle = s.handle /\ r.effective = s.effective /\ r.source = s.source
      /\ r.phase = s.phase
  BY DEF Rewound, Opened
<1>2. st \in Snaps
  BY DEF Snaps, Origins
<1>. HIDE DEF r, st
<1>3. LET t == [r EXCEPT !.state = st]
      IN  /\ t \in Opened /\ t.state = st
          /\ t.cursor = r.cursor /\ t.skipped = r.skipped /\ t.handle = r.handle
          /\ t.effective = r.effective /\ t.source = r.source /\ t.phase = r.phase
  BY <1>1, <1>2 DEF Opened
<1>. QED
  BY <1>1, <1>3 DEF RestoredArrays, r, st

LEMMA HandleIs ==
    ASSUME NEW s \in Opened, NEW f, f.weights \in Weights, f.stats \in Origins,
           f.cursor \in Nat, f.skipped \in Nat
    PROVE  LET t == RestoredHandle(s, f)   a == RestoredArrays(s, f)
           IN  /\ t \in Opened
               /\ t.handle.weights = f.weights /\ t.handle.stats = s.handle.stats
               /\ t.state = a.state /\ t.cursor = a.cursor /\ t.skipped = a.skipped
               /\ t.effective = s.effective /\ t.source = s.source /\ t.phase = s.phase
<1>. DEFINE a == RestoredArrays(s, f)
            h == [a.handle EXCEPT !.weights = f.weights]
<1>1. /\ a \in Opened /\ a.handle = s.handle /\ a.effective = s.effective
      /\ a.source = s.source /\ a.phase = s.phase
  BY ArraysAre
<1>2. h \in Snaps /\ h.weights = f.weights /\ h.stats = a.handle.stats
  BY <1>1 DEF Opened, Snaps
<1>3. RestoredHandle(s, f) = [a EXCEPT !.handle = h]
  BY DEF RestoredHandle
<1>. HIDE DEF a, h
<1>4. LET t == [a EXCEPT !.handle = h]
      IN  /\ t \in Opened /\ t.handle = h /\ t.state = a.state /\ t.cursor = a.cursor
          /\ t.skipped = a.skipped /\ t.effective = a.effective /\ t.source = a.source
          /\ t.phase = a.phase
  BY <1>1, <1>2 DEF Opened
<1>. QED
  BY <1>1, <1>2, <1>3, <1>4 DEF a

LEMMA ModelTakes ==
    ASSUME NEW s \in Opened, NEW w \in Weights
    PROVE  LET t == [s EXCEPT !.state.weights = w]
           IN  /\ t \in Opened
               /\ t.state.weights = w /\ t.state.stats = s.state.stats
               /\ t.handle = s.handle /\ t.cursor = s.cursor /\ t.skipped = s.skipped
               /\ t.effective = s.effective /\ t.source = s.source /\ t.phase = s.phase
<1>. DEFINE st == [s.state EXCEPT !.weights = w]
<1>1. st \in Snaps /\ st.weights = w /\ st.stats = s.state.stats
  BY DEF Opened, Snaps
<1>2. [s EXCEPT !.state.weights = w] = [s EXCEPT !.state = st]
  OBVIOUS
<1>. HIDE DEF st
<1>3. LET t == [s EXCEPT !.state = st]
      IN  /\ t \in Opened /\ t.state = st
          /\ t.handle = s.handle /\ t.cursor = s.cursor /\ t.skipped = s.skipped
          /\ t.effective = s.effective /\ t.source = s.source /\ t.phase = s.phase
  BY <1>1 DEF Opened
<1>. QED
  BY <1>1, <1>2, <1>3

LEMMA ModelIsRestored ==
    ASSUME NEW s \in Opened, NEW f, f.weights \in Weights, f.cursor \in Nat, f.skipped \in Nat
    PROVE  LET t == RestoredModel(s, f)
           IN  /\ t \in Opened
               /\ t.state.weights = f.weights /\ t.state.stats = s.state.stats
               /\ t.cursor = IF s.source = "memory" THEN 0 ELSE f.cursor
               /\ t.skipped = f.skipped
               /\ t.effective = s.effective /\ t.source = s.source /\ t.phase = s.phase
<1>. DEFINE r == Rewound(s, f)
<1>1. /\ r \in Opened /\ r.state = s.state
      /\ r.cursor = IF s.source = "memory" THEN 0 ELSE f.cursor
      /\ r.skipped = f.skipped
      /\ r.effective = s.effective /\ r.source = s.source /\ r.phase = s.phase
  BY DEF Rewound, Opened
<1>2. RestoredModel(s, f) = [r EXCEPT !.state.weights = f.weights]
  BY DEF RestoredModel
<1>. HIDE DEF r
<1>. QED
  BY <1>1, <1>2, ModelTakes

LEMMA NewIs ==
    ASSUME NEW effective \in Effectives, NEW source \in {"memory", "general", "native"}
    PROVE  LET t == NewSession(effective, source)
           IN  /\ t \in Opened
               /\ t.effective = effective /\ t.source = source /\ t.phase = "loaded"
               /\ t.state = Fresh /\ t.handle = Fresh /\ t.cursor = 0 /\ t.skipped = 0
  BY FreshFits DEF NewSession, Opened

LEMMA SourcesAre ==
    ASSUME TypeOK
    PROVE  /\ GeneralSource \in {"memory", "general"} /\ NativeSource \in {"memory", "general", "native"}
           /\ setup.stream => GeneralSource = "general" /\ NativeSource # "memory"
           /\ NativeSource = "native" <=> setup.stream /\ setup.plain
           /\ NativeSource # "native" => NativeSource = GeneralSource
  BY DEF TypeOK, GeneralSource, NativeSource

\* What the session of an effective backend is created for.
Chosen(effective) ==
    /\ effective \in Effectives
    /\ effective = setup.backend \/ (setup.backend \in Mlp /\ effective = "numpy")
    /\ Readable(effective)

\* A session that was just created fits, and takes its weights and statistics from the
\* file if there is one.
Begun(s, effective) ==
    /\ s \in Opened /\ s.effective = effective /\ s.phase = "loaded"
    /\ SessionFits(s)
    /\ file # NoFile => Agree(s, file) /\ Live(s).weights = file.weights

\* The part of it that does not depend on the backend: the state, from the file or from the
\* model to fine-tune.
LEMMA ArraysBegin ==
    ASSUME TypeOK, FileInv, NEW effective \in Linear, Chosen(effective),
           NEW source \in {"memory", "general", "native"}, setup.stream => source # "memory"
    PROVE  LET t == ArraySession(NewSession(effective, source))
           IN  /\ t \in Opened /\ t.effective = effective /\ t.source = source
               /\ t.phase = "loaded"
               /\ setup.model => ModelFile.kind = "linear"
               /\ t.state.stats = "model" => setup.model /\ setup.regression
               /\ setup.stream => t.cursor = Start + t.state.weights.rows + t.skipped
               /\ file # NoFile => /\ file.kind = "linear" /\ file.stats = t.state.stats
                                   /\ t.state.weights = file.weights
               /\ t.state \in Snaps
<1>. DEFINE n == NewSession(effective, source)
<1>1. /\ n \in Opened /\ n.effective = effective /\ n.source = source /\ n.phase = "loaded"
      /\ n.state = Fresh /\ n.handle = Fresh /\ n.cursor = 0 /\ n.skipped = 0
  BY NewIs DEF Effectives
<1>2. /\ file # NoFile => file.kind = "linear"
      /\ file = NoFile /\ setup.model => ModelFile.kind = "linear"
  BY DEF Chosen, Readable
<1>3. CASE file # NoFile
  <2>1. file \in Files /\ FileFits(file)
    BY <1>3 DEF TypeOK, FileInv
  <2>2. /\ file.weights \in Weights /\ file.stats \in Origins /\ file.cursor \in Nat
        /\ file.skipped \in Nat
    BY <2>1 DEF Files
  <2>3. ArraySession(n) = RestoredArrays(n, file)
    BY <1>3 DEF ArraySession
  <2>4. setup.model => ModelFile.kind = "linear"
    BY <1>2, <1>3, <2>1 DEF FileFits
  <2>5. setup.regression \in BOOLEAN /\ (file.stats = "model" => setup.regression /\ setup.model)
    BY <2>1 DEF TypeOK, FileFits
  <2>6. setup.stream => file.cursor = Start + file.weights.rows + file.skipped
    BY <2>1 DEF FileFits
  <2>7. LET t == RestoredArrays(n, file)
        IN  /\ t \in Opened /\ t.state.weights = file.weights
            /\ t.state.stats = IF setup.regression THEN file.stats ELSE "data"
            /\ t.cursor = IF n.source = "memory" THEN 0 ELSE file.cursor
            /\ t.skipped = file.skipped /\ t.effective = n.effective /\ t.source = n.source
            /\ t.phase = n.phase
    BY <1>1, <2>2, ArraysAre
  <2>8. RestoredArrays(n, file).state \in Snaps
    BY <2>7 DEF Opened
  <2>. HIDE DEF n
  <2>. QED
    BY <1>1, <1>2, <1>3, <2>2, <2>3, <2>4, <2>5, <2>6, <2>7, <2>8 DEF n, Origins
<1>4. CASE file = NoFile /\ setup.model
  <2>1. ArraySession(n) = RestoredArrays(n, ModelFile)
    BY <1>4 DEF ArraySession
  <2>2. LET t == RestoredArrays(n, ModelFile)
        IN  /\ t \in Opened /\ t.state.weights = ModelFile.weights
            /\ t.state.stats = IF setup.regression THEN "model" ELSE "data"
            /\ t.cursor = IF n.source = "memory" THEN 0 ELSE ModelCursor
            /\ t.skipped = 0 /\ t.effective = n.effective /\ t.source = n.source
            /\ t.phase = n.phase
    BY <1>1, ModelIs, ArraysAre DEF Origins
  <2>3. setup.backend \in Linear /\ Start = ModelCursor
    BY <1>2, <1>4, ModelIs DEF Start, Linear, Mlp, TypeOK, Effectives
  <2>4. RestoredArrays(n, ModelFile).state \in Snaps
    BY <2>2 DEF Opened
  <2>. HIDE DEF n
  <2>. QED
    BY <1>1, <1>2, <1>4, <2>1, <2>2, <2>3, <2>4, ModelIs DEF n
<1>5. CASE file = NoFile /\ ~setup.model
  <2>1. ArraySession(n) = n
    BY <1>5 DEF ArraySession
  <2>2. Start = 0
    BY <1>5 DEF Start
  <2>. QED
    BY <1>1, <1>5, <2>1, <2>2, FreshFits
<1>. QED
  BY <1>3, <1>4, <1>5

LEMMA NumpyBegins ==
    ASSUME TypeOK, FileInv, Chosen("numpy")
    PROVE  Begun(Loaded("numpy"), "numpy")
<1>. DEFINE t == ArraySession(NewSession("numpy", GeneralSource))
<1>1. Loaded("numpy") = t
  BY DEF Loaded
<1>2. /\ t \in Opened /\ t.effective = "numpy" /\ t.source = GeneralSource
      /\ t.phase = "loaded"
      /\ setup.model => ModelFile.kind = "linear"
      /\ t.state.stats = "model" => setup.model /\ setup.regression
      /\ setup.stream => t.cursor = Start + t.state.weights.rows + t.skipped
      /\ file # NoFile => /\ file.kind = "linear" /\ file.stats = t.state.stats
                          /\ t.state.weights = file.weights
  BY SourcesAre, ArraysBegin DEF Linear
<1>. HIDE DEF t
<1>3. Live(t) = t.state
  BY <1>2 DEF Live
<1>4. KindOf("numpy") = "linear" /\ "numpy" \notin Mlp
  BY DEF KindOf, Linear, Mlp
<1>. QED
  BY <1>1, <1>2, <1>3, <1>4 DEF Begun, SessionFits, Agree, Chosen

LEMMA NativeBegins ==
    ASSUME TypeOK, FileInv, Chosen("native")
    PROVE  Begun(Loaded("native"), "native")
<1>. DEFINE n == NewSession("native", NativeSource)
            a == ArraySession(n)
<1>1. Loaded("native") = NativeSession(n)
  BY DEF Loaded
<1>2. /\ n \in Opened /\ n.effective = "native" /\ n.source = NativeSource /\ n.phase = "loaded"
      /\ n.state = Fresh /\ n.handle = Fresh /\ n.cursor = 0 /\ n.skipped = 0
  BY NewIs, SourcesAre DEF Effectives, Linear
<1>3. /\ a \in Opened /\ a.effective = "native" /\ a.source = NativeSource
      /\ a.phase = "loaded"
      /\ setup.model => ModelFile.kind = "linear"
      /\ a.state.stats = "model" => setup.model /\ setup.regression
      /\ setup.stream => a.cursor = Start + a.state.weights.rows + a.skipped
      /\ file # NoFile => /\ file.kind = "linear" /\ file.stats = a.state.stats
                          /\ a.state.weights = file.weights
      /\ a.state \in Snaps
  BY SourcesAre, ArraysBegin DEF Linear
<1>4. KindOf("native") = "linear" /\ "native" \notin Mlp
  BY DEF KindOf, Linear, Mlp
<1>. SUFFICES ASSUME NEW t, t = NativeSession(n)
              PROVE  Begun(t, "native")
  BY <1>1
<1>5. /\ t \in Opened /\ t.effective = "native" /\ t.source = NativeSource /\ t.phase = "loaded"
      /\ t.state = a.state /\ t.cursor = a.cursor /\ t.skipped = a.skipped
      /\ t.handle.weights = a.state.weights
      /\ t.handle.stats = IF t.source = "native" THEN "data" ELSE t.state.stats
  <2>1. CASE n.source # "native"
    <3>1. t = [a EXCEPT !.handle = a.state]
      BY <2>1 DEF NativeSession
    <3>. HIDE DEF a, n
    <3>. QED
      BY <1>2, <1>3, <2>1, <3>1 DEF Opened
  <2>2. CASE n.source = "native" /\ file # NoFile
    <3>1. t = RestoredHandle(n, file) /\ a = RestoredArrays(n, file)
      BY <2>2 DEF NativeSession, ArraySession
    <3>2. file.weights \in Weights /\ file.stats \in Origins /\ file.cursor \in Nat /\ file.skipped \in Nat
      BY <2>2 DEF TypeOK, Files
    <3>3. /\ t \in Opened
          /\ t.handle.weights = file.weights /\ t.handle.stats = n.handle.stats
          /\ t.state = a.state /\ t.cursor = a.cursor /\ t.skipped = a.skipped
          /\ t.effective = n.effective /\ t.source = n.source /\ t.phase = n.phase
      BY <1>2, <3>1, <3>2, HandleIs
    <3>. HIDE DEF a, n
    <3>. QED
      BY <1>2, <1>3, <2>2, <3>3, FreshFits
  <2>3. CASE n.source = "native" /\ file = NoFile /\ setup.model
    <3>1. t = RestoredHandle(n, ModelFile) /\ a = RestoredArrays(n, ModelFile)
      BY <2>3 DEF NativeSession, ArraySession
    <3>2. /\ t \in Opened
          /\ t.handle.weights = ModelFile.weights /\ t.handle.stats = n.handle.stats
          /\ t.state = a.state /\ t.cursor = a.cursor /\ t.skipped = a.skipped
          /\ t.effective = n.effective /\ t.source = n.source /\ t.phase = n.phase
          /\ a.state.weights = ModelFile.weights
      BY <1>2, <3>1, ModelIs, HandleIs, ArraysAre DEF Origins
    <3>. HIDE DEF a, n
    <3>. QED
      BY <1>2, <1>3, <2>3, <3>2, FreshFits
  <2>4. CASE n.source = "native" /\ file = NoFile /\ ~setup.model
    <3>1. t = n /\ a = n
      BY <2>4 DEF NativeSession, ArraySession
    <3>. HIDE DEF a, n
    <3>. QED
      BY <1>2, <1>3, <2>4, <3>1, FreshFits
  <2>. QED
    BY <2>1, <2>2, <2>3, <2>4
<1>. HIDE DEF a, n
<1>6. Live(t) = t.handle
  BY <1>5 DEF Live
<1>. QED
  BY <1>3, <1>4, <1>5, <1>6 DEF Begun, SessionFits, Agree, Chosen

LEMMA ModelBegins ==
    ASSUME TypeOK, FileInv, NEW effective \in Mlp, Chosen(effective)
    PROVE  Begun(Loaded(effective), effective)
<1>. DEFINE n == NewSession(effective, GeneralSource)
            m == NewModel(n)
<1>0. effective \notin Linear /\ effective # "native" /\ effective # "numpy" /\ effective \in Effectives
  BY DEF Linear, Mlp, Effectives
<1>1. Loaded(effective) = ModelSession(n)
  BY <1>0 DEF Loaded
<1>2. /\ n \in Opened /\ n.effective = effective /\ n.source = GeneralSource /\ n.phase = "loaded"
      /\ n.state = Fresh /\ n.handle = Fresh /\ n.cursor = 0 /\ n.skipped = 0
  BY <1>0, NewIs, SourcesAre
<1>3. /\ m \in Opened /\ m.effective = effective /\ m.source = GeneralSource /\ m.phase = "loaded"
      /\ m.state.stats = "data" /\ m.state.weights.rows = 0 /\ m.cursor = 0 /\ m.skipped = 0
  <2>1. CASE setup.model
    <3>1. m = [n EXCEPT !.state.weights = ModelFile.weights]
      BY <2>1 DEF NewModel
    <3>. HIDE DEF n, m
    <3>. QED
      BY <1>2, <3>1, ModelTakes, ModelIs, FreshFits
  <2>2. CASE ~setup.model
    BY <1>2, <2>2, FreshFits DEF NewModel
  <2>. QED
    BY <2>1, <2>2
<1>4. KindOf(effective) = effective /\ setup.backend = effective /\ Start = 0
  BY <1>0 DEF KindOf, Chosen, Start
<1>5. /\ file # NoFile => file.kind = effective
      /\ setup.model => ModelFile.kind = effective
  BY <1>0, <1>4, ModelIs DEF Chosen, Readable
<1>. SUFFICES ASSUME NEW t, t = ModelSession(n)
              PROVE  Begun(t, effective)
  BY <1>1
<1>6. /\ t \in Opened /\ t.effective = effective /\ t.source = GeneralSource /\ t.phase = "loaded"
      /\ t.state.stats = "data"
      /\ setup.stream => t.cursor = Start + t.state.weights.rows + t.skipped
      /\ file # NoFile => file.stats = "data" /\ t.state.weights = file.weights
  <2>1. CASE file # NoFile
    <3>1. t = RestoredModel(m, file)
      BY <2>1 DEF ModelSession
    <3>2. /\ file.weights \in Weights /\ file.stats \in Origins /\ file.cursor \in Nat
          /\ file.skipped \in Nat /\ FileFits(file)
      BY <2>1 DEF TypeOK, Files, FileInv
    <3>. HIDE DEF n, m
    <3>3. /\ t \in Opened
          /\ t.state.weights = file.weights /\ t.state.stats = m.state.stats
          /\ t.cursor = IF m.source = "memory" THEN 0 ELSE file.cursor
          /\ t.skipped = file.skipped
          /\ t.effective = m.effective /\ t.source = m.source /\ t.phase = m.phase
      BY <1>3, <3>1, <3>2, ModelIsRestored
    <3>4. file.stats = "data" /\ (setup.stream => file.cursor = Start + file.weights.rows + file.skipped)
      BY <1>5, <2>1, <3>2 DEF FileFits
    <3>. QED
      BY <1>3, <2>1, <3>3, <3>4, SourcesAre
  <2>2. CASE file = NoFile
    <3>1. t = m
      BY <2>2 DEF ModelSession
    <3>. HIDE DEF n, m
    <3>. QED
      BY <1>3, <1>4, <2>2, <3>1
  <2>. QED
    BY <2>1, <2>2
<1>. HIDE DEF n, m
<1>7. Live(t) = t.state
  BY <1>0, <1>6 DEF Live
<1>. QED
  BY <1>0, <1>4, <1>5, <1>6, <1>7 DEF Begun, SessionFits, Agree, Chosen

LEMMA SessionBegins ==
    ASSUME TypeOK, FileInv, NEW effective, Chosen(effective)
    PROVE  Begun(Loaded(effective), effective)
  BY NumpyBegins, NativeBegins, ModelBegins DEF Chosen, Effectives, Linear

-----------------------------------------------------------------------------
(* What a session saves, learns and reads back.                            *)

\* A file holds what its session trains with; of a native stream that fine-tunes a
\* regression, the statistics of the model instead of those it shows.
LEMMA SavedFits ==
    ASSUME TypeOK, RunInv, NEW s \in Opened, SessionFits(s)
    PROVE  /\ Saved(s) \in Files /\ FileFits(Saved(s))
           /\ Agree(s, Saved(s)) /\ Saved(s).weights = Live(s).weights
           /\ Saved(s) # NoFile
<1>. DEFINE f == Saved(s)
<1>0. /\ s.effective \in Effectives /\ s.state \in Snaps /\ s.handle \in Snaps
      /\ s.cursor \in Nat /\ s.skipped \in Nat
      /\ s.source \in {"memory", "general", "native"}
  BY DEF Opened
<1>1. /\ f.kind = KindOf(s.effective) /\ f.weights = Live(s).weights
      /\ f.stats = s.state.stats /\ f.shown = Live(s) /\ f.skipped = s.skipped
      /\ f.cursor = StreamState(s)
      /\ f = [kind |-> f.kind, weights |-> f.weights, stats |-> f.stats,
              cursor |-> f.cursor, skipped |-> f.skipped, shown |-> f.shown]
  <2>1. CASE s.effective = "native"
    BY <1>0, <2>1 DEF Saved, ArraysOf, SyncParameters, KindOf, Live, Linear, Snaps
  <2>2. CASE s.effective = "numpy"
    BY <1>0, <2>2 DEF Saved, ArraysOf, SyncParameters, KindOf, Live, Linear, Snaps
  <2>3. CASE s.effective \in Mlp
    <3>1. s.effective \notin Linear /\ s.effective # "native"
      BY <2>3 DEF Mlp, Linear
    <3>2. s.state.stats = "data"
      BY <2>3 DEF SessionFits
    <3>. QED
      BY <1>0, <3>1, <3>2 DEF Saved, ModelOf, KindOf, Live
  <2>. QED
    BY <1>0, <2>1, <2>2, <2>3 DEF Effectives, Linear
<1>. HIDE DEF f
<1>2. Live(s) \in Snaps /\ KindOf(s.effective) \in {"linear"} \cup Mlp /\ StreamState(s) \in Nat
  BY <1>0, LiveIs DEF KindOf, StreamState, Effectives
<1>3. f \in Files
  BY <1>0, <1>1, <1>2 DEF Files, Snaps
<1>4. FileFits(f)
  <2>1. f.weights = f.shown.weights
    BY <1>1
  <2>2. setup.model => f.kind = ModelFile.kind
    BY <1>1 DEF SessionFits
  <2>3. f.kind \in Mlp => f.stats = "data"
    BY <1>1 DEF SessionFits, KindOf, Mlp
  <2>4. f.stats = "model" => setup.model /\ setup.regression
    BY <1>1 DEF SessionFits
  <2>5. f.shown.stats # f.stats =>
            setup.backend = "native" /\ setup.regression /\ setup.model
    <3>1. CASE s.effective = "native"
      BY <1>0, <1>1, <3>1 DEF SessionFits, Live, Snaps, Origins, Mlp
    <3>2. CASE s.effective # "native"
      BY <1>1, <3>2 DEF Live
    <3>. QED
      BY <3>1, <3>2
  <2>6. setup.plain => f.shown.stats = "data"
    <3>. SUFFICES ASSUME setup.plain PROVE f.shown.stats = "data"
      OBVIOUS
    <3>1. setup.stream /\ setup.backend = "native"
      BY DEF RunInv
    <3>2. s.effective = "native"
      BY <3>1 DEF SessionFits, Mlp
    <3>3. s.source = "native"
      BY <3>1, <3>2, SourcesAre DEF SessionFits
    <3>. QED
      BY <1>1, <3>2, <3>3 DEF SessionFits, Live
  <2>7. setup.stream => f.cursor = Start + f.weights.rows + f.skipped
    <3>. SUFFICES ASSUME setup.stream PROVE f.cursor = Start + f.weights.rows + f.skipped
      OBVIOUS
    <3>1. s.source # "memory"
      BY SourcesAre DEF SessionFits
    <3>. QED
      BY <1>1, <3>1 DEF SessionFits, StreamState
  <2>. QED
    BY <2>1, <2>2, <2>3, <2>4, <2>5, <2>6, <2>7 DEF FileFits
<1>. QED
  BY <1>1, <1>3, <1>4, Distinct DEF Agree, f

LEMMA StartIsNat == Start \in Nat
  BY NumberAssumption DEF Start

\* Rows that are read are counted, unless they are in memory.
LEMMA ReadIs ==
    ASSUME NEW s \in Opened, NEW rows \in Nat
    PROVE  LET t == Read(s, rows)
           IN  /\ t \in Opened /\ t.effective = s.effective /\ t.source = s.source
               /\ t.state = s.state /\ t.handle = s.handle /\ t.skipped = s.skipped
               /\ t.cursor = IF s.source = "memory" THEN s.cursor ELSE s.cursor + rows
<1>1. CASE s.source = "memory"
  BY <1>1 DEF Read
<1>2. CASE s.source # "memory"
  <2>. DEFINE k == s.cursor + rows
  <2>1. k \in Nat
    BY DEF Opened
  <2>2. Read(s, rows) = [s EXCEPT !.cursor = k]
    BY <1>2 DEF Read
  <2>. HIDE DEF k
  <2>3. LET t == [s EXCEPT !.cursor = k]
        IN  /\ t \in Opened /\ t.effective = s.effective /\ t.source = s.source
            /\ t.state = s.state /\ t.handle = s.handle /\ t.skipped = s.skipped
            /\ t.cursor = k
    BY <2>1 DEF Opened
  <2>. QED
    BY <1>2, <2>2, <2>3 DEF k
<1>. QED
  BY <1>1, <1>2

\* The rows of a step are learnt where the session trains, and counted where it reads.
LEMMA LearnIs ==
    ASSUME NEW s \in Opened, NEW rows \in Nat
    PROVE  LET t == [Read(Learn(s, rows), rows) EXCEPT !.phase = "stepped"]
           IN  /\ t \in Opened
               /\ t.effective = s.effective /\ t.source = s.source /\ t.phase = "stepped"
               /\ t.state.stats = s.state.stats /\ t.handle.stats = s.handle.stats
               /\ t.skipped = s.skipped
               /\ t.cursor = IF s.source = "memory" THEN s.cursor ELSE s.cursor + rows
               /\ Live(t).weights.rows = Live(s).weights.rows + rows
<1>. DEFINE more(w) == [w EXCEPT !.rows = @ + rows]
            learnt(x) == [x EXCEPT !.weights = more(x.weights)]
            l == Learn(s, rows)
<1>1. \A x \in Snaps : /\ learnt(x) \in Snaps /\ learnt(x).stats = x.stats
                       /\ learnt(x).weights.rows = x.weights.rows + rows
  BY DEF Snaps, Weights
<1>2. /\ s.effective = "native" => l = [s EXCEPT !.handle = learnt(s.handle)]
      /\ s.effective # "native" => l = [s EXCEPT !.state = learnt(s.state)]
  BY DEF Learn, LearnHandle, LearnArrays, LearnModel
<1>. HIDE DEF learnt, l
<1>3. /\ l \in Opened /\ l.effective = s.effective /\ l.source = s.source
      /\ l.state.stats = s.state.stats /\ l.handle.stats = s.handle.stats
      /\ l.skipped = s.skipped /\ l.cursor = s.cursor
      /\ IF s.effective = "native" THEN l.handle.weights.rows = s.handle.weights.rows + rows
         ELSE l.state.weights.rows = s.state.weights.rows + rows
  BY <1>1, <1>2 DEF Opened
<1>. DEFINE r == Read(l, rows)
<1>4. /\ r \in Opened /\ r.effective = s.effective /\ r.source = s.source
      /\ r.state = l.state /\ r.handle = l.handle /\ r.skipped = s.skipped
      /\ r.cursor = IF s.source = "memory" THEN s.cursor ELSE s.cursor + rows
  BY <1>3, ReadIs
<1>. HIDE DEF r
<1>5. LET t == [r EXCEPT !.phase = "stepped"]
      IN  /\ t \in Opened /\ t.phase = "stepped" /\ t.effective = r.effective
          /\ t.source = r.source /\ t.state = r.state /\ t.handle = r.handle
          /\ t.skipped = r.skipped /\ t.cursor = r.cursor
  BY <1>4 DEF Opened
<1>. QED
  BY <1>3, <1>4, <1>5 DEF Live, r, l

\* A batch that ran out of memory is counted as read and as left out.
LEMMA SkippedIs ==
    ASSUME NEW s \in Opened, NEW rows \in Nat
    PROVE  LET t == [Read(s, rows) EXCEPT
                       !.skipped = IF s.source = "memory" THEN @ ELSE @ + rows,
                       !.phase = "stepped"]
           IN  /\ t \in Opened
               /\ t.effective = s.effective /\ t.source = s.source /\ t.phase = "stepped"
               /\ t.state = s.state /\ t.handle = s.handle
               /\ t.skipped = IF s.source = "memory" THEN s.skipped ELSE s.skipped + rows
               /\ t.cursor = IF s.source = "memory" THEN s.cursor ELSE s.cursor + rows
<1>. DEFINE r == Read(s, rows)
<1>1. /\ r \in Opened /\ r.effective = s.effective /\ r.source = s.source
      /\ r.state = s.state /\ r.handle = s.handle /\ r.skipped = s.skipped
      /\ r.cursor = IF s.source = "memory" THEN s.cursor ELSE s.cursor + rows
  BY ReadIs
<1>. HIDE DEF r
<1>. DEFINE k == IF s.source = "memory" THEN s.skipped ELSE s.skipped + rows
            q == [r EXCEPT !.skipped = k]
<1>2. k \in Nat
  BY DEF Opened
<1>3. [r EXCEPT !.skipped = IF s.source = "memory" THEN @ ELSE @ + rows, !.phase = "stepped"]
        = [q EXCEPT !.phase = "stepped"]
  BY <1>1
<1>. HIDE DEF k
<1>4. /\ q \in Opened /\ q.effective = r.effective /\ q.source = r.source
      /\ q.state = r.state /\ q.handle = r.handle /\ q.skipped = k /\ q.cursor = r.cursor
  BY <1>1, <1>2 DEF Opened
<1>. HIDE DEF q
<1>5. LET t == [q EXCEPT !.phase = "stepped"]
      IN  /\ t \in Opened
          /\ t.effective = q.effective /\ t.source = q.source /\ t.phase = "stepped"
          /\ t.state = q.state /\ t.handle = q.handle /\ t.skipped = q.skipped
          /\ t.cursor = q.cursor
  BY <1>4 DEF Opened
<1>. QED
  BY <1>1, <1>3, <1>4, <1>5 DEF r, k

\* What the two have in common keeps a session fit.
LEMMA FitStays ==
    ASSUME TypeOK, NEW s \in Opened, SessionFits(s), NEW t \in Opened,
           t.effective = s.effective, t.source = s.source, t.state.stats = s.state.stats,
           s.effective = "native" => t.handle.stats = s.handle.stats,
           s.source # "memory" => t.cursor - t.skipped - Live(t).weights.rows
                                     = s.cursor - s.skipped - Live(s).weights.rows
    PROVE  SessionFits(t)
<1>1. /\ Live(s).weights.rows \in Nat /\ Live(t).weights.rows \in Nat
      /\ s.cursor \in Nat /\ t.cursor \in Nat /\ s.skipped \in Nat /\ t.skipped \in Nat
  BY LiveIs DEF Opened, Snaps, Weights
<1>2. setup.stream => s.source # "memory"
  BY SourcesAre DEF SessionFits
<1>3. setup.stream => t.cursor = Start + Live(t).weights.rows + t.skipped
  <2>1. setup.stream => s.cursor = Start + Live(s).weights.rows + s.skipped
    BY DEF SessionFits
  <2>. QED
    BY <1>1, <1>2, <2>1, StartIsNat
<1>. QED
  BY <1>3 DEF SessionFits

\* Reading a file back: the weights are those of the file, the statistics stay.
LEMMA RestoredFits ==
    ASSUME TypeOK, NEW s \in Opened, SessionFits(s), NEW f \in Files, FileFits(f), Agree(s, f)
    PROVE  LET t == Restored(s, f)
           IN  /\ t \in Opened /\ t.effective = s.effective /\ t.source = s.source
               /\ SessionFits(t) /\ Agree(t, f) /\ Live(t).weights = f.weights
<1>0. /\ f.weights \in Weights /\ f.stats \in Origins /\ f.cursor \in Nat /\ f.skipped \in Nat
      /\ s.effective \in Effectives /\ f.weights.rows \in Nat /\ setup.regression \in BOOLEAN
  BY DEF Files, Opened, Weights, TypeOK
<1>1. f.stats = s.state.stats /\ (f.stats = "model" => setup.regression)
  BY DEF Agree, FileFits
<1>2. f.stats = IF setup.regression THEN f.stats ELSE "data"
  BY <1>0, <1>1 DEF Origins
<1>. SUFFICES ASSUME NEW t, t = Restored(s, f)
              PROVE  /\ t \in Opened /\ t.effective = s.effective /\ t.source = s.source
                     /\ SessionFits(t) /\ Agree(t, f) /\ Live(t).weights = f.weights
  OBVIOUS
<1>3. /\ t \in Opened /\ t.effective = s.effective /\ t.source = s.source
      /\ t.state.stats = s.state.stats
      /\ s.effective = "native" => t.handle.stats = s.handle.stats
      /\ Live(t).weights = f.weights
      /\ t.cursor = IF s.source = "memory" THEN 0 ELSE f.cursor
      /\ t.skipped = f.skipped
  <2>1. CASE s.effective = "numpy"
    <3>1. t = RestoredArrays(s, f)
      BY <2>1 DEF Restored
    <3>2. /\ t \in Opened /\ t.state.weights = f.weights
          /\ t.state.stats = IF setup.regression THEN f.stats ELSE "data"
          /\ t.cursor = IF s.source = "memory" THEN 0 ELSE f.cursor
          /\ t.skipped = f.skipped /\ t.effective = s.effective /\ t.source = s.source
      BY <1>0, <3>1, ArraysAre
    <3>. QED
      BY <1>1, <1>2, <2>1, <3>2 DEF Live
  <2>2. CASE s.effective = "native"
    <3>1. t = RestoredHandle(s, f)
      BY <2>2 DEF Restored
    <3>2. LET a == RestoredArrays(s, f)
          IN  /\ t \in Opened
              /\ t.handle.weights = f.weights /\ t.handle.stats = s.handle.stats
              /\ t.state = a.state /\ t.cursor = a.cursor /\ t.skipped = a.skipped
              /\ t.effective = s.effective /\ t.source = s.source
              /\ a.state.stats = IF setup.regression THEN f.stats ELSE "data"
              /\ a.cursor = IF s.source = "memory" THEN 0 ELSE f.cursor
              /\ a.skipped = f.skipped
      BY <1>0, <3>1, HandleIs, ArraysAre
    <3>. QED
      BY <1>1, <1>2, <2>2, <3>2 DEF Live
  <2>3. CASE s.effective \in Mlp
    <3>1. t = RestoredModel(s, f) /\ s.effective # "native"
      BY <2>3 DEF Restored, Mlp
    <3>2. /\ t \in Opened
          /\ t.state.weights = f.weights /\ t.state.stats = s.state.stats
          /\ t.cursor = IF s.source = "memory" THEN 0 ELSE f.cursor
          /\ t.skipped = f.skipped /\ t.effective = s.effective /\ t.source = s.source
      BY <1>0, <3>1, ModelIsRestored
    <3>. QED
      BY <1>1, <2>3, <3>1, <3>2 DEF Live
  <2>. QED
    BY <1>0, <2>1, <2>2, <2>3 DEF Effectives, Linear
<1>4. Agree(t, f)
  BY <1>3 DEF Agree
<1>5. setup.stream => t.cursor = Start + Live(t).weights.rows + t.skipped
  <2>1. setup.stream => s.source # "memory"
    BY SourcesAre DEF SessionFits
  <2>. QED
    BY <1>3, <2>1 DEF FileFits
<1>6. SessionFits(t)
  BY <1>3, <1>5 DEF SessionFits
<1>. QED
  BY <1>3, <1>4, <1>6

\* An evaluation copies the weights of the handle to the state, and changes neither.
LEMMA SyncFits ==
    ASSUME TypeOK, NEW s \in Opened, SessionFits(s), NEW scores \in Nat
    PROVE  LET t == [s EXCEPT !.scores = scores, !.phase = "running",
                              !.state = SyncParameters(s)]
           IN  /\ t \in Opened /\ t.effective = s.effective /\ t.source = s.source
               /\ t.phase = "running" /\ SessionFits(t)
               /\ t.state.stats = s.state.stats
<1>. DEFINE st == SyncParameters(s)
            t  == [s EXCEPT !.scores = scores, !.phase = "running", !.state = st]
<1>1. s.state \in Snaps /\ s.handle \in Snaps
  BY DEF Opened
<1>2. st \in Snaps /\ st.stats = s.state.stats /\ (s.effective # "native" => st = s.state)
  <2>1. CASE s.effective = "native"
    <3>. DEFINE v == s.handle.weights
    <3>1. v \in Weights
      BY <1>1 DEF Snaps
    <3>2. st = [s.state EXCEPT !.weights = v]
      BY <2>1 DEF SyncParameters
    <3>. HIDE DEF v, st
    <3>. QED
      BY <1>1, <2>1, <3>1, <3>2 DEF Snaps
  <2>2. CASE s.effective # "native"
    BY <1>1, <2>2 DEF SyncParameters
  <2>. QED
    BY <2>1, <2>2
<1>. HIDE DEF st
<1>3. /\ t \in Opened /\ t.effective = s.effective /\ t.source = s.source
      /\ t.phase = "running" /\ t.state = st /\ t.handle = s.handle
      /\ t.cursor = s.cursor /\ t.skipped = s.skipped
  BY <1>2 DEF Opened
<1>. HIDE DEF t
<1>4. Live(t) = Live(s)
  BY <1>2, <1>3 DEF Live
<1>5. SessionFits(t)
  BY <1>2, <1>3, <1>4, FitStays
<1>. QED
  BY <1>2, <1>3, <1>5 DEF t, st

-----------------------------------------------------------------------------
(* Sizes of batches and of the arena.                                      *)

LEMMA RowBytesIsNat == RowBytes \in Nat \ {0} /\ RowBytes = Features * 4 + 4 /\ Features \in Nat
<1>1. Features \in Nat
  BY NumberAssumption
<1>. QED
  BY <1>1 DEF RowBytes

LEMMA BytesOf ==
    ASSUME NEW n \in Nat
    PROVE  /\ n * RowBytes \in Nat
           /\ (2 * n) * RowBytes = 2 * (n * RowBytes)
           /\ n * Features * 4 + n * 4 = n * RowBytes
           /\ n * Features * 4 \in Nat
  BY RowBytesIsNat

LEMMA SizesAre ==
    /\ \A n \in Batches : n \in Nat \ {0} /\ BatchMin <= n /\ n <= BatchMax
    /\ BatchMin \in Batches /\ BatchMax \in Batches /\ BatchStart \in Batches
    /\ IsFiniteSet(Batches)
  BY BatchAssumption

LEMMA Halved ==
    ASSUME NEW n \in Batches, n > BatchMin
    PROVE  Larger(BatchMin, n \div 2) \in Batches /\ n = 2 * Larger(BatchMin, n \div 2)
<1>1. PICK m \in Batches : n = 2 * m
  BY SizesAre, BatchAssumption
<1>2. n \div 2 = m /\ BatchMin <= m /\ m \in Nat /\ BatchMin \in Nat
  BY <1>1, SizesAre
<1>3. Larger(BatchMin, m) = m
  BY <1>2 DEF Larger
<1>. QED
  BY <1>1, <1>2, <1>3

LEMMA Doubled ==
    ASSUME NEW n \in Batches, n < BatchMax
    PROVE  Smaller(BatchMax, n * 2) \in Batches /\ Smaller(BatchMax, n * 2) = 2 * n
<1>1. 2 * n \in Batches /\ 2 * n <= BatchMax /\ n \in Nat /\ BatchMax \in Nat
  BY SizesAre, BatchAssumption
<1>2. n * 2 = 2 * n
  BY <1>1
<1>. QED
  BY <1>1, <1>2 DEF Smaller

\* A batch stays, is halved, or is doubled at the second or fourth evaluation of the run.
LEMMA AdaptedIs ==
    ASSUME TypeOK, NEW trend, NEW scores \in Nat, NEW evals \in Nat
    PROVE  LET b == Adapted(trend, scores, evals)
           IN  /\ b \in Batches
               /\ \/ b = run.batch
                  \/ run.batch = 2 * b
                  \/ b = 2 * run.batch /\ evals \in {2, 4}
<1>1. run.batch \in Batches
  BY DEF TypeOK
<1>. DEFINE down == trend = "dropped" /\ scores >= 3 /\ run.batch > BatchMin
            up   == /\ trend = "stable" /\ scores >= 2 /\ evals \in {2, 4}
                    /\ run.batch < BatchMax /\ TrainRecords >= run.batch * 8
<1>2. CASE down
  BY <1>1, <1>2, Halved DEF Adapted
<1>3. CASE ~down /\ up
  BY <1>1, <1>3, Doubled DEF Adapted
<1>4. CASE ~down /\ ~up
  BY <1>1, <1>4 DEF Adapted
<1>. QED
  BY <1>2, <1>3, <1>4

LEMMA AlignedIs ==
    ASSUME NEW n \in Nat
    PROVE  Aligned(n) \in Nat /\ n <= Aligned(n) /\ Aligned(n) <= n + 63
  BY DEF Aligned

LEMMA UsedIs ==
    ASSUME TypeOK, NEW b \in Batches
    PROVE  UsedWith(b) \in Nat /\ UsedWith(b) <= arena.used + b * RowBytes + 126
<1>. DEFINE u == Aligned(arena.used)
            x == b * Features * 4
            y == Aligned(u + x)
<1>1. arena.used \in Nat /\ b \in Nat
  BY SizesAre DEF TypeOK
<1>2. u \in Nat /\ u <= arena.used + 63
  BY <1>1, AlignedIs
<1>3. x \in Nat /\ x + b * 4 = b * RowBytes /\ b * RowBytes \in Nat
  BY <1>1, BytesOf
<1>. HIDE DEF u, x
<1>4. y \in Nat /\ y <= u + x + 63
  BY <1>2, <1>3, AlignedIs
<1>5. UsedWith(b) = y + b * 4
  BY DEF UsedWith, x, u
<1>. HIDE DEF y
<1>. QED
  BY <1>1, <1>2, <1>3, <1>4, <1>5

LEMMA ArenaIs ==
    ASSUME NEW b \in Batches, NEW cap \in Nat
    PROVE  /\ ArenaBytes(b, cap) \in Nat
           /\ \/ ArenaBytes(b, cap) = cap
              \/ MinArena <= ArenaBytes(b, cap) /\ 8 * (b * RowBytes) <= ArenaBytes(b, cap)
<1>. DEFINE bytes == b * RowBytes
            q == cap \div 4
<1>1. bytes \in Nat
  BY SizesAre, BytesOf
<1>2. q \in Nat /\ MinArena \in Nat
  BY NumberAssumption
<1>3. ArenaBytes(b, cap) = Smaller(cap, Larger(Larger(MinArena, 3 * bytes), Larger(8 * bytes, q)))
  BY DEF ArenaBytes
<1>. HIDE DEF bytes, q
<1>4. \A k, n \in Nat : Larger(k, n) \in Nat /\ k <= Larger(k, n) /\ n <= Larger(k, n)
  BY DEF Larger
<1>5. \A k, n \in Nat : Smaller(k, n) \in {k, n}
  BY DEF Smaller
<1>. DEFINE l1 == Larger(MinArena, 3 * bytes)
            l2 == Larger(8 * bytes, q)
            l3 == Larger(l1, l2)
<1>6. l1 \in Nat /\ MinArena <= l1
  BY <1>1, <1>2, <1>4
<1>7. l2 \in Nat /\ 8 * bytes <= l2
  BY <1>1, <1>2, <1>4
<1>. HIDE DEF l1, l2
<1>8. l3 \in Nat /\ l1 <= l3 /\ l2 <= l3
  BY <1>6, <1>7, <1>4
<1>9. Smaller(cap, l3) \in {cap, l3}
  BY <1>8, <1>5
<1>. HIDE DEF l3
<1>. QED
  BY <1>1, <1>2, <1>3, <1>6, <1>7, <1>8, <1>9 DEF bytes, l1, l2, l3

\* Whether a session or a file fits depends on the setup alone, which no step changes.
LEMMA FitsWith ==
    ASSUME setup' = setup
    PROVE  /\ SessionFits(session)' = SessionFits(session')
           /\ FileFits(file)' = FileFits(file')
           /\ Agree(session, file)' = Agree(session', file')
           /\ Live(session)' = Live(session')
  BY DEF SessionFits, FileFits, Agree, Live, KindOf, ModelFile, NativeSource, GeneralSource, Start

-----------------------------------------------------------------------------
(* Every step keeps the parts of the invariant.                            *)

Core == TypeOK /\ RunInv /\ SessionInv /\ FileInv

LEMMA CreateIs ==
    ASSUME Core, Create
    PROVE  /\ Core' /\ session'.phase = "loaded"
           /\ run'.batch = run.batch
           /\ arena'.leases = {} /\ arena'.used = 0
           /\ arena'.capacity = ArenaBytes(run.batch, setup.cap)
<1>1. PICK installed \in BOOLEAN :
        LET effective == IF run.effective \in Mlp /\ ~installed THEN "numpy" ELSE run.effective
        IN  /\ Readable(effective)
            /\ session' = Loaded(effective)
            /\ run' = [run EXCEPT !.effective = effective,
                                  !.evals = IF setup.model THEN 1 ELSE @]
  BY DEF Create
<1>. DEFINE effective == IF run.effective \in Mlp /\ ~installed THEN "numpy" ELSE run.effective
<1>2. setup' = setup /\ ArenaBytes(run.batch, setup.cap) \in Nat
  <2>1. setup.cap \in Nat /\ run.batch \in Batches
    BY NumberAssumption DEF Core, TypeOK
  <2>. QED
    BY <2>1, ArenaIs DEF Create
<1>3. Chosen(effective)
  BY <1>1 DEF Chosen, Core, RunInv, TypeOK, Effectives, Linear, Mlp
<1>4. Readable(effective) /\ session' = Loaded(effective)
  BY <1>1
<1>5. /\ run' \in [batch : Batches, evals : Nat, effective : Effectives]
      /\ run'.batch = run.batch /\ run'.effective = effective
  <2>1. run \in [batch : Batches, evals : Nat, effective : Effectives] /\ effective \in Effectives
    BY <1>3 DEF Core, TypeOK, Chosen
  <2>. DEFINE k == IF setup.model THEN 1 ELSE run.evals
  <2>2. k \in Nat
    BY <2>1
  <2>3. run' = [run EXCEPT !.effective = effective, !.evals = k]
    BY <1>1, <2>1
  <2>. HIDE DEF effective, k
  <2>. QED
    BY <2>1, <2>2, <2>3
<1>. HIDE DEF effective
<1>6. Begun(session', effective)
  BY <1>3, <1>4, SessionBegins DEF Core
<1>7. session' \in Opened /\ SessionFits(session') /\ session'.effective = effective /\ session'.phase = "loaded"
  BY <1>6 DEF Begun
<1>8. /\ arena' = [capacity |-> ArenaBytes(run.batch, setup.cap), used |-> 0, leases |-> {}]
      /\ arena' \in [capacity : Nat, used : Nat, leases : SUBSET Batches]
  BY <1>2 DEF Create, NoArena
<1>9. /\ file' \in {NoFile} \cup Files
      /\ file' # NoFile => /\ FileFits(file') /\ Agree(session', file')
                           /\ Live(session').weights = file'.weights
  <2>1. CASE setup.model
    BY <1>7, <2>1, SavedFits DEF Create, Core
  <2>2. CASE ~setup.model
    BY <1>6, <2>2 DEF Create, Core, TypeOK, FileInv, Begun
  <2>. QED
    BY <2>1, <2>2
<1>10. TypeOK'
  BY <1>2, <1>5, <1>7, <1>8, <1>9 DEF Core, TypeOK
<1>11. RunInv'
  BY <1>2, <1>3, <1>5 DEF Core, RunInv, Chosen
<1>. QED
  BY <1>2, <1>5, <1>7, <1>8, <1>9, <1>10, <1>11, FitsWith DEF Core, SessionInv, FileInv

\* A session that is open, its batch, and the file it agrees with.
LEMMA OpenIs ==
    ASSUME Core, session.open
    PROVE  /\ session \in Opened /\ SessionFits(session)
           /\ session.effective = run.effective
           /\ run.batch \in Batches /\ run.batch \in Nat /\ run.evals \in Nat
           /\ file # NoFile => file \in Files /\ FileFits(file) /\ Agree(session, file)
  BY Distinct, SizesAre DEF Core, TypeOK, SessionInv, FileInv

\* A step that leaves the file and keeps the statistics of its session keeps the core.
LEMMA CoreStays ==
    ASSUME Core, session.open, setup' = setup, file' = file,
           run' \in [batch : Batches, evals : Nat, effective : Effectives],
           run'.effective = run.effective,
           arena' \in [capacity : Nat, used : Nat, leases : SUBSET Batches],
           session' \in Opened, SessionFits(session'),
           session'.effective = session.effective,
           session'.state.stats = session.state.stats,
           file # NoFile /\ session'.phase \in {"loaded", "complete"} =>
               Live(session').weights = file.weights
    PROVE  Core'
<1>1. TypeOK'
  BY DEF Core, TypeOK
<1>2. RunInv'
  BY DEF Core, RunInv
<1>3. file # NoFile => Agree(session', file)
  BY OpenIs DEF Agree
<1>4. FileInv'
  BY FitsWith DEF Core, FileInv
<1>5. SessionInv'
  BY <1>3, OpenIs, FitsWith DEF SessionInv
<1>. QED
  BY <1>1, <1>2, <1>4, <1>5 DEF Core

LEMMA StepIs ==
    ASSUME Core, Step
    PROVE  /\ Core' /\ session'.source = session.source
<1>1. PICK steps \in BulkSteps(session.effective) :
        session' = [Read(Learn(session, steps * run.batch), steps * run.batch)
                      EXCEPT !.phase = "stepped"]
  BY DEF Step
<1>. DEFINE rows == steps * run.batch
<1>2. session \in Opened /\ SessionFits(session) /\ run.batch \in Batches /\ run.batch \in Nat
  BY OpenIs DEF Step
<1>3. rows \in Nat
  <2>1. steps \in Nat
    BY NumberAssumption DEF BulkSteps
  <2>. QED
    BY <1>2, <2>1
<1>4. session' = [Read(Learn(session, rows), rows) EXCEPT !.phase = "stepped"]
  BY <1>1
<1>. HIDE DEF rows
<1>5. /\ session' \in Opened
      /\ session'.effective = session.effective /\ session'.source = session.source
      /\ session'.phase = "stepped"
      /\ session'.state.stats = session.state.stats
      /\ session'.handle.stats = session.handle.stats
      /\ session'.skipped = session.skipped
      /\ session'.cursor = IF session.source = "memory" THEN session.cursor ELSE session.cursor + rows
      /\ Live(session').weights.rows = Live(session).weights.rows + rows
  BY <1>2, <1>3, <1>4, LearnIs
<1>6. session.source # "memory" =>
         session'.cursor - session'.skipped - Live(session').weights.rows
             = session.cursor - session.skipped - Live(session).weights.rows
  <2>1. session.cursor \in Nat /\ session.skipped \in Nat /\ Live(session).weights.rows \in Nat
    BY <1>2, LiveIs DEF Opened, Snaps, Weights
  <2>. QED
    BY <1>3, <1>5, <2>1
<1>7. SessionFits(session')
  BY <1>2, <1>5, <1>6, FitStays DEF Core
<1>8. arena' \in [capacity : Nat, used : Nat, leases : SUBSET Batches]
  <2>1. arena \in [capacity : Nat, used : Nat, leases : SUBSET Batches]
    BY DEF Core, TypeOK
  <2>2. CASE session.source # "native" \/ run.batch \in arena.leases
    BY <2>1, <2>2 DEF Step, Lease
  <2>3. CASE ~(session.source # "native" \/ run.batch \in arena.leases)
    <3>. DEFINE u == UsedWith(run.batch)
                l == arena.leases \cup {run.batch}
    <3>1. u \in Nat /\ l \in SUBSET Batches
      BY <1>2, <2>1, UsedIs DEF Core
    <3>2. arena' = [arena EXCEPT !.used = u, !.leases = l]
      BY <2>3 DEF Step, Lease
    <3>. HIDE DEF u, l
    <3>. QED
      BY <2>1, <3>1, <3>2
  <2>. QED
    BY <2>2, <2>3
<1>9. setup' = setup /\ run' = run /\ file' = file /\ session.open
  BY DEF Step
<1>10. run' \in [batch : Batches, evals : Nat, effective : Effectives]
  BY <1>9 DEF Core, TypeOK
<1>. QED
  BY <1>5, <1>7, <1>8, <1>9, <1>10, CoreStays

LEMMA OutOfMemoryIs ==
    ASSUME Core, OutOfMemory
    PROVE  /\ Core' /\ session'.source = session.source
           /\ run'.batch \in Nat /\ run.batch = 2 * run'.batch
           /\ run'.evals = run.evals
<1>1. /\ session \in Opened /\ SessionFits(session) /\ run.batch \in Batches /\ run.batch \in Nat
      /\ session.effective = run.effective
  BY OpenIs DEF OutOfMemory
<1>2. /\ session' \in Opened
      /\ session'.effective = session.effective /\ session'.source = session.source
      /\ session'.phase = "stepped"
      /\ session'.state = session.state /\ session'.handle = session.handle
      /\ session'.skipped = IF session.source = "memory" THEN session.skipped ELSE session.skipped + run.batch
      /\ session'.cursor = IF session.source = "memory" THEN session.cursor ELSE session.cursor + run.batch
  <2>1. session' = [Read(session, run.batch) EXCEPT
                      !.skipped = IF session.source = "memory" THEN @ ELSE @ + run.batch,
                      !.phase = "stepped"]
    BY DEF OutOfMemory
  <2>. QED
    BY <1>1, <2>1, SkippedIs
<1>3. session.source # "memory" =>
         session'.cursor - session'.skipped - Live(session').weights.rows
             = session.cursor - session.skipped - Live(session).weights.rows
  <2>1. session.cursor \in Nat /\ session.skipped \in Nat /\ Live(session).weights.rows \in Nat
    BY <1>1, LiveIs DEF Opened, Snaps, Weights
  <2>2. Live(session') = Live(session)
    BY <1>2 DEF Live
  <2>. QED
    BY <1>1, <1>2, <2>1, <2>2
<1>4. SessionFits(session')
  BY <1>1, <1>2, <1>3, FitStays DEF Core
<1>5. /\ run' \in [batch : Batches, evals : Nat, effective : Effectives]
      /\ run'.effective = run.effective /\ run'.evals = run.evals
      /\ run.batch = 2 * run'.batch
  <2>. DEFINE b == Larger(BatchMin, run.batch \div 2)
  <2>1. b \in Batches /\ run.batch = 2 * b
    BY <1>1, Halved DEF OutOfMemory
  <2>2. run' = [run EXCEPT !.batch = b] /\ run \in [batch : Batches, evals : Nat, effective : Effectives]
    BY DEF OutOfMemory, Core, TypeOK
  <2>. HIDE DEF b
  <2>. QED
    BY <2>1, <2>2
<1>6. setup' = setup /\ arena' = arena /\ file' = file /\ session.open
  BY DEF OutOfMemory
<1>7. arena' \in [capacity : Nat, used : Nat, leases : SUBSET Batches]
  BY <1>6 DEF Core, TypeOK
<1>. QED
  BY <1>2, <1>4, <1>5, <1>6, <1>7, CoreStays, SizesAre

LEMMA EvaluateIs ==
    ASSUME Core, Evaluate
    PROVE  /\ Core' /\ session'.source = session.source /\ session'.phase = "running"
           /\ run'.evals = run.evals + 1 /\ run'.batch \in Batches
           /\ \/ run'.batch = run.batch
              \/ run.batch = 2 * run'.batch
              \/ run'.batch = 2 * run.batch /\ run'.evals \in {2, 4}
<1>1. /\ session \in Opened /\ SessionFits(session) /\ run.batch \in Batches
      /\ session.effective = run.effective /\ run.evals \in Nat
      /\ file # NoFile => file \in Files /\ FileFits(file) /\ Agree(session, file)
  BY OpenIs DEF Evaluate
<1>2. PICK trend \in {"dropped", "stable", "other"}, better \in BOOLEAN :
        LET scores == Smaller(4, session.scores + 1)   evals == run.evals + 1 IN
        /\ run' = [run EXCEPT !.evals = evals, !.batch = Adapted(trend, scores, evals)]
        /\ session' = [session EXCEPT !.scores = scores, !.phase = "running",
                                      !.state = SyncParameters(session)]
        /\ file' = IF better THEN Saved(session) ELSE file
  BY DEF Evaluate
<1>. DEFINE scores == Smaller(4, session.scores + 1)
            evals  == run.evals + 1
            b      == Adapted(trend, scores, evals)
<1>3. scores \in Nat /\ evals \in Nat
  BY <1>1 DEF Smaller, Opened
<1>4. session' = [session EXCEPT !.scores = scores, !.phase = "running",
                                 !.state = SyncParameters(session)]
  BY <1>2
<1>5. run' = [run EXCEPT !.evals = evals, !.batch = b]
  BY <1>2
<1>. HIDE DEF scores
<1>6. /\ b \in Batches
      /\ b = run.batch \/ run.batch = 2 * b \/ (b = 2 * run.batch /\ evals \in {2, 4})
  BY <1>3, AdaptedIs DEF Core
<1>7. /\ run' \in [batch : Batches, evals : Nat, effective : Effectives]
      /\ run'.effective = run.effective /\ run'.evals = evals /\ run'.batch = b
  <2>1. run \in [batch : Batches, evals : Nat, effective : Effectives]
    BY DEF Core, TypeOK
  <2>. HIDE DEF b, evals
  <2>. QED
    BY <1>3, <1>5, <1>6, <2>1
<1>8. /\ session' \in Opened /\ session'.effective = session.effective
      /\ session'.source = session.source /\ session'.phase = "running"
      /\ SessionFits(session') /\ session'.state.stats = session.state.stats
  BY <1>1, <1>3, <1>4, SyncFits DEF Core
<1>9. file' \in {NoFile} \cup Files /\ (file' # NoFile => FileFits(file') /\ Agree(session, file'))
  <2>1. CASE better
    BY <1>1, <1>2, <2>1, SavedFits DEF Core
  <2>2. CASE ~better
    BY <1>1, <1>2, <2>2
  <2>. QED
    BY <2>1, <2>2
<1>10. setup' = setup /\ arena' = arena
  BY DEF Evaluate
<1>11. TypeOK' /\ RunInv'
  BY <1>7, <1>8, <1>9, <1>10 DEF Core, TypeOK, RunInv
<1>12. file' # NoFile => Agree(session', file')
  BY <1>8, <1>9 DEF Agree
<1>13. SessionInv' /\ FileInv'
  BY <1>1, <1>7, <1>8, <1>9, <1>10, <1>12, FitsWith DEF SessionInv, FileInv
<1>14. Core'
  BY <1>11, <1>13 DEF Core
<1>. HIDE DEF b
<1>. QED
  BY <1>6, <1>7, <1>8, <1>14

LEMMA CompleteIs ==
    ASSUME Core, Complete
    PROVE  /\ Core' /\ session'.source = session.source /\ session'.phase = "complete"
<1>1. /\ session \in Opened /\ SessionFits(session)
      /\ file \in Files /\ FileFits(file) /\ Agree(session, file)
  BY OpenIs DEF Complete
<1>. DEFINE t == Restored(session, file)
<1>2. session' = [t EXCEPT !.phase = "complete"]
  BY DEF Complete
<1>3. /\ t \in Opened /\ t.effective = session.effective /\ t.source = session.source
      /\ SessionFits(t) /\ Agree(t, file) /\ Live(t).weights = file.weights
  BY <1>1, RestoredFits DEF Core
<1>. HIDE DEF t
<1>4. /\ session' \in Opened /\ session'.effective = session.effective
      /\ session'.source = session.source /\ session'.phase = "complete"
      /\ session'.state = t.state /\ session'.handle = t.handle
      /\ session'.cursor = t.cursor /\ session'.skipped = t.skipped
  BY <1>2, <1>3 DEF Opened
<1>5. Live(session') = Live(t)
  BY <1>3, <1>4 DEF Live
<1>6. SessionFits(session')
  BY <1>3, <1>4, <1>5, FitStays DEF Core
<1>7. session'.state.stats = session.state.stats
  BY <1>1, <1>3, <1>4 DEF Agree
<1>8. setup' = setup /\ run' = run /\ arena' = arena /\ file' = file /\ session.open
  BY DEF Complete
<1>9. /\ run' \in [batch : Batches, evals : Nat, effective : Effectives]
      /\ arena' \in [capacity : Nat, used : Nat, leases : SUBSET Batches]
  BY <1>8 DEF Core, TypeOK
<1>. QED
  BY <1>3, <1>4, <1>5, <1>6, <1>7, <1>8, <1>9, CoreStays

LEMMA EndIs ==
    ASSUME Core, End
    PROVE  Core' /\ ~session'.open
<1>1. TypeOK'
  BY DEF End, Core, TypeOK, NoArena
<1>2. RunInv'
  BY DEF End, Core, RunInv
<1>3. FileInv'
  BY FitsWith DEF End, Core, FileInv
<1>4. ~session'.open
  BY Distinct DEF End
<1>. QED
  BY <1>1, <1>2, <1>3, <1>4 DEF Core, SessionInv

-----------------------------------------------------------------------------
(* The arena.                                                              *)

LEMMA LeasesAre ==
    ASSUME TypeOK
    PROVE  /\ IsFiniteSet(arena.leases) /\ Cardinality(arena.leases) \in Nat
           /\ arena.leases \subseteq Batches /\ arena.used \in Nat /\ arena.capacity \in Nat
           /\ Cardinality(arena.leases) <= Cardinality(Batches) /\ Cardinality(Batches) \in Nat
<1>1. arena.leases \subseteq Batches /\ arena.used \in Nat /\ arena.capacity \in Nat
  BY DEF TypeOK
<1>. QED
  BY <1>1, SizesAre, FS_Subset, FS_CardinalityType

\* What a chain takes grows with it, at either end.
LEMMA SpanGrows ==
    ASSUME NEW low \in Nat, NEW high \in Nat, low <= high, NEW r \in Nat, NEW c \in Nat,
           NEW u \in Nat, u <= (2 * high - low) * r + 128 * c, NEW v \in Nat
    PROVE  /\ v <= u + (2 * high) * r + 126
                => v <= (2 * (2 * high) - low) * r + 128 * (c + 1)
           /\ \A b \in Nat : low = 2 * b /\ v <= u + b * r + 126
                => v <= (2 * high - b) * r + 128 * (c + 1)
<1>1. (2 * high - low) * r = 2 * (high * r) - low * r
  OBVIOUS
<1>2. (2 * high) * r = 2 * (high * r) /\ (2 * (2 * high) - low) * r = 4 * (high * r) - low * r
  OBVIOUS
<1>3. \A b \in Nat : /\ (2 * high - b) * r = 2 * (high * r) - b * r
                     /\ (2 * b) * r = 2 * (b * r) /\ b * r \in Nat
  OBVIOUS
<1>4. high * r \in Nat /\ low * r \in Nat
  OBVIOUS
<1>. DEFINE p == high * r
            q == low * r
<1>5. u <= 2 * p - q + 128 * c
  BY <1>1
<1>6. v <= u + (2 * high) * r + 126 => v <= (2 * (2 * high) - low) * r + 128 * (c + 1)
  <2>. SUFFICES ASSUME v <= u + 2 * p + 126 PROVE v <= 4 * p - q + 128 * (c + 1)
    BY <1>2
  <2>. HIDE DEF p, q
  <2>. QED
    BY <1>4, <1>5 DEF p, q
<1>7. ASSUME NEW b \in Nat, low = 2 * b, v <= u + b * r + 126
      PROVE  v <= (2 * high - b) * r + 128 * (c + 1)
  <2>. DEFINE k == b * r
  <2>1. k \in Nat /\ q = 2 * k /\ (2 * high - b) * r = 2 * p - k
    BY <1>3, <1>7
  <2>2. v <= u + k + 126
    BY <1>7
  <2>. SUFFICES v <= 2 * p - k + 128 * (c + 1)
    BY <2>1
  <2>3. p \in Nat
    BY <1>4
  <2>. HIDE DEF p, q, k
  <2>. QED
    BY <1>5, <2>1, <2>2, <2>3
<1>. QED
  BY <1>6, <1>7

\* A step leases a batch that is in the chain or next to it.
LEMMA StepChains ==
    ASSUME Core, ChainInv, Step
    PROVE  ChainInv'
<1>. SUFFICES ASSUME session'.source = "native"
              PROVE  \E low, high \in arena'.leases : Chain(low, high)'
  BY DEF ChainInv
<1>1. session.source = "native" /\ session.open /\ run' = run /\ Lease(run.batch)
  BY StepIs DEF Step
<1>. PICK b : b = run.batch
  OBVIOUS
<1>. DEFINE L == arena.leases
            c == Cardinality(L)
<1>0. RowBytes' = RowBytes
  BY DEF RowBytes
<1>2. b \in Batches /\ b \in Nat \ {0} /\ RowBytes \in Nat
  BY <1>1, OpenIs, SizesAre, RowBytesIsNat
<1>3. /\ IsFiniteSet(L) /\ c \in Nat /\ L \subseteq Batches /\ arena.used \in Nat
      /\ arena \in [capacity : Nat, used : Nat, leases : SUBSET Batches]
  BY LeasesAre DEF Core, TypeOK
<1>4. UsedWith(b) \in Nat /\ UsedWith(b) <= arena.used + b * RowBytes + 126
  BY <1>2, UsedIs DEF Core
<1>5. CASE b \in L
  <2>1. arena' = arena
    BY <1>1, <1>5 DEF Lease
  <2>2. PICK low, high \in arena.leases : Chain(low, high)
    BY <1>1, <1>5 DEF ChainInv
  <2>3. Chain(low, high)'
    BY <1>1, <1>0, <1>5, <2>1, <2>2 DEF Chain
  <2>. QED
    BY <2>1, <2>3
<1>6. CASE b \notin L
  <2>1. arena' = [arena EXCEPT !.used = UsedWith(b), !.leases = @ \cup {b}]
    BY <1>1, <1>6 DEF Lease
  <2>2. arena'.leases = L \cup {b} /\ arena'.used = UsedWith(b)
    <3>. DEFINE u == UsedWith(b)
                l == arena.leases \cup {b}
    <3>1. arena' = [arena EXCEPT !.used = u, !.leases = l]
      BY <2>1
    <3>. HIDE DEF u, l
    <3>2. arena'.leases = l /\ arena'.used = u
      BY <1>3, <3>1
    <3>. QED
      BY <3>2 DEF u, l
  <2>3. Cardinality(L \cup {b}) = c + 1
    BY <1>3, <1>6, FS_AddElement
  <2>4. CASE L = {}
    <3>1. arena.used = 0 /\ c = 0
      BY <1>1, <2>4, FS_EmptySet DEF ChainInv
    <3>2. arena'.leases = {b}
      BY <2>2, <2>4
    <3>3. (2 * b - b) * RowBytes = b * RowBytes
      BY <1>2
    <3>4. b * RowBytes \in Nat
      BY <1>2
    <3>5. UsedWith(b) <= (2 * b - b) * RowBytes + 128 * Cardinality(L \cup {b})
      <4>. DEFINE p == b * RowBytes
                  v == UsedWith(b)
      <4>1. v <= 0 + p + 126 /\ v \in Nat /\ p \in Nat
        BY <1>4, <3>1, <3>4
      <4>. HIDE DEF p, v
      <4>2. v <= p + 128 * (0 + 1)
        BY <4>1
      <4>. QED
        BY <2>3, <3>1, <3>3, <4>2 DEF p, v
    <3>6. Chain(b, b)'
      BY <1>0, <1>1, <1>2, <2>2, <3>2, <3>5 DEF Chain
    <3>. QED
      BY <3>2, <3>6
  <2>5. CASE L # {}
    <3>1. PICK low, high \in L : Chain(low, high)
      BY <1>1, <2>5 DEF ChainInv
    <3>2. low \in Nat \ {0} /\ high \in Nat \ {0} /\ low <= high
      BY <1>3, <3>1, SizesAre DEF Chain
    <3>3. \A n \in L : n \in Nat \ {0} /\ low <= n /\ n <= high
      BY <1>3, <3>1, SizesAre DEF Chain
    <3>4. arena.used <= (2 * high - low) * RowBytes + 128 * c
      BY <3>1 DEF Chain
    <3>5. b = 2 * high \/ low = 2 * b
      BY <1>6, <3>1 DEF Chain
    <3>6. CASE b = 2 * high
      <4>1. UsedWith(b) <= (2 * b - low) * RowBytes + 128 * (c + 1)
        BY <1>2, <1>3, <1>4, <3>2, <3>4, <3>6, SpanGrows
      <4>2. \A n \in L \cup {b} : low <= n /\ n <= b
        BY <1>2, <3>2, <3>3, <3>6
      <4>3. \A n \in L \cup {b} : n # low => \E m \in L \cup {b} : n = 2 * m
        BY <3>1, <3>6 DEF Chain
      <4>4. \A n \in L \cup {b} : n # b => 2 * n \in L \cup {b}
        BY <3>1, <3>6 DEF Chain
      <4>5. Chain(low, b)'
        BY <1>0, <1>1, <2>2, <2>3, <4>1, <4>2, <4>3, <4>4 DEF Chain
      <4>. QED
        BY <2>2, <4>5
    <3>7. CASE low = 2 * b
      <4>1. UsedWith(b) <= (2 * high - b) * RowBytes + 128 * (c + 1)
        BY <1>2, <1>3, <1>4, <3>2, <3>4, <3>7, SpanGrows
      <4>2. \A n \in L \cup {b} : b <= n /\ n <= high
        BY <1>2, <3>2, <3>3, <3>7
      <4>3. \A n \in L \cup {b} : n # b => \E m \in L \cup {b} : n = 2 * m
        BY <3>1, <3>7 DEF Chain
      <4>4. \A n \in L \cup {b} : n # high => 2 * n \in L \cup {b}
        BY <3>1, <3>7 DEF Chain
      <4>5. Chain(b, high)'
        BY <1>0, <1>1, <2>2, <2>3, <4>1, <4>2, <4>3, <4>4 DEF Chain
      <4>. QED
        BY <2>2, <4>5
    <3>. QED
      BY <3>5, <3>6, <3>7
  <2>. QED
    BY <2>4, <2>5
<1>. QED
  BY <1>5, <1>6

\* After a step the batch has leases; half or twice of it is in the chain or next to it.
LEMMA EvaluateChains ==
    ASSUME Core, ChainInv, Evaluate
    PROVE  ChainInv'
<1>. SUFFICES ASSUME session'.source = "native"
              PROVE  \E low, high \in arena'.leases : Chain(low, high)'
  BY DEF ChainInv
<1>1. /\ session.source = "native" /\ session.open /\ session.phase = "stepped"
      /\ arena' = arena /\ session'.phase = "running"
  BY EvaluateIs DEF Evaluate
<1>2. RowBytes' = RowBytes
  BY DEF RowBytes
<1>3. PICK low, high \in arena.leases : Chain(low, high)
  BY <1>1 DEF ChainInv
<1>4. PICK b, d : b = run.batch /\ d = run'.batch
  OBVIOUS
<1>5. b \in arena.leases
  BY <1>1, <1>3, <1>4 DEF Chain
<1>6. \A n \in arena.leases : n \in Nat
  BY LeasesAre, SizesAre DEF Core
<1>7. d \in Nat /\ (d = b \/ b = 2 * d \/ d = 2 * b)
  BY <1>4, EvaluateIs, SizesAre
<1>8. d \in arena.leases \/ d = 2 * high \/ low = 2 * d
  <2>1. CASE d = b
    BY <1>5, <2>1
  <2>2. CASE b = 2 * d
    <3>1. b # low => \E m \in arena.leases : b = 2 * m
      BY <1>3, <1>5 DEF Chain
    <3>2. \A m \in arena.leases : 2 * d = 2 * m => d = m
      BY <1>6, <1>7
    <3>. QED
      BY <2>2, <3>1, <3>2
  <2>3. CASE d = 2 * b
    BY <1>3, <1>5, <2>3 DEF Chain
  <2>. QED
    BY <1>7, <2>1, <2>2, <2>3
<1>9. Chain(low, high)'
  BY <1>1, <1>2, <1>3, <1>4, <1>8 DEF Chain
<1>. QED
  BY <1>1, <1>9

\* What two sizes that are equal, or one twice the other, take of an arena.
LEMMA RoomFor ==
    ASSUME NEW b \in Nat, NEW d \in Nat, NEW g, NEW h, g \in {2, 4, 8}, h \in {2, 4, 8},
           NEW room \in Nat, g * (b * RowBytes) <= room,
           (h <= g /\ (d = b \/ b = 2 * d)) \/ (2 * h <= g /\ d = 2 * b)
    PROVE  h * (d * RowBytes) <= room
<1>. DEFINE p == b * RowBytes
            q == d * RowBytes
<1>1. p \in Nat /\ q \in Nat /\ g * p <= room
  BY BytesOf
<1>2. d = b => q = p
  OBVIOUS
<1>3. b = 2 * d => p = 2 * q
  BY BytesOf
<1>4. d = 2 * b => q = 2 * p
  BY BytesOf
<1>. HIDE DEF p, q
<1>5. h * q <= room
  BY <1>1, <1>2, <1>3, <1>4
<1>. QED
  BY <1>5 DEF q

LEMMA GrowthIs ==
    ASSUME NEW e \in Nat
    PROVE  /\ Growth(e) \in {2, 4, 8} /\ Growth(e + 1) <= Growth(e)
           /\ e + 1 \in {2, 4} => 2 * Growth(e + 1) <= Growth(e)
  BY DEF Growth

LEMMA CreateRooms ==
    ASSUME Core, Create
    PROVE  RoomInv'
<1>1. setup.cap \in Nat /\ run.batch \in Batches /\ setup' = setup
  BY NumberAssumption DEF Core, TypeOK, Create
<1>2. /\ arena'.leases = {} /\ arena'.capacity = ArenaBytes(run.batch, setup.cap)
      /\ run'.batch = run.batch /\ run'.evals \in Nat
  BY CreateIs DEF Core, TypeOK
<1>3. PICK b, g, a : b = run'.batch /\ g = Growth(run'.evals) /\ a = arena'.capacity
  OBVIOUS
<1>4. g \in {2, 4, 8}
  BY <1>2, <1>3, GrowthIs
<1>5. /\ a \in Nat
      /\ a = setup.cap \/ (MinArena <= a /\ 8 * (b * RowBytes) <= a)
  BY <1>1, <1>2, <1>3, ArenaIs
<1>6. b \in Nat
  BY <1>1, <1>2, <1>3, SizesAre
<1>7. a = setup.cap \/ (MinArena <= a /\ g * (b * RowBytes) <= a)
  <2>1. CASE a = setup.cap
    BY <2>1
  <2>2. CASE MinArena <= a /\ 8 * (b * RowBytes) <= a
    <3>1. 8 \in {2, 4, 8} /\ g <= 8
      BY <1>4
    <3>2. g * (b * RowBytes) <= a
      BY <1>4, <1>5, <1>6, <2>2, <3>1, RoomFor
    <3>. QED
      BY <2>2, <3>2
  <2>. QED
    BY <1>5, <2>1, <2>2
<1>8. RowBytes' = RowBytes /\ Growth(run.evals)' = Growth(run'.evals)
  BY DEF RowBytes, Growth
<1>. QED
  BY <1>1, <1>2, <1>3, <1>7, <1>8 DEF RoomInv

LEMMA StepRooms ==
    ASSUME Core, RoomInv, Step
    PROVE  RoomInv'
<1>1. /\ run.batch \in Nat /\ run.evals \in Nat /\ run' = run /\ setup' = setup
      /\ session.open /\ Lease(run.batch)
  BY OpenIs DEF Step
<1>2. arena \in [capacity : Nat, used : Nat, leases : SUBSET Batches]
  BY DEF Core, TypeOK
<1>3. arena'.capacity = arena.capacity /\ arena'.leases \subseteq arena.leases \cup {run.batch}
  <2>. DEFINE u == UsedWith(run.batch)
              l == arena.leases \cup {run.batch}
  <2>1. arena' = arena \/ arena' = [arena EXCEPT !.used = u, !.leases = l]
    BY <1>1 DEF Lease
  <2>. HIDE DEF u, l
  <2>2. arena'.capacity = arena.capacity /\ (arena'.leases = arena.leases \/ arena'.leases = l)
    BY <1>2, <2>1
  <2>. QED
    BY <2>2 DEF l
<1>4. PICK b, g, a : b = run.batch /\ g = Growth(run.evals) /\ a = arena.capacity
  OBVIOUS
<1>5. g * (b * RowBytes) <= a => 2 * (b * RowBytes) <= a
  <2>1. g \in {2, 4, 8} /\ b \in Nat /\ a \in Nat
    BY <1>1, <1>2, <1>4, GrowthIs
  <2>2. 2 \in {2, 4, 8} /\ 2 <= g
    BY <2>1
  <2>. SUFFICES ASSUME g * (b * RowBytes) <= a PROVE 2 * (b * RowBytes) <= a
    OBVIOUS
  <2>. QED
    BY <2>1, <2>2, RoomFor
<1>6. RowBytes' = RowBytes /\ Growth(run.evals)' = Growth(run.evals)
  BY <1>1 DEF RowBytes, Growth
<1>7. CASE a = setup.cap
  BY <1>1, <1>3, <1>4, <1>7 DEF RoomInv
<1>8. CASE a # setup.cap
  <2>1. /\ MinArena <= a /\ g * (b * RowBytes) <= a
        /\ \A n \in arena.leases : 2 * (n * RowBytes) <= a
    BY <1>1, <1>4, <1>8 DEF RoomInv
  <2>2. \A n \in arena'.leases : 2 * (n * RowBytes) <= a
    BY <1>3, <1>4, <1>5, <2>1
  <2>. QED
    BY <1>1, <1>3, <1>4, <1>6, <2>1, <2>2 DEF RoomInv
<1>. QED
  BY <1>7, <1>8

\* The steps that change the batch and not the arena.
LEMMA BatchRooms ==
    ASSUME Core, RoomInv, session.open, setup' = setup, arena' = arena,
           run'.batch \in Nat, run'.evals \in Nat,
           \/ /\ Growth(run'.evals) <= Growth(run.evals)
              /\ run'.batch = run.batch \/ run.batch = 2 * run'.batch
           \/ /\ 2 * Growth(run'.evals) <= Growth(run.evals)
              /\ run'.batch = 2 * run.batch
    PROVE  RoomInv'
<1>1. run.batch \in Nat /\ run.evals \in Nat /\ arena.capacity \in Nat
  BY OpenIs DEF Core, TypeOK
<1>2. PICK b, d, g, h, a : /\ b = run.batch /\ d = run'.batch /\ a = arena.capacity
                           /\ g = Growth(run.evals) /\ h = Growth(run'.evals)
  OBVIOUS
<1>3. g \in {2, 4, 8} /\ h \in {2, 4, 8}
  BY <1>1, <1>2, GrowthIs
<1>4. g * (b * RowBytes) <= a => h * (d * RowBytes) <= a
  <2>1. b \in Nat /\ d \in Nat /\ a \in Nat
    BY <1>1, <1>2
  <2>2. (h <= g /\ (d = b \/ b = 2 * d)) \/ (2 * h <= g /\ d = 2 * b)
    BY <1>2
  <2>. SUFFICES ASSUME g * (b * RowBytes) <= a PROVE h * (d * RowBytes) <= a
    OBVIOUS
  <2>. DEFINE p == b * RowBytes
              q == d * RowBytes
  <2>3. /\ p \in Nat /\ q \in Nat /\ g * p <= a
        /\ (h <= g /\ (q = p \/ p = 2 * q)) \/ (2 * h <= g /\ q = 2 * p)
    BY <2>1, <2>2, BytesOf
  <2>. HIDE DEF p, q
  <2>4. h * q <= a
    BY <1>3, <2>1, <2>3
  <2>. QED
    BY <2>4 DEF q
<1>5. RowBytes' = RowBytes /\ Growth(run.evals)' = Growth(run'.evals)
  BY DEF RowBytes, Growth
<1>. QED
  BY <1>2, <1>4, <1>5 DEF RoomInv

\* The room that is left next to a chain is enough for its neighbours.
LEMMA RoomNext ==
    ASSUME TypeOK, NEW b \in Batches, NEW top \in Batches, b <= top,
           MinArena <= arena.capacity, 2 * (top * RowBytes) <= arena.capacity,
           NEW end \in {b, BatchMin},
           arena.used + b * RowBytes + 128 + end * RowBytes
               <= 2 * (top * RowBytes) + 128 * Cardinality(Batches)
    PROVE  Fits(b)
<1>. DEFINE p == b * RowBytes
            t == top * RowBytes
            l == BatchMin * RowBytes
            m == BatchMax * RowBytes
            lost == 128 * Cardinality(Batches)
            u == arena.used
            a == arena.capacity
<1>1. b \in Nat /\ top \in Nat /\ BatchMin \in Nat /\ BatchMax \in Nat /\ BatchMin <= b /\ top <= BatchMax
  BY SizesAre
<1>2. u \in Nat /\ a \in Nat /\ lost \in Nat /\ MinArena \in Nat
  BY LeasesAre, NumberAssumption
<1>3. p \in Nat /\ t \in Nat /\ l \in Nat /\ m \in Nat
  BY <1>1, BytesOf
<1>4. l <= p /\ t <= m
  <2>1. \A i, j, r \in Nat : i <= j => i * r <= j * r
    OBVIOUS
  <2>. QED
    BY <1>1, <2>1, RowBytesIsNat
<1>5. lost <= l \/ 2 * m + lost <= MinArena
  <2>1. 2 * BatchMax * RowBytes = 2 * m
    BY <1>1, RowBytesIsNat
  <2>. QED
    BY <2>1, ArenaAssumption
<1>6. MinArena <= a /\ 2 * t <= a /\ (u + p + 128 + p <= 2 * t + lost \/ u + p + 128 + l <= 2 * t + lost)
  OBVIOUS
<1>7. UsedWith(b) \in Nat /\ UsedWith(b) <= u + p + 126
  BY UsedIs
<1>. HIDE DEF p, t, l, m, lost, u, a
<1>8. u + p + 128 <= a
  BY <1>2, <1>3, <1>4, <1>5, <1>6
<1>9. p + 64 <= a - u /\ UsedWith(b) <= a
  BY <1>2, <1>3, <1>7, <1>8
<1>. QED
  BY <1>9 DEF Fits, p, u, a

\* The arena of a native stream has room for the batch, unless it is at its ceiling.
LEMMA BatchHasRoom ==
    ASSUME Core, ChainInv, RoomInv, session.open, session.source = "native",
           arena.capacity # setup.cap
    PROVE  Fits(run.batch)
<1>. PICK b : b = run.batch
  OBVIOUS
<1>. DEFINE L == arena.leases
            c == Cardinality(L)
            r == RowBytes
            k == Cardinality(Batches)
<1>1. b \in Batches /\ b \in Nat \ {0} /\ r \in Nat /\ run.evals \in Nat
  BY OpenIs, SizesAre, RowBytesIsNat
<1>2. /\ IsFiniteSet(L) /\ c \in Nat /\ L \subseteq Batches /\ arena.used \in Nat
      /\ arena.capacity \in Nat /\ k \in Nat
  BY LeasesAre DEF Core
<1>3. /\ MinArena <= arena.capacity /\ Growth(run.evals) * (b * r) <= arena.capacity
      /\ \A n \in L : 2 * (n * r) <= arena.capacity
  BY DEF RoomInv
<1>4. 2 * (b * r) <= arena.capacity /\ b * r \in Nat
  <2>. DEFINE p == b * r
              g == Growth(run.evals)
  <2>1. p \in Nat /\ g \in {2, 4, 8} /\ g * p <= arena.capacity
    BY <1>1, <1>3, GrowthIs, BytesOf
  <2>. HIDE DEF p, g
  <2>2. 2 * p <= arena.capacity
    BY <1>2, <2>1
  <2>. QED
    BY <2>1, <2>2 DEF p
<1>5. CASE b \in L
  BY <1>5 DEF Fits
<1>6. CASE b \notin L
  <2>1. c + 1 <= k
    <3>1. Cardinality(L \cup {b}) = c + 1
      BY <1>2, <1>6, FS_AddElement
    <3>2. L \cup {b} \subseteq Batches
      BY <1>1, <1>2
    <3>. QED
      BY <3>1, <3>2, SizesAre, FS_Subset
  <2>2. CASE L = {}
    <3>1. arena.used = 0
      BY <2>2 DEF ChainInv
    <3>2. arena.used + b * r + 128 + b * r <= 2 * (b * r) + 128 * k
      <4>. DEFINE p == b * r
      <4>1. p \in Nat
        BY <1>4
      <4>. HIDE DEF p
      <4>2. 0 + p + 128 + p <= 2 * p + 128 * k
        BY <1>2, <2>1, <4>1
      <4>. QED
        BY <3>1, <4>2 DEF p
    <3>. QED
      BY <1>1, <1>3, <1>4, <3>2, RoomNext DEF Core
  <2>3. CASE L # {}
    <3>1. PICK low, high \in L : Chain(low, high)
      BY <2>3 DEF ChainInv
    <3>2. /\ low \in Nat \ {0} /\ high \in Nat \ {0} /\ low <= high
          /\ low \in Batches /\ high \in Batches /\ BatchMin <= low
      BY <1>2, <3>1, SizesAre DEF Chain
    <3>3. arena.used <= (2 * high - low) * r + 128 * c
      BY <3>1 DEF Chain
    <3>4. b = 2 * high \/ low = 2 * b
      BY <1>6, <3>1 DEF Chain
    <3>. DEFINE p == b * r
                h == high * r
                q == low * r
                l == BatchMin * r
                u == arena.used
    <3>5. p \in Nat /\ h \in Nat /\ q \in Nat /\ l \in Nat /\ l <= q /\ u \in Nat
      <4>1. \A i, j \in Nat : i <= j => i * r <= j * r
        BY <1>1
      <4>2. BatchMin \in Nat
        BY SizesAre
      <4>. QED
        BY <1>1, <1>2, <3>2, <4>1, <4>2, BytesOf
    <3>6. u <= 2 * h - q + 128 * c
      <4>1. (2 * high - low) * r = 2 * h - q
        BY <1>1, <3>2
      <4>. QED
        BY <3>3, <4>1
    <3>7. CASE b = 2 * high
      <4>1. p = 2 * h
        BY <3>2, <3>7, BytesOf
      <4>2. u + p + 128 + l <= 2 * p + 128 * k
        <5>. HIDE DEF p, h, q, l, u, c, k
        <5>. QED
          BY <1>2, <2>1, <3>5, <3>6, <4>1
      <4>. QED
        BY <1>1, <1>3, <1>4, <4>2, RoomNext DEF Core
    <3>8. CASE low = 2 * b
      <4>1. q = 2 * p /\ b <= high
        <5>1. (2 * b) * r = 2 * p
          BY <1>1, BytesOf
        <5>2. q = (2 * b) * r
          BY <3>8
        <5>3. b <= high
          BY <1>1, <3>2, <3>8
        <5>. QED
          BY <5>1, <5>2, <5>3
      <4>2. u + p + 128 + p <= 2 * h + 128 * k
        <5>. HIDE DEF p, h, q, l, u, c, k
        <5>. QED
          BY <1>2, <2>1, <3>5, <3>6, <4>1
      <4>3. 2 * h <= arena.capacity
        BY <1>3
      <4>. QED
        BY <1>1, <1>3, <3>2, <4>1, <4>2, <4>3, RoomNext DEF Core
    <3>. QED
      BY <3>4, <3>7, <3>8
  <2>. QED
    BY <2>2, <2>3
<1>. QED
  BY <1>5, <1>6

-----------------------------------------------------------------------------
(* The theorems.                                                           *)

LEMMA Begins == Init => IInv
<1>. SUFFICES ASSUME Init PROVE IInv
  OBVIOUS
<1>1. ~session.open /\ file = NoFile
  BY Distinct DEF Init
<1>2. TypeOK
  BY BatchAssumption DEF Init, TypeOK, Effectives, NoArena
<1>3. RunInv
  BY <1>2 DEF Init, TypeOK, RunInv
<1>. QED
  BY <1>1, <1>2, <1>3 DEF IInv, SessionInv, FileInv, ChainInv, RoomInv

LEMMA Keeps == ASSUME IInv, [Next]_vars PROVE IInv'
<1>0. Core /\ ChainInv /\ RoomInv
  BY DEF IInv, Core
<1>. SUFFICES Core' /\ ChainInv' /\ RoomInv'
  BY DEF IInv, Core
<1>1. CASE Create
  <2>1. Core' /\ session'.phase = "loaded" /\ arena'.leases = {} /\ arena'.used = 0
    BY <1>0, <1>1, CreateIs
  <2>2. ChainInv'
    BY <2>1 DEF ChainInv
  <2>. QED
    BY <1>0, <1>1, <2>1, <2>2, CreateRooms
<1>2. CASE Step
  BY <1>0, <1>2, StepIs, StepChains, StepRooms
<1>3. CASE OutOfMemory
  <2>1. /\ Core' /\ session'.source = session.source
        /\ run'.batch \in Nat /\ run.batch = 2 * run'.batch /\ run'.evals = run.evals
    BY <1>0, <1>3, OutOfMemoryIs
  <2>2. session.open /\ setup' = setup /\ arena' = arena /\ session.effective = "torch"
    BY <1>3 DEF OutOfMemory
  <2>3. ChainInv'
    <3>1. session.source = GeneralSource
      BY <1>0, <2>2, OpenIs DEF SessionFits
    <3>2. session.source # "native"
      BY <1>0, <3>1, SourcesAre DEF Core
    <3>. QED
      BY <2>1, <3>2 DEF ChainInv
  <2>4. run.evals \in Nat
    BY <1>0, <2>2, OpenIs
  <2>5. Growth(run'.evals) <= Growth(run.evals)
    BY <2>1, <2>4, GrowthIs
  <2>6. RoomInv'
    BY <1>0, <2>1, <2>2, <2>4, <2>5, BatchRooms
  <2>. QED
    BY <2>1, <2>3, <2>6
<1>4. CASE Evaluate
  <2>1. /\ Core' /\ run'.evals = run.evals + 1 /\ run'.batch \in Batches
        /\ \/ run'.batch = run.batch
           \/ run.batch = 2 * run'.batch
           \/ run'.batch = 2 * run.batch /\ run'.evals \in {2, 4}
    BY <1>0, <1>4, EvaluateIs
  <2>2. session.open /\ setup' = setup /\ arena' = arena
    BY <1>4 DEF Evaluate
  <2>3. run.evals \in Nat /\ run'.evals \in Nat /\ run'.batch \in Nat
    BY <1>0, <2>1, <2>2, OpenIs, SizesAre
  <2>4. /\ Growth(run'.evals) <= Growth(run.evals)
        /\ run'.evals \in {2, 4} => 2 * Growth(run'.evals) <= Growth(run.evals)
    BY <2>1, <2>3, GrowthIs
  <2>5. RoomInv'
    BY <1>0, <2>1, <2>2, <2>3, <2>4, BatchRooms
  <2>. QED
    BY <1>0, <1>4, <2>1, <2>5, EvaluateChains
<1>5. CASE Complete
  <2>1. Core' /\ session'.source = session.source /\ session'.phase = "complete"
    BY <1>0, <1>5, CompleteIs
  <2>2. session.open /\ setup' = setup /\ arena' = arena /\ run' = run
    BY <1>5 DEF Complete
  <2>3. RowBytes' = RowBytes
    BY DEF RowBytes
  <2>4. \A low, high \in arena.leases : Chain(low, high) => Chain(low, high)'
    BY <2>1, <2>2, <2>3 DEF Chain
  <2>5. ChainInv'
    BY <1>0, <2>1, <2>2, <2>4 DEF ChainInv
  <2>6. RoomInv'
    BY <1>0, <2>2, <2>3 DEF RoomInv, Growth
  <2>. QED
    BY <2>1, <2>5, <2>6
<1>6. CASE End
  BY <1>0, <1>6, EndIs DEF ChainInv, RoomInv
<1>7. CASE UNCHANGED vars
  <2>. USE <1>7 DEF vars
  <2>1. TypeOK' /\ RunInv'
    BY <1>0 DEF Core, TypeOK, RunInv
  <2>2. SessionInv' /\ FileInv'
    BY <1>0, FitsWith DEF Core, SessionInv, FileInv
  <2>3. RowBytes' = RowBytes
    BY DEF RowBytes
  <2>4. \A low, high \in arena.leases : Chain(low, high) => Chain(low, high)'
    BY <2>3 DEF Chain
  <2>5. ChainInv'
    BY <1>0, <2>4 DEF ChainInv
  <2>6. RoomInv'
    BY <1>0, <2>3 DEF RoomInv, Growth
  <2>. QED
    BY <2>1, <2>2, <2>5, <2>6 DEF Core
<1>. QED
  BY <1>1, <1>2, <1>3, <1>4, <1>5, <1>6, <1>7 DEF Next

\* Sessions, files and the arena stay related as IInv says, whatever the sizes of rows and
\* batches and however often the run is stopped and continued.
THEOREM Invariance == Spec => []IInv
<1>1. Init => IInv
  BY Begins
<1>2. IInv /\ [Next]_vars => IInv'
  BY Keeps
<1>. QED
  BY <1>1, <1>2, PTL DEF Spec

\* A checkpoint holds what its session predicted with, and a session that read one predicts
\* with what it holds (save_checkpoint and restore_checkpoint of the four backends).
THEOREM CheckpointsAreFaithful == Spec => []CheckpointIsFaithful
<1>. SUFFICES IInv => CheckpointIsFaithful
  BY Invariance, PTL
<1>. SUFFICES ASSUME IInv PROVE CheckpointIsFaithful
  OBVIOUS
<1>0. Core
  BY DEF IInv, Core
<1>1. file # NoFile => file \in Files /\ FileFits(file)
  BY <1>0 DEF Core, TypeOK, FileInv
<1>2. ASSUME session.open, session.phase \in {"loaded", "complete"}, file # NoFile
      PROVE  IF KeepsTwoScales THEN Live(session) = file.shown
             ELSE Live(session) = [weights |-> file.weights, stats |-> file.stats]
  <2>1. /\ session \in Opened /\ SessionFits(session) /\ Agree(session, file)
        /\ Live(session).weights = file.weights
    BY <1>0, <1>2, OpenIs DEF Core, SessionInv
  <2>2. Live(session) \in Snaps /\ file.shown \in Snaps /\ file.stats \in Origins
    BY <1>1, <1>2, <2>1, LiveIs DEF Files
  <2>3. session.state.stats = file.stats /\ session.state \in Snaps
    BY <2>1 DEF Agree, Opened
  <2>4. CASE session.source = "native"
    <3>1. session.effective = "native" /\ setup.plain
      BY <1>0, <2>1, <2>4, SourcesAre DEF SessionFits, Core
    <3>2. Live(session).stats = "data" /\ file.shown.stats = "data"
      BY <1>1, <1>2, <2>1, <2>4, <3>1 DEF SessionFits, FileFits, Live
    <3>3. ~KeepsTwoScales => file.stats = "data"
      BY <1>1, <1>2, <2>2, <2>4 DEF KeepsTwoScales, FileFits, Origins
    <3>4. file.weights = file.shown.weights
      BY <1>1, <1>2 DEF FileFits
    <3>. QED
      BY <2>1, <2>2, <3>2, <3>3, <3>4 DEF Snaps
  <2>5. CASE session.source # "native"
    <3>1. ~KeepsTwoScales
      BY <2>5 DEF KeepsTwoScales
    <3>2. Live(session).stats = file.stats
      BY <2>1, <2>3, <2>5 DEF SessionFits, Live
    <3>. QED
      BY <2>1, <2>2, <3>1, <3>2 DEF Snaps
  <2>. QED
    BY <2>4, <2>5
<1>. QED
  BY <1>1, <1>2 DEF CheckpointIsFaithful, FileFits

\* The cursor of a stream is where the learnt and the left out rows end, in every session
\* and every file (streaming.py, load_state() and the cursors of the backends).
THEOREM RowsAreLearntInOrder == Spec => []LearnsInOrder
<1>1. IInv => LearnsInOrder
  <2>. SUFFICES ASSUME IInv PROVE LearnsInOrder
    OBVIOUS
  <2>0. Core
    BY DEF IInv, Core
  <2>1. session.open => SessionFits(session)
    BY <2>0, OpenIs
  <2>2. file # NoFile => FileFits(file)
    BY <2>0 DEF Core, FileInv
  <2>. QED
    BY <2>1, <2>2 DEF LearnsInOrder, SessionFits, FileFits, Start
<1>. QED
  BY <1>1, Invariance, PTL

\* The arena of a native stream, planned once by autotune_execution() for the first batch,
\* has room for every batch the loop comes to, unless it is at its ceiling.
THEOREM ArenaIsEnough == Spec => []ArenaSuffices
<1>1. IInv => ArenaSuffices
  BY BatchHasRoom DEF IInv, Core, ArenaSuffices
<1>. QED
  BY <1>1, Invariance, PTL
=============================================================================
