-------------------------------- MODULE Offload --------------------------------
(***************************************************************************)
(* The offloaded backends: gpu_search, gpu_chunked_search with             *)
(* chunked_negamax, and profile_device_batch (src/project3/src/main.cpp).  *)
(*                                                                         *)
(* The host's recursion is a stack of frames.  What the device computes    *)
(* for a node of a tree is its minimax value (module DeviceSearch).        *)
(***************************************************************************)
EXTENDS TargetTree, FiniteSets

CONSTANT ChunkDepths   \* values of --gpu-chunk-depth

ASSUME OffloadAssumption == ChunkDepths \subseteq 1 .. 12

VARIABLES game,
          backend,     \* [chunked, profile, required, chunk]: --backend, options
          device,      \* whether a target region runs on a device
          stage,       \* where the host is
          frames,      \* of its recursion, the innermost last
          returned,    \* what the last call of chunked_negamax returned
          batch,       \* the nodes given to the target region, see Batch
          buffers,     \* device buffers that are allocated
          batchScores, \* the host's vector of scores
          answer       \* [score, move]

hostVars == <<game, backend, device, stage, frames, returned, batch, buffers,
              batchScores, answer>>

Backends == [chunked : BOOLEAN, profile : BOOLEAN, required : BOOLEAN,
             chunk : ChunkDepths]

(* The arguments of the target region: the positions, what depth and ply     *)
(* they are searched with, and whether the score changes sides.              *)
Batch(ps, depth, ply, negate) ==
    [positions |-> ps, depth |-> depth, ply |-> ply, negate |-> negate]

HostFrame(p, depth, ply, alpha, beta) ==
    [position |-> p, depth |-> depth, ply |-> ply, alpha |-> alpha, beta |-> beta,
     tried |-> 0, best |-> -INF, move |-> 0]

None == [score |-> -INF, move |-> 0]

HostInit ==
    /\ game \in Games
    /\ backend \in Backends
    /\ device \in BOOLEAN
    /\ stage = "start"
    /\ frames = << >> /\ returned = 0
    /\ batch = Batch(<< >>, 0, 0, FALSE)
    /\ buffers = {} /\ batchScores = << >>
    /\ answer = None

Keep == UNCHANGED <<game, backend, device>>

Throw == /\ stage' = "error"
         /\ UNCHANGED <<frames, returned, batch, batchScores, answer>> /\ Keep

-----------------------------------------------------------------------------
(* Without root moves to offload: an error if a device is required, the      *)
(* serial search otherwise.                                                  *)
NoMoves ==
    /\ stage = "start" /\ Terminal(game)
    /\ IF backend.required
         THEN Throw
         ELSE /\ stage' = "answered"
              /\ answer' = [score |-> SerialSearch(game, Depth, TRUE).score, move |-> 0]
              /\ UNCHANGED <<frames, returned, batch, batchScores>> /\ Keep
    /\ UNCHANGED buffers

(* The tree of a batch, which may exceed the limit.                          *)
Prepare(tree, b) ==
    IF tree.overflow
      THEN Throw
      ELSE /\ stage' = "allocate"
           /\ batch' = b
           /\ batchScores' = [i \in DOMAIN b.positions |-> 0]
           /\ UNCHANGED <<frames, returned, answer>> /\ Keep

NoDevice == backend.required /\ ~device

(* gpu_search: the trees of all root moves, then the probe of the device.    *)
BuildMoves ==
    /\ stage = "start" /\ ~Terminal(game) /\ ~backend.chunked
    /\ IF NoDevice THEN Throw
       ELSE \E tree \in {MoveTrees(game, Depth, MaxNodes)} :
               Prepare(tree, Batch(game.next, Depth - 1, 1, TRUE))
    /\ UNCHANGED buffers

(* gpu_chunked_search: the probe, then the loop over the root moves.         *)
StartChunked ==
    /\ stage = "start" /\ ~Terminal(game) /\ backend.chunked
    /\ IF NoDevice THEN Throw
       ELSE /\ stage' = "search"
            /\ frames' = << HostFrame(game, Depth, 0, -INF, INF) >>
            /\ UNCHANGED <<returned, batch, batchScores, answer>> /\ Keep
    /\ UNCHANGED buffers

-----------------------------------------------------------------------------
frame == Last(frames)
Searching == stage = "search" /\ UNCHANGED buffers /\ Keep

LoopOver(f) == f.tried = Len(f.position.next) \/ f.alpha >= f.beta

(* The next move of the innermost frame, for chunked_negamax.                *)
Try ==
    /\ Searching /\ ~LoopOver(frame)
    /\ LET f == frame
           p == f.position.next[f.tried + 1]
           w == ChildWindow(f.alpha, f.beta)
           depth == f.depth - 1  ply == f.ply + 1
       IN  CASE depth > backend.chunk /\ Terminal(p) ->
                  /\ stage' = "returned" /\ returned' = StaticScore(p, ply)
                  /\ UNCHANGED <<frames, batch, batchScores, answer>>
             [] depth > backend.chunk /\ ~Terminal(p) ->
                  /\ frames' = Append(frames, HostFrame(p, depth, ply, w.alpha, w.beta))
                  /\ UNCHANGED <<stage, returned, batch, batchScores, answer>>
             [] OTHER ->
                  \E tree \in {ChunkTree(p, depth, ply, MaxNodes)} :
                     Prepare(tree, IF Terminal(p) \/ depth = 0
                                     THEN Batch(<<p>>, depth, ply, FALSE)
                                     ELSE Batch(p.next, depth - 1, ply + 1, TRUE))

(* A value comes back to the frame that asked for it.                        *)
Take ==
    /\ stage = "returned" /\ stage' = "search"
    /\ LET f == frame
           score == -returned
       IN  frames' = [frames EXCEPT ![Len(frames)] =
              [f EXCEPT !.tried = f.tried + 1,
                        !.best  = Max({f.best, score}),
                        !.alpha = Max({f.alpha, score}),
                        !.move  = IF score > f.best THEN f.tried + 1 ELSE f.move]]
    /\ UNCHANGED <<returned, batch, buffers, batchScores, answer>> /\ Keep

GiveBack ==
    /\ Searching /\ LoopOver(frame)
    /\ IF Len(frames) = 1
         THEN /\ stage' = "answered" /\ answer' = [score |-> frame.best, move |-> frame.move]
              /\ UNCHANGED <<frames, returned>>
         ELSE /\ stage' = "returned" /\ returned' = frame.best
              /\ frames' = Front(frames)
              /\ UNCHANGED answer
    /\ UNCHANGED <<batch, batchScores>>

-----------------------------------------------------------------------------
(* The target region.  Without --profile the runtime maps the arrays; with   *)
(* it, profile_device_batch allocates and copies, and any call may fail.     *)
Buffers == {"nodes", "leaves", "scores", "visited", "leaf_visits", "cutoffs"}
Copies == {"scores", "visited", "leaf_visits", "cutoffs"}

DeviceScore(p) == LET v == Minimax(p, batch.depth, batch.ply)
                  IN  IF batch.negate THEN -v ELSE v

Computed == [i \in DOMAIN batch.positions |-> DeviceScore(batch.positions[i])]

Run == Keep /\ UNCHANGED <<frames, returned, batch, answer>>

Map == /\ stage = "allocate" /\ ~backend.profile
       /\ batchScores' = Computed /\ stage' = "fold"
       /\ UNCHANGED buffers /\ Run

Allocate ==
    /\ stage = "allocate" /\ backend.profile
    /\ \E got \in SUBSET Buffers :
          IF got = Buffers THEN buffers' = got /\ stage' = "copy in"
                           ELSE buffers' = {} /\ stage' = "error"
    /\ UNCHANGED batchScores /\ Run

(* release(), then the exception.                                            *)
ReleaseAndThrow == buffers' = {} /\ stage' = "error"

CopyIn ==
    /\ stage = "copy in"
    /\ \/ stage' = "copy out" /\ UNCHANGED buffers
       \/ ReleaseAndThrow
    /\ UNCHANGED batchScores /\ Run

(* Mutant: one copy that succeeds is enough.                                 *)
AnyCopied(copied) == copied # {}

AllCopied(copied) == copied = Copies

(* The kernel, the copies to the host, release(), and only then the errors.  *)
CopyOut ==
    /\ stage = "copy out"
    /\ \E copied \in SUBSET Copies :
          /\ batchScores' = IF "scores" \in copied THEN Computed ELSE batchScores
          /\ stage' = IF AllCopied(copied) THEN "fold" ELSE "error"
    /\ buffers' = {} /\ Run

(* The best of the batch.                                                    *)
Fold ==
    /\ stage = "fold"
    /\ IF backend.chunked
         THEN /\ returned' = FirstBest(batchScores).score /\ stage' = "returned"
              /\ UNCHANGED answer
         ELSE answer' = FirstBest(batchScores) /\ stage' = "answered" /\ UNCHANGED returned
    /\ UNCHANGED <<frames, batch, buffers, batchScores>> /\ Keep

-----------------------------------------------------------------------------
HostNext == \/ NoMoves \/ BuildMoves \/ StartChunked \/ Try \/ Take \/ GiveBack
            \/ Map \/ Allocate \/ CopyIn \/ CopyOut \/ Fold

HostSpec == HostInit /\ [][HostNext]_hostVars

(* Every answer of an offloaded backend has the score and the move of the    *)
(* serial search, and needs a device if one is required.                     *)
AnswerIsExact ==
    stage = "answered" =>
        LET serial == SerialSearch(game, Depth, TRUE) IN
        /\ answer = [score |-> serial.score, move |-> serial.move]
        /\ backend.required => device

(* Only a batch in progress holds device memory.                             *)
BuffersReleased ==
    stage \notin {"copy in", "copy out"} => buffers = {}

(* Every answer of an offloaded backend is the one of the serial search,     *)
(* whatever the chunk depth, and needs no more than the device calls that    *)
(* succeeded; and no search ends, by an answer or by an exception, holding   *)
(* device memory (gpu_search, gpu_chunked_search, profile_device_batch).     *)
OffloadIsExact == AnswerIsExact /\ BuffersReleased
=============================================================================
