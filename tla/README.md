# A formal model of Arctic Inference

This directory holds TLA+ modules that model the control of Arctic Inference and of the Dynasor
proxy it ships: what the code decides, in which order, and what may happen in between. TLC checks
the modules on small instances; for seventeen of them TLAPS proves the main properties for every
value of the constants, among them the refinement of the suffix-decoding cache.

`PROJECT.json` is the index: components, runs, the source lines each definition models, the
hazards the properties are aimed at, the broken variants that show each property can fail, the
disagreements between code and documentation that the runs exhibit, and the theorems.

Run `tlc -config MCSuffixCacheLimited.cfg MCSuffixCache` (and so on for each `.cfg`; the module is
in the table of section 3) to check an instance, `tlapm SuffixCacheProofs.tla` (and so on for each
module of section 4) to check the proofs.

Contents: 1 inventory, 2 modules, 3 runs, 4 proofs, 5 other disagreements found, 6 what is not
modelled, 7 plan.

## 1. Inventory

| Part | State it keeps | Operations | What is hard |
|---|---|---|---|
| `SuffixDecodingCache` (`suffix_decoding/cache.py`) | a local tree per active request, one global tree, two maps between requests and sequence ids, the id counter | `start_request`, `add_active_response`, `stop_request`, `evict_cached_response`, `speculate` | ids wrap around; three removal paths; responses evicted under running requests |
| `SuffixTree` (`csrc/suffix_decoding/suffix_tree.cc`) | a heap of nodes, the sequences, the active nodes of each sequence | `append`/`extend`, `remove`, `speculate` | path compression keeps changing nodes that other sequences point at; references into removed sequences |
| siblings and groups (`suffix_tree.cc`) | two linked lists per node | insert, remove, replace, increment, decrement | raw pointers between groups owned by shared pointers |
| `Int32Map` (`int32_map.h`) | an open-addressing table with tombstones | find, emplace, erase, rehash | a full table, tombstone reuse |
| simulator (`suffix_decoding/simulator.py`) | the cache, the examples still to do | cache, evict, replay | verifying a tree of drafts |
| model runner, speculation (`vllm/model_runner.py`) | suffix cache, drafts | one step per batch: report, propose | requests that leave and re-enter the batch; two sources of drafts |
| model runner, shift parallelism (`model_runner.py`, `ulysses.py`) | the current mode, group and model; the captured graphs | profile, load, capture, execute | globals swapped in nested scopes; graphs captured by one rule and looked up by another |
| process groups (`ulysses.py`) | the TP, PP, DP, EP, SP and SP_TP groups | initialise, destroy, `UlyssesAttention.forward` | rank arithmetic, transposes |
| executor (`ulysses.py`) | one process per rank | create, wait for READY, connect, terminate | workers that fail at any moment of the start |
| configuration (`args.py`, `config.py`, `structured_output.py`) | the options of Arctic beside vLLM's objects | create the configurations | hidden options put back, objects built too early |
| patching (`patching.py`, `plugin.py`, `patches.py`) | patched classes, by process | `apply_patch`, load plugins | forked, spawned and in-process engines |
| draft models (`spec_dec/`) | weights, static buffers, CUDA graphs, sharded vocabulary | load, `prepare_hidden_states`, `propose`, `generate_proposals` | graphs replayed for other calls; flat tensors of many rows; ranks must agree |
| SwiftKV (`swiftkv/llama_swiftkv.py`) | weights under two modes, the KV cache, attention metadata | load, forward | the batch shrinks half-way and the metadata is rewritten |
| `ReplicaManager` (`embedding/replica_manager.py`) | per replica: health and load; the round-robin index | `start`, `stop`, `route_request`, health loop, `GetReplicaInfo`, the command lines | coroutines interleave at every RPC; answers arrive late |
| replica and client (`replica.py`, `client.py`) | the engine's requests, one task per prompt | Encode, Abort | calls with the same id, calls given up half-way |
| Dynasor proxy (`dynasor/openai_server.py`, `naive_client.py`) | the stream, the probe task, the window of answers | stream, probe, end early | the probe runs beside the stream |
| Dynasor chain of thought (`cot.py`, `evaluator.py`, `entropy.py`) | prompt, answers | rounds, reading and comparing answers, voting | an answer is of the round before; answers written in many ways |
| Dynasor launcher (`vllm_server.py`) | two processes | start, poll, watch | either dies at any moment |
| bindings, statistics, kernels, build of the operators, the older runner | | | not modelled, see section 6 |

How they interact. A user's options become the configuration of an engine, whose executor starts a
worker per rank; every process loads the plugin that patches vLLM. A worker builds the process
groups, loads the model twice (the base model and the shift model) and captures graphs of both.
For each batch the model runner picks one of the two models; SwiftKV models let only the sampled
tokens go on behind a layer. After the batch the runner calls the suffix cache (start for a new
request, one report of the accepted tokens, stop for requests that have left the batch), and asks it
or the draft model for the drafts of the next batch. The cache calls its trees synchronously, so
there is no concurrency inside it and every call is one action. The replica manager is one asyncio
process between clients and replica processes; it interleaves at each await of an RPC, as a replica
does at each await of its engine. The Dynasor proxy is an asyncio generator beside a probe task.

What makes each part correct:

* cache - a response is exactly what its own request has reported since it was opened, no id is
  shared, nothing stays in the tree without an owner, the limit holds and is first-in first-out,
  a running request never loses its id to the wrap-around;
* tree - the count of a node is the number of occurrences of its n-gram; pointers, references and
  endpoints stay valid under removal; paths are compressed; siblings are ordered by count;
* drafts - the tokens and probabilities are those a direct count of n-grams gives, and the best of
  them is returned; a draft fits behind its row, comes from the row's own state, and all ranks agree
  on it;
* engine - options reach what they configure; groups partition the ranks and give a rank the same
  heads in both modes; a batch finds a graph of the model that runs it; modes are restored
  whatever raises; no start leaves a process behind;
* manager and replica - load is requests in flight; the policies do what they are named for; health
  converges to the truth; every request is answered, with its own embeddings;
* Dynasor - the client gets the model's stream; it is cut only on answers that agree and are
  certain; the answer written at the end is the one the evaluator reads.

## 2. Modules

| Module | Models | Relation |
|---|---|---|
| `ResponseCache` | what the cache promises: active requests and whole responses | abstract specification |
| `SuffixCache` | `cache.py` but `speculate` | implements `ResponseCache` (`ImplementsResponseCache`) |
| `SuffixCacheProofs` | theorems about `SuffixCache` | extends it |
| `CacheSpeculate` | `speculate` of `cache.py` and of `suffix_tree.cc`, over any drafts | `Speculation` says what a tree drafts |
| `SiblingMoves` | where a child moves when its count changes, over a sequence | operators used by the lists and by `SuffixTree` |
| `SiblingOrder` | the list of siblings as a sequence | abstract specification |
| `SiblingOrderProofs` | a theorem about `SiblingOrder` | extends it |
| `SiblingList` | the two linked lists, pointer by pointer | implements `SiblingOrder` |
| `KeyMap` | a finite map | abstract specification |
| `Int32Map` | `int32_map.h`, slot by slot | implements `KeyMap` |
| `SuffixTree` | `append`, `remove`, `_match_context` | uses `SiblingMoves`, which `SiblingList` justifies |
| `Speculation` | `_speculate_path`, `_speculate_tree`, `speculate` | extends `SuffixTree` |
| `Simulator` | `process_task` of `simulator.py` | - |
| `SpecDecodeStep` | the runner's reports to the cache and its choice of drafts | - |
| `SpecDecodeStepProofs` | theorems about `SpecDecodeStep` | extends it |
| `DraftRows`, `DraftGraphs` | `ArcticProposer`; `generate_proposals` of both draft models | - |
| `VocabShards`, `SpeculatorWeights` | the sharded vocabulary and the next token; the tied weights | - |
| `SwiftKVForward`, `SwiftKVWeights` | one forward pass; building and loading | - |
| `ShiftParallel` | mode, group and model in nested scopes | - |
| `BatchRouting` | model, padding and graph of a batch | - |
| `RankGroups` | process groups and `UlyssesAttention.forward` | - |
| `ExecutorStart` | `_init_executor` and its workers | - |
| `EngineConfig`, `Patching` | options to configurations; plugin and patches | - |
| `ReplicaManager`, `ReplicaCommand` | `replica_manager.py`; the command line of a replica | - |
| `Replica` | `replica.py` with its clients | - |
| `EmbeddingProofs` | theorems about `ReplicaManager` and `Replica` | extends the first, instantiates the second |
| `DynasorProxy`, `DynasorServers` | a streaming request; the launcher | - |
| `CotRounds`, `Answers` | the rounds; reading and comparing answers | - |
| `MCSuffixCache`, `MCSpeculation`, `MCReplicaManager` | instances for TLC | extend the module they are named after |
| `MCSuffixTree`, `MCReplicaPolicies`, `MCDrafting`, `MCEngine`, `MCReasoning` | several instances side by side | instantiate the modules above (all but `MCDrafting` extend one of them) |
| `DraftingProofs` | theorems about `CacheSpeculate`, `DraftGraphs`, `DraftRows`, `SpeculatorWeights`, `SwiftKVWeights`, `SwiftKVForward` | instantiates them; `MCDrafting` extends it |
| `EngineProofs` | theorems about `ShiftParallel`, `BatchRouting`, `Patching`, `ExecutorStart` and `MCEngine` | extends `MCEngine` |
| `ReasoningProofs` | theorems about `DynasorProxy`, `CotRounds` and `MCReasoning` | extends `MCReasoning` |

The layers are the ones of the code. `SuffixCache` sees a tree as the sequences it holds: that is
sound because `SuffixTree` shows that the tree answers exactly the n-gram counts of its sequences,
whatever was appended and removed. `SuffixTree` sees the siblings as a sequence that
`SiblingMoves` permutes and its maps as functions; `SiblingList` shows that the pointers do exactly
these moves, `Int32Map` that the table is a function. `SpecDecodeStep` and `Simulator` see of the
cache what `SuffixCache` shows about it, and of a draft only that it is within the limit asked for,
which `CacheSpeculate` shows; `CacheSpeculate` leaves open which ends of the context a tree holds
and what it drafts for each, which `Speculation` computes.

**Several components in one run.** Modules that share no state are checked side by side: an MC
module instantiates each of them, a variable (`part`, or `policy`) picks in the initial state the
one that runs, and the variables of the others rest at `Idle` (or at a value of their own initial
state). The behaviours are thus the disjoint union of those of the instances; nothing is composed
and nothing is lost. A property of such a module names, under `part = ...`, the properties of the
instance; fairness is that of the instance while it runs. Where a part is proved about, its constants
are constants of the MC module too, with values in the `.cfg`, so that one instance serves the run
and the theorem. A module of proofs that is instantiated (`SpecDecodeStepProofs` in `MCDrafting`) or
extended brings its theorems along; `MCDrafting` ends with the seven that follow for its own
behaviours.

Definitions named `...KeepingOwner`, `Stuck...` and so on, each under a comment that says it is
wrong or broken, are plausible mistakes in one definition; `PROJECT.json` pairs each with the
property that notices it. No specification uses them. Some properties state what a document says
and the code does not do: section 5 lists them.

### SuffixCache and CacheSpeculate

`local[r]` is the token sequence in r's entry of `_local_trees`, `None` when r is not active.
`cache.req` and `cache.seq` are `_req_to_seq_id` and `_seq_to_req_id`, `cache.older` the insertion
order of the former as a set of pairs, `cache.tree` the sequences of `_global_tree`, `nextSeqId`
is `_next_seq_id`. One action per method. `StartRequest` composes the steps of `start_request` in
their order: evict the request's own response (`EvictFrom`), search an id (`FirstUsable`), take it
over from a finished request (`ReclaimSeqId`), record it (`AssignSeqId`), evict what exceeds the
limit (`Overflow`, `EvictFrom`). Calls that raise `ValueError` change nothing and are no steps. An
absent sequence and an empty one are the same, as for `SuffixTree::remove`. `CacheSpeculate` is one
call of `speculate` with every combination of arguments, omitted ones included: the errors, the cut
of the context, in each tree the loop over ever longer ends of the context, a turn at a time, and
the choice between the two drafts. What a tree drafts for an end is an input: any number of tokens
within the limit with any sum of probabilities (in halves); an empty draft has the score 0 and may
replace another empty one, as the code's `>=` has it.

### SuffixTree, Speculation, the containers

A node is a record in `heap` with the fields of `struct Node` (an endpoint of 0 stands for none, a
real one is positive; `order` is the siblings list). `AppendToken` runs the whole loop of `append`
over the active nodes; its six cases are `GrowLeaf` (1a), `AddChild` (1b), `FuseWithChild` (2a),
`ShiftBoundary` (2b), `EnterChild` (3a) and `SplitChild` (3b). `RemoveSequence` runs the whole loop
of `remove`; the leaf and the endpoint it picks "arbitrarily" depend on hash-map iteration order,
so `HeapsWithout` is the set of all heaps that may result. The root's endpoint is left out: it is
set at the start of `append`, erased in its last step and read by nobody else.

`Speculation` reads drafts off the state. Probabilities are exact fractions where the code has
floats, so it says nothing of rounding; ties in the priority queue are all explored. A tree draft
walks the siblings in their order and stops at the first improbable one, as the code does. `Int32Map`
keeps the slots with their tombstones and chooses the hash function in its initial state, so that
every pattern of collisions is met; a probe that would never end is a value of its own.

### The step: SpecDecodeStep, Simulator

`SpecDecodeStep` has two actions: the scheduler (vLLM's) builds any batch of running requests, and
the runner does, in the order of the code, `_update_suffix_cache` and the proposal (suffix, draft
model, or both). A token is its position in its request, which tells apart everything the reports
may get wrong. `numTokens` keeps the entries of rows long gone, as the runner's array does.
`Simulator` is one task: which examples are trained on, how they are evicted, the walk over a tree
of drafts; the responses, the drafts and the choices of the random generator are inputs.

### The draft model

`DraftGraphs`: a row of a buffer is the call its content comes from, so that stale rows show. Which
of the two models it is, and whether it runs eagerly, is chosen in the initial state.
Capturing a graph runs no kernel, as in CUDA; what such a call returns, and what a replay returns for
heads its graph does not have, is therefore known to be of no call (section 5). `DraftRows`: the flat tensor of hidden states and
the rows left out of the draft. `VocabShards`: a weight row is the token it belongs to; the
embedding and the mapping of gathered logits are computed for every token, and then the choice of
every rank from any scores: one or two tokens may be highest, all scores above or below that of a
padding row, and `topk` may take either of two equal ones. `SpeculatorWeights`: a parameter holds the names of the weights copied into it.

### SwiftKV

`SwiftKVForward` follows one batch through the stages of the code, with `meta` the attention
metadata and `states` the rows of the hidden states, each named by its token; FlashAttention and
FlashInfer rewrite the metadata differently, by actions of their own, and the backend is chosen in
the initial state. `torch.argsort` may leave equal keys in any order. Kernels are what they read and
write: a row that attends to a page or a slot of another request is seen. `SwiftKVWeights` has a
matrix's part as the group and rank it was cut by.

### Parallelism and start-up

`ShiftParallel` runs an operation of the runner one step at a time; every step may raise, which
unwinds the scopes. `BatchRouting` captures the graphs of both models and then executes any batch, with the adaptive
rule or without.
`RankGroups` chooses the degrees, cuts the groups out of the array of ranks as the code does, and
computes both all-to-alls on symbolic elements. `ExecutorStart` has an action for each step of the
executor and of a worker; a worker may die in any of its states. `EngineConfig` takes every
combination of options through the constructors in vLLM's order. `Patching` has the user's process,
an engine core and workers, forked, spawned or in one process.

### ReplicaManager, ReplicaCommand, Replica

An RPC is two actions: its reply is fixed (`RequestReply`, `CheckReply`, `InfoReply`), and later
the coroutine that awaits it resumes (`RequestResume`, `CheckResume`, `InfoResume`). Between the
two anything else may happen, which is how an answer becomes stale. A client may cancel its
request at the await (`RequestCancelled`: only the `finally` clause runs). A replica process
(external) loads, works, lets RPCs time out or is gone for good; the manager never starts one
again. `skipped` is a history variable. The moment between the end of `stop` and the end of the
gRPC server, when a request could still meet a closed channel, is not modelled: after `Stop` no
request arrives.

In `Replica`, `call` is the coroutine of `Encode` for a client's call, `task` the tasks it makes,
`llm` (in `MCEngine`; `engine` in the module) the requests vLLM works on, by the name the code
gives them: that two calls with one id make the same names is the point of it.

### Dynasor

`DynasorProxy`: handling a chunk is one action, since the generator runs without interruption from
one yield to the next; the model, the probe task and the client act in between. With
`Program = "naive"` the same module is the example client, which probes beside its own request.
`CotRounds` is one call; `Answers` works on texts whose tokens are braces, boxes and characters,
and on answers by kind. `DynasorServers` has the main process, its two children and one request.

## 3. Runs

| Run (`cfg` / module) | Instance | Shows |
|---|---|---|
| `suffix_cache_limited` (`MCSuffixCacheLimited` / `MCSuffixCache`) | 3 requests, 4 ids, limit 2, 2 tokens per local tree | types, maps, no orphan, trees agree, FIFO, refinement of `ResponseCache` (that the limit holds is proved) |
| `suffix_tree` (`MCSuffixTree`) | the tree: 3 sequences, 2 tokens, depth 3, 5 tokens in all; the siblings: 4 children, counts to 4; the hash map: 5 keys, 2 patterns of collisions | counts, active nodes, references, endpoints; refinement of `SiblingOrder` and of `KeyMap`, with what the pointers and slots need for it |
| `speculation` (`MCSpeculation`) | 2 sequences, depth 4, 5 tokens in all, drafts of 2, factor 3/2, offset -1/2, probability 1/3 | compression, asserts of `append`, drafts are what counting says |
| `drafting` (`MCDrafting`) | 13 instances, below | from the batch to the drafts |
| `engine` (`MCEngine`) | 9 instances, below | the engine around the model |
| `reasoning` (`MCReasoning`) | 4 instances, below | Dynasor's requests and answers |
| `replica_policies` (`MCReplicaPolicies`) | least loaded: 2 replicas, 2 requests; round robin: 3 replicas, 1 request, no `GetReplicaInfo` | load is requests in flight, fewest active picked, turns are taken |
| `replica_manager_live` (`MCReplicaManagerLive` / `MCReplicaManager`) | 2 replicas, 1 request, random, no prompts | liveness, types |
| `replica_manager_prompts` (`MCReplicaManagerPrompts` / `MCReplicaManager`) | least loaded, 2 prompts per request | **violated**: the load leaks |
| `batch_routing_adaptive` (`BatchRoutingAdaptive` / `BatchRouting`) | as in `engine` | **violated**: a batch finds no graph |
| `dynasor_probe_failure` (`DynasorProxyProbe` / `DynasorProxy`) | 4 chunks, a probe every second one | **violated**: a failed probe ends the client's stream |
| `draft_graph_heads` (`DraftGraphsHeads` / `DraftGraphs`) | batches of 1, 2 and 4, 3 heads | **violated**: a graph of few heads is replayed for more |

Instances of `drafting`:

| Instance | Bounds |
|---|---|
| `hybrid`, `arctic`, `suffix` (`SpecDecodeStep`) | 2 requests, `max_model_len` 6, up to 2 tokens sampled by a row, drafts of 2 |
| `cache` (`SuffixCache`) | 3 requests, 3 ids, no limit: the wrap-around |
| `lookup` (`CacheSpeculate`) | trees of depth 3, contexts to 4 tokens, limits to 2; every draft for every end |
| `graphs` (`DraftGraphs`) | both models, eager or not; batches of 1, 2, 5, 6 and 7 of up to 7; 3 heads, 2 of look-ahead |
| `rows` (`DraftRows`) | 3 rows, drafts of 2 |
| `shards` (`VocabShards`) | SP of 1 and 2, TP of 1, 2 and 4, up to 4 ranks; 5, 7 and 8 tokens, 0 or 3 added, padded to multiples of 2 and 4; scores above and below 0, with ties |
| `drafter` (`SpeculatorWeights`) | 1 to 3 heads, tied or not, both checkpoints' name styles |
| `layers` (`SwiftKVWeights`) | 2 layers, the second behind the cut |
| `pass` (`SwiftKVForward`) | both backends; up to 3 requests of 1 or 2 tokens and 1 or 2 pages, 6 blocks, graphs to 4 rows |
| `decode`, `task` (`Simulator`) | 1 example of 3 tokens with every tree of drafts; 4 examples of 1 token with every strategy, fraction and limit |

Instances of `engine`: `routing` (capture sizes 1, 2, 4, SP 2, threshold 4, 12 tokens, one batch
after the capture), `modes` (2 layers), `ranks` (degrees 1 to 4, to 16 ranks), `config` (degrees 1
and 2, five methods or none named), `command` (up to 4 options, a value in a word of its own or not), `start` (4 workers, 2 deaths), `replica` (2
calls with one id, 2 prompts each, 1 abort), `servers`, `patching` (4 processes, 2 workers).
Instances of `reasoning`: `chat` (4 chunks, 2 answers, windows 1 and 2, intervals 0 to 2), `naive`,
`rounds` (7 tokens in rounds of 2, threshold 2), `answers` (texts of 6 tokens, groups of 3).

Why the bounds are enough. Two ids more than the limit and one more than the requests let the
counter go round with a finished, a running and an evicted request in the way at once
(`MaxLen` bounds the tokens of a request; a second batch only lengthens a sequence already told
apart). In the tree, five tokens with depth 3 exercise all six cases of `append`, the window
moving past `max_depth`, n-grams that repeat within one sequence and across three, and removal
from every such tree; depth 4 is the first at which nodes of three tokens are split and shifted.
(With two sequences, depth 3 and six tokens in all the same properties hold too: half a million
states.) Four children with counts up to four give every shape of neighbouring groups: a
group before, a group after, at either end, of one child and of several. Five keys fill a table of
the least size beyond its load factor, so that it grows, is cleaned and shrinks. Two requests and
two replicas give every overlap of reading and writing a load; three replicas are the fewest at
which the round-robin index can point beyond, at and before a replica that leaves. `MaxLoad` bounds
the load that routing may reach and cuts only the run in which the load leaks. `NumSeqIds` is never
below the number of requests: with fewer, the search of `_generate_seq_id` would not end (with
2^31 ids this needs 2^31 running requests). In a batch, two requests are enough for one to leave
and return while the other stays, and three rows (of `DraftRows`, of `SwiftKVForward`) are the
fewest for which a permutation differs from its inverse. The ends of a context a tree may hold are
none, one or two of three tokens, enough for a later draft to be better than, equal to or worse than
one before, in either tree. The vocabularies include those that
divide over the ranks, that leave one shard partly filled and that leave one empty; the layouts
include one with SP above TP, of which only the mapping is claimed (section 5 says why). A batch of
`BatchRouting` finds nothing of the one before it but the graphs, so one suffices. Degrees up to
four include one that is not a power of two and every pair that divides or does not. Two workers
that die leave every mixture of states behind at a failed start. Four chunks admit a probe
launched, one wished for while it runs, and an answer after the end.

`CHECK_DEADLOCK FALSE` is set where the system ends: a manager may stop or fail to start, a task,
a stream, a start or an evaluation is over when it is over. In `suffix_*` and
`speculation` deadlock is checked.

Fairness.

* `ReplicaManager` (`FairSpec`). Every RPC the manager makes has a timeout, so its reply is fixed in
  time; the event loop resumes every coroutine whose RPC is over; the sleep of the health loop
  ends. Hence weak fairness of the replies, of the resumptions and of `StartChecks`. Nothing is
  assumed of clients, of `GetReplicaInfo` calls or of the replica processes. `DeadLeavesRotation`
  and `RecoveredReturns` are conditional on the process staying down or up for good while the
  manager runs, which no fairness forces. A working replica may still answer a request with an
  error (`Encode` raises for a request without prompts, or when the engine does), which marks it
  unhealthy; so `RecoveredReturns` promises rotation again and again, and for good only once its
  calls stop failing.
* `Replica`. The event loop runs every task that can run and the engine answers what it was given;
  clients may send, give up or abort or not.
* `ExecutorStart`. The executor's thread and the living workers keep running. A worker that dies
  when nobody watches its pipe leaves the executor waiting: `DiedUnwatched` excuses just that.
* `DynasorServers`. The main process goes on, and a server that starts comes up or dies; healthy
  servers need never die. `requests.get` has no timeout here: a poll is assumed to be answered.
* `Simulator`. A task goes on.

What the violated runs mean.

* `replica_manager_prompts`: `current_load` goes up by the number of prompts and down by one, so it
  is not the number of active requests as the comment and the README of the package say, and under
  `least_loaded` a replica that has served requests of several prompts is avoided ever after.
* `batch_routing_adaptive`: with the adaptive rule a batch above the threshold may go to the shift
  model, for which only graphs up to the threshold were captured, although the docstring of
  `_capture_cudagraphs` promises that both models have the graphs they need. The run's instance is
  that of `engine`, where the property holds of all other batches. The rule is on by default.
* `dynasor_probe_failure`: an error of the background probe is raised inside the client's stream,
  which ends without `[DONE]`; the docstring promises to stream the decoding back.
* `draft_graph_heads`: a graph of the draft model is kept by its batch size alone. Captured for one
  token (near `max_model_len`), it is replayed when two are asked for, and the second draft of every
  row is what the buffer held before: drafts of an earlier call, or memory nobody has written.

## 4. Proofs

Each theorem is about the same `Spec` that TLC runs. The assumptions on the constants are ASSUMEs of
the module (`SuffixCacheAssumption`, `ReplicaManagerAssumption`, `ShiftParallelAssumption`,
`DynasorProxyAssumption`) or, where TLC instantiates the module, definitions that the MC module
ASSUMEs of its instances and the theorem names as its hypothesis (`SpecDecodeStepAssumption`,
`ReplicaAssumption`, `WorldAssumption`, `PatchingAssumption`, `BatchRoutingAssumption`,
`CacheSpeculateAssumption`, `DraftGraphsAssumption`, `DraftRowsAssumption`,
`SpeculatorWeightsAssumption`, `SwiftKVWeightsAssumption`, `SwiftKVAssumption`). They say that a
limit is a number, that `None` is no value, and the like; the bounds of TLC's instances are none of
them.

Two hypotheses say more. `SelectedTokensStayTheirs` needs `NumBlocks # 2` (`ShapeIsTold` in
`MCDrafting`): the layout of the cache is guessed from its second extent, and a FlashAttention cache
of two blocks looks like one of FlashInfer; TLC finds the tokens in the wrong cells. `EveryGraphIsThere` needs `WellSized`: a threshold that is
one of the capture sizes (or 0), sizes whose multiples of SP are within
`max_num_batched_tokens`, and, where there are full graphs, sizes of decodes that fit
`max_num_seqs` on every rank. For each of its conditions TLC finds, without it, a configuration in
which a batch is dispatched to a graph that nobody captured; section 5 lists it. The run
`engine` satisfies it. The adaptive rule, which the code has on by default, is no part of it: the
theorem is for both settings, but promises nothing about the graph of a batch that this rule puts on
the shift model (`RoutedAdaptively`), of which `batch_routing_adaptive` shows one that is missing.

| Module | Theorem | States, whatever happens |
|---|---|---|
| `SuffixCacheProofs` | `TypeCorrect`, `MapsStayInverse`, `NoSequenceOrphaned` | the maps are inverse and no sequence is without owner |
| | `CapacityNeverExceeded`, `EvictionIsFifo` | the limit holds; what leaves for it is older than what stays |
| | `AgesAreAnOrder` | the insertion order is a strict total order on what is cached |
| | `UnlimitedKeepsSeqIds` | without a limit a running request keeps its id through every wrap-around |
| | `ResponseIsTailOfLocal` | the response cached for a running request is the tail of its local tree |
| | `CacheImplementsResponseCache` | the refinement of `ResponseCache` |
| `SiblingOrderProofs` | `ChildrenStaySorted` | the list holds each child once, in order of decreasing count |
| `EmbeddingProofs` | `ManagerTypes` | no load is negative, the round-robin index is in range |
| | `LoadCountsRequests`, `LeastLoadedIsFewest` | with one prompt per request, the load is the number of requests in flight and `least_loaded` picks the fewest |
| | `LoadNeverTooLow` | with one prompt or more, the load leaks only upwards |
| | `RoundRobinIsFair` | while the healthy replicas stay the same, a replica is passed over at most once per other |
| | `CallsAreKeptApart` | answers are complete, the engine's work has a caller, tasks do not share a request |
| `EngineProofs` | `ModesAreSound` | mode, group and model agree in every scope and are restored outside all of them |
| | `EveryWorkerIsPatched` | a worker runs with every patch or, without the plugin, with none; nothing is patched twice but by a second worker in a process |
| | `EveryGraphIsThere` | a batch that the threshold decides on, and without the adaptive rule any, finds the graph it is dispatched to, captured of the model that runs it; the slices of the ranks cover every batch |
| | `StartLeavesNoOrphans` | a failed start leaves no process; nobody serves before all are heard |
| | `EnginePatchesOnce`, `EngineDispatches` | `PatchedOnce` and `DispatchSound`, of the run `engine` |
| `ReasoningProofs` | `ProxyKeepsTheStream` | probes one at a time and in order; the client has the chunks read so far, each once and in order, with an early answer only behind certain answers that agree |
| | `RoundsCloseOnAgreement` | the text passes `max_tokens` by less than a round, nothing is held back, and only answers that agree and are certain close a call |
| | `RoundsOfEveryCallAgree` | `RoundsAgree`, of the run `reasoning` |
| `SpecDecodeStepProofs` | `ReportsFollowTheBatch` | a local tree is its request's prompt and tokens since its start; only requests of the batch have one |
| | `DraftsFitTheModel` | no draft goes beyond `max_model_len`; one method per step |
| `DraftingProofs` | `BetterDraftReturned` | a draft that `speculate` returns has the highest score of all drafts of both trees for the ends of the context, the longest match among equals of its tree, and is within the limit |
| | `GraphsAnswerTheirCall` | the heads computed for a call (not those beyond a replayed graph's, and none in a capturing call) give tokens of its own rows; the LSTM's capturing calls return zeros; no batch overruns a buffer |
| | `EveryRowGetsItsDraft` | a row is drafted for from the hidden state of its own last accepted token, and the draft goes back to it |
| | `DrafterHasItsWeights` | every head and every gate of a draft model computes with the weights trained for it |
| | `SelectedTokensStayTheirs` | the rows of a SwiftKV pass are their requests' tokens, with their slots and pages, whatever the sort does with equal keys; dropped tokens are cached; results go back to their tokens |
| | `LayersAreLoaded` | each shard of a SwiftKV model's parameters is copied once, under the group it was cut for |
| `MCDrafting` | `CacheIsReported`, `DraftsSuit`, `EngineFindsTheBestDraft`, `EngineDraftsFromItsRows`, `EngineDraftsForItsRows`, `EngineLoadsItsWeights`, `EngineKeepsRowsTheirs` | `CacheFollowsBatch`, `DraftsSuitTheBatch`, `LookupFindsTheBest`, `ComputedProposalsAreTheirs`, `DraftsFollowTheirRow`, `WeightsReachTheirModules` and `SelectedRowsKeepTheirRequest`, of the run `drafting` |

**The cache.** The inductive invariant is `IInv == TypeOK /\ Consistent(cache)`, where `Consistent`
is the conjunction of "the maps are inverse" and "an id without owner has no sequence". Neither
conjunct is inductive alone: an eviction looks the id up in one map and pops it from the other, and
an id that is reclaimed must not bring an old sequence to its new owner. `StartRequest` runs through
intermediate records, so the argument is about records: each helper (`EvictFrom`, `ReclaimSeqId`,
`AssignSeqId`) keeps an arbitrary consistent record consistent, and `StartConsistent` composes
them. The capacity bound needs that only finitely many requests are cached at a time, which follows
from the injection of cached requests into the finite id space. The refinement rests on `Keeps`:
each helper leaves the response of every other request as it is or drops it whole. First-in
first-out needs `AgesAreAnOrder`: `Overflow` names the oldest responses only if any two of them can
be compared and the comparison is transitive; each helper is shown to keep `Ordered`.
`ResponseIsTailOfLocal` is inductive beside `IInv`, but `StartRequest` keeps it only because the
request's own earlier response was evicted before an id was searched.

**The order of the children.** `suffix_tree.h` promises children in order of decreasing count, and
`_speculate_path` follows the first one. A count changes by one, and the child moves past its whole
group of equal counts at once: it lands next to children whose counts differ from its old one, hence
by at least one. The proof reads each move position by position (`MovedUpAt`, `MovedDownAt`,
`WithoutAt`), shows that it rearranges the list, and then compares the counts at two positions of
the new list, with the case of the child that moved on either side (`RaiseSorts`, `LowerSorts`).
That a group has a first and a last position comes from the well-foundedness of the order on `Nat`.

**The replica manager.** `LoadIsActiveRequests` is inductive beside `TypeOK` when
`SinglePrompts` holds (finitely many requests, each with one prompt): a step adds to or takes from
`InFlight` of one replica exactly what it adds to or takes from its load. The hypothesis cannot go:
the run `replica_manager_prompts` refutes the claim with two prompts. What remains true then is
`LoadCovers`, for any positive numbers of prompts (`SomePrompts`). The turns of round robin rest on
`TurnsInv`: the times a replica was passed over and the turns that are left to it (`TurnsLeft`,
counted round the list of healthy replicas from the index) are together fewer than the healthy
replicas. Counting places in a sorted list is done with cardinalities of sets of smaller replicas.

**Shift parallelism.** What a scope restores depends on what is still to do, so the invariant
(`Nested`) names every combination of open scopes, mode and model, each with the remaining steps it
may have: six shapes. An exception unwinds the same scopes from any of them. `CacheBound` adds that
the KV buffers of both models are the base model's from their allocation on.

**The Dynasor proxy.** `ProbesKeepTheStream` says little of the probe that runs; the invariant adds
that only the last probe runs, that every one but it has been collected (`Collected`), that probes
are of longer and longer texts, and that what was sent is the chunks so far, with a final answer
only behind a window of answers that agree (`Stream`).

**The speculation step.** `IInv` adds to the properties that active requests are of the batch, have
tokens, and started at or before their present length, and that there is one draft per row. The
model draws one length for all its rows, so `DraftsFitModel` needs facts about the least and the
greatest element of a finite set of numbers (`LeastOf`, `MaxOf`), which follow from the
well-foundedness of the order on `Nat`.

**The replica.** An engine request carries the name its call gives it (`OwnNames`), and a task that
waits is of a call that is encoding or has raised (`TasksOf`): hence two calls with one id never
own one request, the second's task fails, and cancelling a call frees what it owns and no more.

**The start.** `StagesAgree`: workers are created in the order of ranks, all were heard before the
queues are connected, and none serves before the last stage. `CleanUp` terminates the workers that
were created: that these are all there are is the first conjunct.

**Patching.** The state of a process is its registry of patched entries, so `PatchingInv` says of each
process what its registry may be at each stage (`Kept`): nothing before the plugins are loaded, the
general patches after, the model runner's from its first worker on. A forked process starts with its
parent's registry and a spawned one with none; both are among the shapes.

**The dispatch.** Three things must meet: the keys the dispatcher knows, the graphs captured, and the
number a batch is padded to. `RoutingInv` fixes keys and graphs by the phase of the start; the rest
is arithmetic. A batch that the threshold decides on: one of the base model is padded to a multiple of SP that is above the threshold
because the batch is; one of the shift model is padded no further than the threshold because
that is a size. The slices cover the batch because the padded number is a multiple of SP. Dummy
requests have the tokens of their shape: sums over sequences are taken apart position by position.

**The search for a draft.** `BestSoFar` says of each tree that the draft kept is the best of those
tried, and the longest match among equals: a turn of the loop keeps it (`TurnKeepsBest`), so it
holds of all of them when the loop is over, and the better of two greatest drafts is the greatest
(`ReturnIsBest`).

**The graphs of the draft models.** A batch uses the graph of its padded size, and two facts make that
safe: `padding_size` never shrinks a batch, and it is monotone, so the largest batch has the largest
padding and the buffers hold it. Both rest on the powers of two; monotony across a power is shown
with the least counterexample, since `BitLength` is a least element itself. The invariant the
properties with one more fact: a captured graph has the rows of its size (`GraphsAreWhole`).

**The rows of the drafts.** The hidden states of all rows lie in one tensor, and a row is found in it by
sums: `FlattenPlaces` says that a sequence of sequences, flattened, holds each at the sum of the
lengths before it, and `CumsumSums` that `Cumsum` is that sum. Both are inductions over positions,
done with the first position at which the claim fails. The answers come back without the rows that
have no token; counting the rows with one up to a given row (`NumValid`) is injective, so an answer
is taken by the row it was made for.

**The rows of a SwiftKV pass.** `PassInv` says of each stage what it has made, by batch alone: which
request a position of the metadata is of, where its rows begin (`Arranged`), which logits index a row
was taken from (`Sorted`). Tokens, logits indices and pages are found by sums, with `FlattenPlaces`
as above. FlashInfer's order names every request once because no request has both one row and
several, and `InOrder` leaves none out (`InOrderHasEach`, by counting the smaller ones). One sort of
the rows is known: the one that moves each behind the new position of its request, in order
(`MovesOneToOne`; that it is one-to-one also shows that the new sums end where the old ones did).
Any other sort of the same keys has the same key at every place, by the pigeonhole principle
(`SortedNoSmaller`), so its rows are of the same request, in some order; and a sort of a permutation
is its inverse, whichever it was (`ArgSortBack`).

**Weights.** `LayersInv` says that what was copied is a tensor of the checkpoint copied to its place
and that every tensor is pending or copied; two tensors never meet in one shard. `SpeculatorWeights`
loads in one step, so the proof is about the tensor that is copied last into each parameter, over
heads that may share one module.

**Rounds.** `RoundsInv` ties the number of answers to the tokens counted so far, the length of the
prompt and what was yielded to both, at each place of the round, and each answer to the length of
the text it was read from.

**From the parts to the run.** The theorems about an MC module say that `[][...]` never changes
`part` and that the other parts rest, so the behaviours with `part = "graphs"` are behaviours of
`Graphs!Spec`, for which the theorem holds.

TLC has checked each inductive invariant on an instance.

**Only model-checked.** The trees and their containers (`SuffixTree` and `Speculation` use recursive
operators; that the pointers of `SiblingList` implement `SiblingOrder`, and `Int32Map` `KeyMap`); the
vocabulary's shards, the simulator; the process
groups, the configurations and command lines, the launcher's servers; Dynasor's reading and
comparing of answers. Liveness under fairness and `ENABLED` are outside the prover's reach and stay
with TLC: `StartEnds`, `CallsEnd`, the manager's and the simulator's. `StartsAndEnds` and
`EveryCallGetsItsOwn` have a safety part, which the theorems about `ExecutorStart` and `Replica`
prove, and a liveness part. So does what a recursive operator computes for every input; an
induction over numbers that an argument needs is done with least elements of sets instead.

## 5. Other disagreements found

While modelling, the following statements of comments, docstrings, help texts and documents turned
out not to be what the code does. Each is kept as a property of its module, which TLC finds
violated when it is checked on a small instance; the listed runs do not check them, or only where
they hold.

| Property (module) | Says | Where the code differs |
|---|---|---|
| `StartRefusedWhenCached` (`SuffixCache`) | `start_request` raises for a cached id | `cache.py:157` evicts and goes on |
| `OnlyInactiveRaises` (`CacheSpeculate`) | `speculate` raises only for a request that is not active | `cache.py:285`: it raises for omitted optional arguments too |
| `RetriedElsewhere` (`ReplicaManager`) | a failed request is retried on another replica | `replica_manager.py:188` answers `UNAVAILABLE` |
| `ReplicaKnowsItsOptions` (`ReplicaCommand`) | a replica is given the options it shares with the manager, without those that are the manager's only | `replica_manager.py:227`: `--num-replicas=N`, in one word, is passed on, and the replica refuses it |
| `ReplicaListensOnItsPort` (`ReplicaCommand`) | "spawn two replicas on 60051, and 60052" (`replica_manager.py:30`) | `replica_manager.py:227`: the manager's own options are left out by comparing whole words, so `--port=60050` stays behind the port the manager chose, and the last one wins. `OptionsReachTheirProcess` says for which command lines |
| `AbortStopsTheCall` (`Replica`) | Abort stops a call | `replica.py:263` aborts the call's id, the engine knows only the prompts' |
| `RequiredGraphsCaptured` (`BatchRouting`) | the shapes are split "so both models have required graphs captured" (`model_runner.py:1099`) | besides the adaptive rule: `model_runner.py:1114`, `:1135`: a batch is padded after its model was chosen, so with a threshold that is no size the shift model is given a padded size above it; with full graphs `:1117` drops shapes above `max_num_seqs`, which a batch of decodes may be padded to |
| `ThresholdDecides` (`BatchRouting`) | the base model above the threshold, the shift model below (`args.py:94`) | `model_runner.py:611`: the adaptive rule |
| `DecodeKeysAdded` (`BatchRouting`) | keys are added for "full decode mode" | `ulysses.py:458`: `sp_size` is set only in the branch of the mixed modes (`:439`), so a decode-only mode raises |
| `ShutdownForgetsGroups` (`RankGroups`) | a destroyed group is forgotten | `ulysses.py:258` keeps it |
| `DraftsFitTheGrammar` (`EngineConfig`) | the grammar can roll back every draft | `config.py:105`: not with the method `mlp_speculator` |
| `LocalHoldsWholeRequest` (`SpecDecodeStep`) | the local tree holds prompt and generated tokens (`docs/suffix-decoding.rst:20`) | `model_runner.py:1020`: a request that was absent starts over without what it had generated |
| `PaddedToMultipleOf4` (`DraftGraphs`) | batches are padded to multiples of 4 | `arctic_speculator.py:45`: to a multiple of a quarter of the next power of two, 1, 2, 3 or 6 among them |
| `PicksAToken` (`VocabShards`) | "Remove paddings in vocab (if any)." (`logits_processor_opt.py:104`) | `logits_processor_opt.py:106`: a shard's logits are cut at the size of the whole vocabulary, which leaves the rows that pad the last shards, with logit 0; where all tokens score below that, one of them is the next token |
| `EmbeddingIsWhole` (`VocabShards`) | "Reduce across all the model parallel GPUs." (`vocab_parallel_embedding.py:431`) | `vocab_parallel_embedding.py:432`: the model is cut over the larger of the SP and the TP group, the sum is formed over the TP group. With SP at most TP it holds, which `drafting` checks |
| `GathersAllShards` (`VocabShards`) | "Embedding parallelized in the vocabulary dimension": the ranks that gather their best hold different shards (`vocab_parallel_embedding.py:183`) | `vocab_parallel_embedding.py:33`: a rank's shard is its number modulo the larger size; when SP exceeds TP and the two share a factor (4 and 2), the ranks of a sequence-parallel group (0, 2, 4, 6) hold two shards twice and the others never |
| `EveryRowIsAttended`, `PrefillTokensCounted` (`SwiftKVForward`) | FlashInfer treats the rows left as FlashAttention does | `llama_swiftkv.py:531`, `:460` |
| `RowsInOrder` (`SwiftKVForward`) | "The attention call works the same for both" (`llama_swiftkv.py:133`) | `llama_swiftkv.py:508`: the sort of FlashInfer's rows is not asked to be stable, so those of one request may change places, while the causal mask goes by position |
| `DroppedTokensAreCached` (`SwiftKVForward`) | the keys and values of all tokens are in the cache, whatever its layout (`[2, num_blocks, ...]` or `[num_blocks, 2, ...]`) | `llama_swiftkv.py:624`: the layout is told by a second extent of 2, which a FlashAttention cache of two blocks has as well |
| `EvictsTheFraction` (`Simulator`) | a fraction of the cached sequences is evicted | `simulator.py:198`: with `newest`, a fraction that rounds to no response evicts all of them (`[-0:]`) |
| `DraftsWithinMaxSpec` (`Simulator`) | drafts are bounded by `max_depth` by default | `simulator.py:227`: `max_depth` is passed whatever `--max-spec-tokens` says |
| `ServerWaitIsBounded` (`DynasorServers`) | the wait for the server has a timeout | `vllm_server.py:88`: it polls for ever while the process lives |
| `EarlyExitIsConsistent` (`Answers`) | the early exit needs consistent answers | `entropy.py:250` |
| `EqualGroupIsAllPairs` (`Answers`) | all answers of a group are equivalent | `entropy.py:108` compares with the first only |

Two more have no property of their own, because they follow from the definitions. The call that
captures a graph of a draft model returns tokens no kernel computed, since a capture runs none
(`arctic_speculator.py:376-392` for the MLP, which returns what its buffers held, memory nobody has
written at first; `:877-910` for the LSTM, which clears them before: `LstmCapturesAreZero`). And a
request whose method is `mlp_speculator` with suffix decoding is exempted from
`OptionsReachTheirProcess` by name (`SuffixUncounted`), for the row on `DraftsFitTheGrammar`.

## 6. Not modelled

* Floating-point rounding of probabilities and scores; overflow of `int64` counts; memory
  exhaustion, exceptions thrown by allocation, `estimate_memory`.
* A `start_request` whose prompt the binding refuses after the local tree was registered
  (`cache.py:153`): the request stays active with an empty tree. The runner passes lists of token
  ids, which the binding takes.
* CUDA kernels, FP8 quantisation (`fp8.py`) and the arithmetic of layers: data-parallel numeric
  code without control. Building the native operators (`op_builder`) and the Python bindings: glue.
* `model_runner_old.py`: imported by nobody. `stats.py`: counters read by the log only.
* Of the model runner: multi-modal inputs, pipeline stages within a step, data-parallel padding,
  microbatching, vLLM's own draft methods.
* Of SwiftKV: the branch for profiling and graph capture, cascade attention (switched off).
* `ArcticProposer.load_model`'s checks of the draft model's architecture.
* Of the replica: `HealthCheck` and `GetReplicaInfo` change nothing and are seen from the manager.
  `client.generate` calls a method that neither server has.
* Of Dynasor: the phrase `final answer is $...$. I hope`, which `extract_answer` looks for before it
  looks for boxes (`evaluator.py:363`) and the texts of `Answers` are without; formatting of requests
  and headers, the entropy logs, `strip_string` and the text normalisation it does, matrices, the process with a time limit around `math_equal` and
  `util.with_cancellation`, which nothing in the repository asks for.
* Of the simulator: reading and tokenising files, the summary, the pool of processes, a training
  dataset of its own (`--train-dataset`): the split is of one dataset.

## 7. Plan

Done: the components of the inventory, but for what section 6 lists, and the theorems of section 4.
Next, proofs:

1. `SiblingList`: next and previous pointers are inverse and the groups are the runs of equal
   counts, on the way to the refinement of `SiblingOrder`;
2. `KeyMap` and `Int32Map`: that the counters count the slots;
3. `VocabShards`, `RankGroups`: that the shards and the groups partition what they divide is
   nonlinear arithmetic over several degrees, which the provers reach with explicit lemmas on
   quotients and remainders.
