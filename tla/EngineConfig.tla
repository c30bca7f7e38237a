---------------------------- MODULE EngineConfig ----------------------------
(***************************************************************************)
(* How a user's options become the configuration of a running engine       *)
(* (vllm/args.py, vllm/config.py, vllm/structured_output.py and the        *)
(* constructor of vllm/model_runner.py).  vLLM builds its objects in its   *)
(* own order, without the options Arctic adds; the patches hide some of    *)
(* the options from it, put them back, and rebuild what came out wrong.    *)
(***************************************************************************)
EXTENDS Integers, FiniteSets

CONSTANTS
  Degrees,      \* the tensor and sequence degrees tried
  Methods,      \* the speculation methods a user names; None is no name
  Drafts,       \* the draft lengths a user asks of a draft model
  Depth,        \* suffix_cache_max_depth
  MaxSpecLen,   \* vLLM's MAX_SPEC_LEN
  None

DepthAssumption == Depth \in Nat \ {0} /\ MaxSpecLen \in Nat \ {0}

VARIABLES
  asked,        \* the options the user gave: never changed
  args,         \* the EngineArgs: the options and what the patches default
  stage,        \* how far the engine is built
  parallel,     \* the ParallelConfig: tp, sp, shift, backend
  spec,         \* the SpeculativeConfig: method, suffix, drafts, ..., or None
  grammar,      \* XgrammarBackend.num_speculative_tokens
  runner        \* what GPUModelRunner's constructor leaves behind

vars == <<asked, args, stage, parallel, spec, grammar, runner>>

Backends == {None, "uni", "mp"}
Speculations ==
  {None} \cup [method : Methods, suffix : BOOLEAN, drafts : Drafts,
               limit : {None, 8}]
Options == [tp : Degrees, sp : Degrees, shift : BOOLEAN, native : BOOLEAN,
            last : BOOLEAN, backend : Backends, spec : Speculations]

Runnerless == [ulysses |-> FALSE, drafter |-> None, cacheDepth |-> 0]

-----------------------------------------------------------------------------
(* Options (args.py).                                                      *)

DefaultBackend(a) ==
  IF a.sp > 1 /\ a.backend = None THEN [a EXCEPT !.backend = "mp"] ELSE a

Init ==
  /\ asked \in Options
  /\ args = DefaultBackend(asked)       \* EngineArgsPatch.__post_init__
  /\ stage = "args"
  /\ parallel = None /\ spec = None
  /\ grammar = 0 /\ runner = Runnerless

Raise ==
  /\ stage' = "raised"
  /\ UNCHANGED <<asked, args, parallel, spec, grammar, runner>>

\* _is_v1_supported_oracle: vLLM is asked without the methods it does not
\* know, and the speculation is put back.  Other checks of vLLM may refuse.
Oracle ==
  /\ stage = "args"
  /\ stage' = "supported"
  /\ UNCHANGED <<asked, args, parallel, spec, grammar, runner>>

\* vLLM's create_engine_config makes a ParallelConfig: the patch returns an
\* ArcticParallelConfig, with the defaults of the options vLLM does not pass.
\* It resolves the backend from the number of ranks it sees.
CreateParallel ==
  /\ stage = "supported"
  /\ LET a == DefaultBackend(args)
     IN  /\ args' = a
         /\ parallel' = [tp |-> a.tp, sp |-> 1, shift |-> FALSE,
                         backend |-> IF a.backend # None THEN a.backend
                                     ELSE IF a.tp = 1 THEN "uni" ELSE "mp"]
  /\ stage' = "parallel"
  /\ UNCHANGED <<asked, spec, grammar, runner>>

-----------------------------------------------------------------------------
(* SpeculativeConfigPatch.__post_init__ (config.py).                       *)

UseSuffix(s) == s.method = "suffix" \/ (s.method = None /\ s.suffix)
UseHybrid(s) == s.method = "arctic" /\ s.suffix

PostInit(s) ==
  [method |-> IF UseSuffix(s) THEN "suffix" ELSE s.method,
   suffix |-> s.suffix \/ UseSuffix(s),
   drafts |-> IF UseSuffix(s) THEN Depth ELSE s.drafts,
   limit |-> IF s.limit = None /\ (UseSuffix(s) \/ s.method = "arctic")
             THEN 64 ELSE s.limit,
   suffixDrafts |-> IF UseHybrid(s) THEN Depth ELSE 0]

CreateSpeculative ==
  /\ stage = "parallel"
  /\ spec' = IF args.spec = None THEN None ELSE PostInit(args.spec)
  /\ stage' = "speculative"
  /\ UNCHANGED <<asked, args, parallel, grammar, runner>>

\* The second half of create_engine_config: the parallel configuration is made
\* again with the options vLLM left out; ArcticParallelConfig checks them.
\* wrong: the fields of the first configuration are reused as they are
RecreateParallelUnset ==
  /\ stage = "speculative"
  /\ parallel' = [parallel EXCEPT !.shift = args.shift]
  /\ stage' = "configured"
  /\ UNCHANGED <<asked, args, spec, grammar, runner>>

RecreateParallel ==
  /\ stage = "speculative" /\ (args.shift => args.sp # 1)
  /\ parallel' = [parallel EXCEPT !.sp = args.sp, !.shift = args.shift]
  /\ stage' = "configured"
  /\ UNCHANGED <<asked, args, spec, grammar, runner>>

RecreateParallelRaises ==
  stage = "speculative" /\ args.shift /\ args.sp = 1 /\ Raise

\* XgrammarBackendPatch.__post_init__
CreateGrammar ==
  /\ stage = "configured"
  /\ grammar' = IF spec = None THEN 0
                ELSE IF spec.drafts > spec.suffixDrafts THEN spec.drafts
                ELSE spec.suffixDrafts
  /\ stage' = "grammar"
  /\ UNCHANGED <<asked, args, parallel, spec, runner>>

-----------------------------------------------------------------------------
(* GPUModelRunnerPatch.__init__ (model_runner.py).                         *)

Drafters == {"arctic", "mlp_speculator"}
Known(method) == method \in Drafters \cup {"suffix"}

RunnerRaises ==
  /\ stage = "grammar"
  /\ \/ parallel.sp > 1 /\ asked.native
     \/ spec # None /\ spec.suffix /\ ~Known(spec.method)
  /\ Raise

CreateRunner ==
  /\ stage = "grammar"
  /\ ~(parallel.sp > 1 /\ asked.native)
  /\ spec # None => (spec.suffix => Known(spec.method))
  /\ runner' = [ulysses |-> parallel.sp > 1,
                drafter |-> IF spec # None /\ Known(spec.method) /\ asked.last
                            THEN spec.method ELSE None,
                cacheDepth |-> IF spec # None /\ spec.suffix THEN Depth ELSE 0]
  /\ stage' = "ready"
  /\ UNCHANGED <<asked, args, parallel, spec, grammar>>

Next ==
  \/ Oracle \/ CreateParallel \/ CreateSpeculative
  \/ RecreateParallel \/ RecreateParallelRaises
  \/ CreateGrammar \/ CreateRunner \/ RunnerRaises

Spec == Init /\ [][Next]_vars
-----------------------------------------------------------------------------

TypeOK ==
  /\ asked \in Options /\ args \in Options
  /\ stage \in {"args", "supported", "parallel", "speculative", "configured",
                "grammar", "ready", "raised"}
  /\ parallel # None => parallel.sp \in Degrees /\ parallel.backend \in {"uni", "mp"}
  /\ grammar \in Nat
  /\ runner.drafter \in Drafters \cup {"suffix", None}

\* The degrees and the switch the user gave are the ones the model runner and
\* the groups work with, although vLLM's first configuration never saw them.
DegreesReachTheRunner ==
  stage = "ready" =>
    /\ parallel.sp = asked.sp /\ parallel.tp = asked.tp
    /\ parallel.shift = asked.shift
    /\ runner.ulysses = (asked.sp > 1)

\* An engine of several ranks is not given the in-process executor unless the
\* user named it: vLLM counts one rank when only the sequence degree is > 1.
SeveralRanksSeveralProcesses ==
  stage = "ready" /\ asked.tp * asked.sp > 1 /\ asked.backend = None =>
    parallel.backend = "mp"

\* The options that contradict each other, each found by a different object.
Contradictory ==
  \/ asked.shift /\ asked.sp = 1
  \/ asked.native /\ asked.sp > 1
  \/ asked.spec # None /\ asked.spec.suffix
       /\ asked.spec.method \notin Drafters \cup {"suffix", None}

\* Building the engine fails on the options that contradict each other, and on
\* no others, whichever object sees them first.
RefusedExactly ==
  /\ stage = "raised" => Contradictory
  /\ stage = "ready" => ~Contradictory

\* The speculation asked for is the one that runs: vLLM's support check and
\* the parent constructor are shown none, and both give it back.
SpeculationSurvives ==
  stage = "ready" =>
    IF asked.spec = None THEN runner.drafter = None /\ runner.cacheDepth = 0
    ELSE /\ (asked.spec.suffix \/ asked.spec.method = "suffix")
              <=> runner.cacheDepth = Depth
         /\ asked.last /\ asked.spec.method \in Drafters =>
              runner.drafter = asked.spec.method

\* A draft of the suffix tree is shorter than the tree is deep.
LongestDraft ==
  LET suffix == IF runner.cacheDepth < MaxSpecLen THEN runner.cacheDepth
                ELSE MaxSpecLen
  IN  IF runner.drafter \in Drafters /\ spec.drafts > suffix THEN spec.drafts
      ELSE suffix

\* The method whose suffix drafts nobody counts (config.py:105 does it for
\* "arctic" only), although the runner accepts it with suffix decoding.
SuffixUncounted == spec # None /\ spec.suffix /\ spec.method = "mlp_speculator"

\* The grammar can roll back every draft the runner may propose.  It fails for
\* the mlp_speculator method with suffix decoding.
DraftsFitTheGrammar == stage = "ready" => LongestDraft <= grammar
=============================================================================
