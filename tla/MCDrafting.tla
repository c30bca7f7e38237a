----------------------------- MODULE MCDrafting -----------------------------
(***************************************************************************)
(* The speculation of a step, the draft model, the SwiftKV pass and the    *)
(* simulator, for TLC: one or more small instances of each component's     *)
(* module.  A behaviour picks one of them and runs it by its own           *)
(* specification; they share no state.                                     *)
(***************************************************************************)
EXTENDS Integers, DraftingProofs

CONSTANTS
  r1, r2, r3,
  \* SpecDecodeStep
  StepReqs, PromptLen, MaxModelLen, MaxSampled, MaxSpecLen

VARIABLES
  part,  \* the component that runs
  \* SpecDecodeStep
  finished, numTokens, rows, rowLen, local, cached, drafts, since,
  \* SuffixCache
  trees, cache, nextSeqId,
  \* VocabShards
  cfg, scored,
  \* Simulator
  config, phase, train, todo, inCache, atEvict, request, truth, response,
  results

stepVars == <<finished, numTokens, rows, rowLen, local, cached, drafts, since>>
cacheVars == <<trees, cache, nextSeqId>>
lookupVars == <<call, search, result>>
graphsVars == <<kind, eager, graphs, inputs, next, proposal, out>>
rowsVars == <<batch>>
shardsVars == <<cfg, scored>>
drafterVars == <<draftConfig, prefixed, complete, params>>
layersVars == <<mode, pending, loaded>>
passVars == <<backend, tokens, stage, meta, kvCache, states>>
replayVars == <<config, phase, train, todo, inCache, atEvict, request, truth,
                response, results>>
vars == <<part, stepVars, cacheVars, lookupVars, graphsVars, rowsVars, shardsVars,
          drafterVars, layersVars, passVars, replayVars>>

(* Lookup, Graphs, Rows, Drafter, Layers and Pass are of DraftingProofs.   *)
(* The module of the proofs is instantiated so that its theorems are known *)
(* here.                                                                   *)
Hybrid == INSTANCE SpecDecodeStepProofs WITH
  Reqs <- StepReqs, Method <- "arctic", EnableSuffix <- TRUE, NumSpec <- 2, DisableBy <- 2
Arctic == INSTANCE SpecDecodeStepProofs WITH
  Reqs <- StepReqs, Method <- "arctic", EnableSuffix <- FALSE, NumSpec <- 3, DisableBy <- 2
Suffix == INSTANCE SpecDecodeStepProofs WITH
  Reqs <- StepReqs, Method <- "suffix", EnableSuffix <- TRUE, NumSpec <- 2, DisableBy <- 1
Cache == INSTANCE SuffixCache WITH
  Reqs <- {r1, r2, r3}, Tokens <- {0, 1}, Prompts <- {<<>>},
  Batches <- {<<1>>}, NumSeqIds <- 3, MaxCached <- -1, MaxLen <- 1,
  local <- trees
Shards == INSTANCE VocabShards WITH
  Sps <- {1, 2}, Tps <- {1, 2, 4}, MaxRanks <- 4,
  Vocabs <- {5, 7, 8}, Added <- {0, 3}, Pads <- {2, 4},
  Signs <- {"positive", "negative"}, Padding <- Idle, NotScored <- None
Decode == INSTANCE Simulator WITH
  Tokens <- {"t", "u"}, Examples <- 1, MaxLen <- 3, MaxDepth <- 2,
  MaxSpecs <- {0}, Strategies <- {"random"}, Fractions <- {<<0, 1>>},
  MaxCacheds <- {-1}, cached <- inCache
Task == INSTANCE Simulator WITH
  Tokens <- {"t", "u"}, Examples <- 4, MaxLen <- 1, MaxDepth <- 1,
  MaxSpecs <- {0}, Strategies <- {"oldest", "newest", "random"},
  Fractions <- {<<0, 1>>, <<1, 4>>, <<1, 2>>, <<1, 1>>},
  MaxCacheds <- {-1, 0, 1, 2}, cached <- inCache

ASSUME HybridAssumption == Hybrid!SpecDecodeStepAssumption
ASSUME ArcticAssumption == Arctic!SpecDecodeStepAssumption
ASSUME SuffixAssumption == Suffix!SpecDecodeStepAssumption
ASSUME LookupAssumption == Lookup!CacheSpeculateAssumption
ASSUME GraphsAssumption == Graphs!DraftGraphsAssumption
ASSUME RowsAssumption == Rows!DraftRowsAssumption
ASSUME DrafterAssumption == Drafter!SpeculatorWeightsAssumption
ASSUME LayersAssumption == Layers!SwiftKVWeightsAssumption
ASSUME PassAssumption == Pass!SwiftKVAssumption
(* The shape of the cache is guessed from its second extent, 2 or the      *)
(* number of blocks (llama_swiftkv.py:624).                                *)
ASSUME ShapeIsTold == NumBlocks # 2
ASSUME DecodeAssumption == Decode!SimulatorAssumption
ASSUME TaskAssumption == Task!SimulatorAssumption

(* Every component starts as its own specification says when it is the one *)
(* that runs, and rests otherwise.                                         *)
Init ==
  /\ part \in {"hybrid", "arctic", "suffix", "cache", "lookup", "graphs", "rows",
              "shards", "drafter", "layers", "pass", "decode",
              "task"}
  /\ IF part = "hybrid" THEN Hybrid!Init
     ELSE IF part = "arctic" THEN Arctic!Init
     ELSE IF part = "suffix" THEN Suffix!Init
     ELSE /\ finished = Idle /\ numTokens = Idle /\ rows = Idle
          /\ rowLen = Idle /\ local = Idle /\ cached = Idle
          /\ drafts = Idle /\ since = Idle
  /\ IF part = "cache" THEN Cache!Init
     ELSE trees = Idle /\ cache = Idle /\ nextSeqId = Idle
  /\ IF part = "lookup" THEN Lookup!Init
     ELSE call = Idle /\ search = Idle /\ result = Idle
  /\ IF part = "graphs" THEN Graphs!Init
     ELSE /\ kind = Idle /\ eager = Idle /\ graphs = Idle /\ inputs = Idle
          /\ next = Idle /\ proposal = Idle /\ out = Idle
  /\ IF part = "rows" THEN Rows!Init
     ELSE batch = Idle
  /\ IF part = "shards" THEN Shards!Init
     ELSE cfg = Idle /\ scored = Idle
  /\ IF part = "drafter" THEN Drafter!Init
     ELSE /\ draftConfig = Idle /\ prefixed = Idle /\ complete = Idle
          /\ params = Idle
  /\ IF part = "layers" THEN Layers!Init
     ELSE mode = Idle /\ pending = Idle /\ loaded = Idle
  /\ IF part = "pass" THEN Pass!Init
     ELSE /\ backend = Idle /\ tokens = Idle /\ stage = Idle /\ meta = Idle
          /\ kvCache = Idle /\ states = Idle
  /\ IF part = "decode" THEN Decode!Init
     ELSE IF part = "task" THEN Task!Init
     ELSE /\ config = Idle /\ phase = Idle /\ train = Idle /\ todo = Idle
          /\ inCache = Idle /\ atEvict = Idle /\ request = Idle
          /\ truth = Idle /\ response = Idle /\ results = Idle

Rest ==
  /\ UNCHANGED part
  /\ part \notin {"hybrid", "arctic", "suffix"} => UNCHANGED stepVars
  /\ part # "cache" => UNCHANGED cacheVars
  /\ part # "lookup" => UNCHANGED lookupVars
  /\ part # "graphs" => UNCHANGED graphsVars
  /\ part # "rows" => UNCHANGED rowsVars
  /\ part # "shards" => UNCHANGED shardsVars
  /\ part # "drafter" => UNCHANGED drafterVars
  /\ part # "layers" => UNCHANGED layersVars
  /\ part # "pass" => UNCHANGED passVars
  /\ part \notin {"decode", "task"} => UNCHANGED replayVars

Next ==
  \/ part = "hybrid" /\ Hybrid!Next /\ Rest
  \/ part = "arctic" /\ Arctic!Next /\ Rest
  \/ part = "suffix" /\ Suffix!Next /\ Rest
  \/ part = "cache" /\ Cache!Next /\ Rest
  \/ part = "lookup" /\ Lookup!Next /\ Rest
  \/ part = "graphs" /\ Graphs!Next /\ Rest
  \/ part = "rows" /\ Rows!Next /\ Rest
  \/ part = "shards" /\ Shards!Next /\ Rest
  \/ part = "drafter" /\ Drafter!Next /\ Rest
  \/ part = "layers" /\ Layers!Next /\ Rest
  \/ part = "pass" /\ Pass!Next /\ Rest
  \/ part = "decode" /\ Decode!Next /\ Rest
  \/ part = "task" /\ Task!Next /\ Rest

(* The fairness of Simulator: a task goes on.                              *)
Fairness ==
  /\ WF_replayVars(part = "decode" /\ Decode!Next /\ Rest)
  /\ WF_replayVars(part = "task" /\ Task!Next /\ Rest)

Spec == Init /\ [][Next]_vars /\ Fairness

-----------------------------------------------------------------------------

(* Wrapping around the id space never costs a running request the slot of  *)
(* its response while the cache has no limit (_generate_seq_id), and the   *)
(* two maps stay inverse.                                                  *)
ActiveKeepsItsSeqId ==
  /\ [](part = "cache" => Cache!MapsInverse)
  /\ [][part = "cache" =>
          \A r \in {r1, r2, r3} :
            (/\ trees[r] # None /\ trees'[r] # None
             /\ cache.req[r] # None /\ cache'.req[r] # cache.req[r])
            => cache' = Cache!EvictFrom(cache, {r})]_cacheVars

(* However requests leave the batch and come back, the local trees hold    *)
(* each prompt and what was reported since, once and in order; only        *)
(* requests of the batch are active, and all that speculate are asked to.  *)
CacheFollowsBatch ==
  /\ part = "hybrid" => Hybrid!TypeOK /\ Hybrid!LocalIsPromptAndReports /\ Hybrid!ActiveAreScheduled
  /\ part = "suffix" => Suffix!TypeOK /\ Suffix!LocalIsPromptAndReports /\ Suffix!ActiveAreScheduled

(* A draft and the token after it fit into max_model_len, with either      *)
(* method; in hybrid mode all drafts of a step are from one of them.       *)
DraftsSuitTheBatch ==
  /\ part = "arctic" => Arctic!DraftsFitModel
  /\ part = "suffix" => Suffix!DraftsFitModel
  /\ part = "hybrid" => Hybrid!OneMethodPerStep

(* SuffixDecodingCache.speculate returns, of all that the request's own    *)
(* and the global tree draft for the ends of the context, the draft of the *)
(* highest score, the longest match of those, within the limit, matched on *)
(* less than the depth of the trees.                                       *)
LookupFindsTheBest == part = "lookup" => Lookup!DraftIsBestOfBoth

(* The draft model's graphs: the heads computed for a call (all without a  *)
(* graph, on a replay those of the graph) give tokens of its own batch,    *)
(* whatever graphs were captured before it and however they are padded; no *)
(* batch overruns the static buffers; and the LSTM's call that captures a  *)
(* graph returns zeros.  What a capturing call of the MLP and the heads    *)
(* beyond a graph's return is of no such call, and not spoken of here.     *)
ComputedProposalsAreTheirs ==
  part = "graphs" => Graphs!TypeOK /\ Graphs!ComputedDraftsAreTheirs /\ Graphs!LstmCapturesAreZero
                       /\ Graphs!BuffersHoldTheBatch

(* A row is drafted for from the hidden state of its own last accepted     *)
(* token and gets its own draft back, however many tokens the other rows   *)
(* had and whichever were left out.                                        *)
DraftsFollowTheirRow == part = "rows" => Rows!TypeOK /\ Rows!DraftsFollowTheirRow

(* The vocabulary in shards, in every layout of up to four ranks: the      *)
(* mapping of the gathered logits finds the one shard that holds a token.  *)
(* Where TP is not below SP, the sum over the ranks is the token's         *)
(* embedding and all ranks pick the same token, ties and scores of either  *)
(* sign included, a highest one unless padding rows outscore all tokens.   *)
(* With SP above TP neither holds (EmbeddingIsWhole).  What depends on the *)
(* layout only, which never changes, is looked at before the pass.         *)
ShardsAreOneVocabulary ==
  part = "shards" =>
    /\ scored = None =>
         /\ Shards!TypeOK /\ Shards!MappingIsWhereTokensAre
         /\ cfg.sp <= cfg.tp => Shards!EmbeddingIsWhole
    /\ Shards!RanksPickTheBest

(* The weights of a checkpoint reach the module that computes with them:   *)
(* in the draft model, whether its heads are tied or not, and in the       *)
(* SwiftKV model, each shard once and under the group it is built in.      *)
WeightsReachTheirModules ==
  /\ part = "drafter" => Drafter!TypeOK /\ Drafter!HeadsUseTheirWeights
                           /\ Drafter!GatesUseTheirProjection
  /\ part = "layers" => Layers!LoadedWhereBuilt /\ Layers!EveryShardFilledOnce

(* The remaining layers of the SwiftKV pass: every row keeps the pages and *)
(* slots of its own request, the dropped tokens' keys are cached, and the  *)
(* results go back to the tokens they are of, with either attention        *)
(* backend; with FlashAttention the rows of a request are in order too.    *)
(* Whether a wrapper attends to each row is EveryRowIsAttended.            *)
SelectedRowsKeepTheirRequest ==
  part = "pass" => /\ Pass!TypeOK /\ Pass!RowsKeepTheirRequest
                   /\ Pass!DroppedTokensAreCached /\ Pass!ResultsGoBack
                   /\ backend = "flash_attention" => Pass!RowsInOrder

(* The simulator's decoding gives the known response with any drafts,      *)
(* accepting the best branch of each; of one dataset split in two (without *)
(* --train-dataset), no response it evaluates was cached for training; and *)
(* every task ends.                                                        *)
SimulationIsSound ==
  /\ [](part = "decode" => Decode!ResponseIsTruth /\ Decode!BestBranchAccepted)
  /\ [](part = "task" => Task!TypeOK /\ Task!EvaluatesUnseen)
  /\ <>(part \in {"decode", "task"} => phase = "done")

-----------------------------------------------------------------------------
(* What is proved of the parts, of the behaviours of this module.          *)

(* Whichever of the two configurations with suffix decoding runs, the      *)
(* local trees hold what was reported and belong to requests of the batch. *)
THEOREM CacheIsReported == Spec => []CacheFollowsBatch
<1> DEFINE OnHybrid == part = "hybrid"
           OnSuffix == part = "suffix"
           SafeHybrid == Hybrid!TypeOK /\ Hybrid!LocalIsPromptAndReports /\ Hybrid!ActiveAreScheduled
           SafeSuffix == Suffix!TypeOK /\ Suffix!LocalIsPromptAndReports /\ Suffix!ActiveAreScheduled
<1>1. OnHybrid /\ [Next]_vars => OnHybrid'
  BY DEF Next, vars, Rest
<1>2. ~OnHybrid /\ [Next]_vars => ~OnHybrid'
  BY DEF Next, vars, Rest
<1>3. OnHybrid /\ Init => Hybrid!Init
  BY DEF Init
<1>4. OnHybrid /\ [Next]_vars => [Hybrid!Next]_(Hybrid!vars)
  BY DEF Next, vars, stepVars, Hybrid!vars
<1>5. Hybrid!SpecDecodeStepAssumption
  BY HybridAssumption
<1>6. Hybrid!Spec => []SafeHybrid
  BY <1>5, Hybrid!ReportsFollowTheBatch
<1>7. OnSuffix /\ [Next]_vars => OnSuffix'
  BY DEF Next, vars, Rest
<1>8. ~OnSuffix /\ [Next]_vars => ~OnSuffix'
  BY DEF Next, vars, Rest
<1>9. OnSuffix /\ Init => Suffix!Init
  BY DEF Init
<1>10. OnSuffix /\ [Next]_vars => [Suffix!Next]_(Suffix!vars)
  BY DEF Next, vars, stepVars, Suffix!vars
<1>11. Suffix!SpecDecodeStepAssumption
  BY SuffixAssumption
<1>12. Suffix!Spec => []SafeSuffix
  BY <1>11, Suffix!ReportsFollowTheBatch
<1>13. (OnHybrid => SafeHybrid) /\ (OnSuffix => SafeSuffix) => CacheFollowsBatch
  BY DEF CacheFollowsBatch
<1> HIDE DEF OnHybrid, OnSuffix, SafeHybrid, SafeSuffix
<1> QED
  BY <1>1, <1>2, <1>3, <1>4, <1>6, <1>7, <1>8, <1>9, <1>10, <1>12, <1>13, PTL DEF Spec, Hybrid!Spec, Suffix!Spec

(* Drafts of every method fit into what is left of max_model_len, and a    *)
(* step of the hybrid uses one method.                                     *)
THEOREM DraftsSuit == Spec => []DraftsSuitTheBatch
<1> DEFINE OnArctic == part = "arctic"
           OnSuffix == part = "suffix"
           OnHybrid == part = "hybrid"
           SafeArctic == Arctic!DraftsFitModel /\ Arctic!OneMethodPerStep
           SafeSuffix == Suffix!DraftsFitModel /\ Suffix!OneMethodPerStep
           SafeHybrid == Hybrid!DraftsFitModel /\ Hybrid!OneMethodPerStep
<1>1. /\ (OnArctic /\ [Next]_vars => OnArctic') /\ (~OnArctic /\ [Next]_vars => ~OnArctic')
      /\ (OnSuffix /\ [Next]_vars => OnSuffix') /\ (~OnSuffix /\ [Next]_vars => ~OnSuffix')
      /\ (OnHybrid /\ [Next]_vars => OnHybrid') /\ (~OnHybrid /\ [Next]_vars => ~OnHybrid')
  BY DEF Next, vars, Rest
<1>2. /\ OnArctic /\ Init => Arctic!Init
      /\ OnSuffix /\ Init => Suffix!Init
      /\ OnHybrid /\ Init => Hybrid!Init
  BY DEF Init
<1>3. OnArctic /\ [Next]_vars => [Arctic!Next]_(Arctic!vars)
  BY DEF Next, vars, stepVars, Arctic!vars
<1>4. OnSuffix /\ [Next]_vars => [Suffix!Next]_(Suffix!vars)
  BY DEF Next, vars, stepVars, Suffix!vars
<1>5. OnHybrid /\ [Next]_vars => [Hybrid!Next]_(Hybrid!vars)
  BY DEF Next, vars, stepVars, Hybrid!vars
<1>6. /\ Arctic!SpecDecodeStepAssumption /\ Suffix!SpecDecodeStepAssumption
      /\ Hybrid!SpecDecodeStepAssumption
  BY ArcticAssumption, SuffixAssumption, HybridAssumption
<1>7. Arctic!Spec => []SafeArctic
  BY <1>6, Arctic!DraftsFitTheModel
<1>8. Suffix!Spec => []SafeSuffix
  BY <1>6, Suffix!DraftsFitTheModel
<1>9. Hybrid!Spec => []SafeHybrid
  BY <1>6, Hybrid!DraftsFitTheModel
<1>10. /\ OnArctic => SafeArctic
       /\ OnSuffix => SafeSuffix
       /\ OnHybrid => SafeHybrid
       => DraftsSuitTheBatch
  BY DEF DraftsSuitTheBatch
<1> HIDE DEF OnArctic, OnSuffix, OnHybrid, SafeArctic, SafeSuffix, SafeHybrid
<1> QED
  BY <1>1, <1>2, <1>3, <1>4, <1>5, <1>7, <1>8, <1>9, <1>10,
     PTL DEF Spec, Arctic!Spec, Suffix!Spec, Hybrid!Spec

(* The draft the cache returns is the best of all that both trees draft    *)
(* for the ends of the context.                                            *)
THEOREM EngineFindsTheBestDraft == Spec => []LookupFindsTheBest
<1> DEFINE On == part = "lookup"
           Safe == Lookup!DraftIsBestOfBoth
<1>1. (On /\ [Next]_vars => On') /\ (~On /\ [Next]_vars => ~On')
  BY DEF Next, vars, Rest
<1>2. On /\ Init => Lookup!Init
  BY DEF Init
<1>3. On /\ [Next]_vars => [Lookup!Next]_(Lookup!vars)
  BY DEF Next, vars, lookupVars, Lookup!vars
<1>4. Lookup!CacheSpeculateAssumption
  BY LookupAssumption
<1>5. Lookup!Spec => []Safe
  BY <1>4, BetterDraftReturned
<1>6. (On => Safe) => LookupFindsTheBest
  BY DEF LookupFindsTheBest
<1> HIDE DEF On, Safe
<1> QED
  BY <1>1, <1>2, <1>3, <1>5, <1>6, PTL DEF Spec, Lookup!Spec

(* With either draft model, eager or by graphs, the tokens of the heads    *)
(* computed for a call are of the rows of that call; those of a call that  *)
(* captures its graph, and of heads beyond a replayed graph's, need not    *)
(* be.                                                                     *)
THEOREM EngineDraftsFromItsRows == Spec => []ComputedProposalsAreTheirs
<1> DEFINE On == part = "graphs"
           Safe == /\ Graphs!TypeOK /\ Graphs!ComputedDraftsAreTheirs /\ Graphs!LstmCapturesAreZero
                   /\ Graphs!BuffersHoldTheBatch
<1>1. (On /\ [Next]_vars => On') /\ (~On /\ [Next]_vars => ~On')
  BY DEF Next, vars, Rest
<1>2. On /\ Init => Graphs!Init
  BY DEF Init
<1>3. On /\ [Next]_vars => [Graphs!Next]_(Graphs!vars)
  BY DEF Next, vars, graphsVars, Graphs!vars
<1>4. Graphs!DraftGraphsAssumption
  BY GraphsAssumption
<1>5. Graphs!Spec => []Safe
  BY <1>4, GraphsAnswerTheirCall
<1>6. (On => Safe) => ComputedProposalsAreTheirs
  BY DEF ComputedProposalsAreTheirs
<1> HIDE DEF On, Safe
<1> QED
  BY <1>1, <1>2, <1>3, <1>5, <1>6, PTL DEF Spec, Graphs!Spec

(* Every row with a token to go on from is drafted for from its own last   *)
(* accepted token, and the draft is given to that row.                     *)
THEOREM EngineDraftsForItsRows == Spec => []DraftsFollowTheirRow
<1> DEFINE On == part = "rows"
           Safe == Rows!TypeOK /\ Rows!DraftsFollowTheirRow
<1>1. (On /\ [Next]_vars => On') /\ (~On /\ [Next]_vars => ~On')
  BY DEF Next, vars, Rest
<1>2. On /\ Init => Rows!Init
  BY DEF Init
<1>3. On /\ [Next]_vars => [Rows!Next]_batch
  BY DEF Next, vars, rowsVars
<1>4. Rows!DraftRowsAssumption
  BY RowsAssumption
<1>5. Rows!Spec => []Safe
  BY <1>4, EveryRowGetsItsDraft
<1>6. (On => Safe) => DraftsFollowTheirRow
  BY DEF DraftsFollowTheirRow
<1> HIDE DEF On, Safe
<1> QED
  BY <1>1, <1>2, <1>3, <1>5, <1>6, PTL DEF Spec, Rows!Spec

(* The weights of a draft model and of a SwiftKV model are in the modules  *)
(* that use them, each shard copied once.                                  *)
THEOREM EngineLoadsItsWeights == Spec => []WeightsReachTheirModules
<1> DEFINE OnDrafter == part = "drafter"
           OnLayers == part = "layers"
           SafeDrafter == Drafter!TypeOK /\ Drafter!HeadsUseTheirWeights /\ Drafter!GatesUseTheirProjection
           SafeLayers == Layers!LoadedWhereBuilt /\ Layers!EveryShardFilledOnce
<1>1. /\ (OnDrafter /\ [Next]_vars => OnDrafter') /\ (~OnDrafter /\ [Next]_vars => ~OnDrafter')
      /\ (OnLayers /\ [Next]_vars => OnLayers') /\ (~OnLayers /\ [Next]_vars => ~OnLayers')
  BY DEF Next, vars, Rest
<1>2. (OnDrafter /\ Init => Drafter!Init) /\ (OnLayers /\ Init => Layers!Init)
  BY DEF Init
<1>3. OnDrafter /\ [Next]_vars => [Drafter!Next]_(Drafter!vars)
  BY DEF Next, vars, drafterVars, Drafter!vars
<1>4. OnLayers /\ [Next]_vars => [Layers!Next]_(Layers!vars)
  BY DEF Next, vars, layersVars, Layers!vars
<1>5. Drafter!SpeculatorWeightsAssumption
  BY DrafterAssumption
<1>6. Drafter!Spec => []SafeDrafter
  BY <1>5, DrafterHasItsWeights
<1>7. Layers!Spec => []SafeLayers
  BY LayersAreLoaded
<1>8. (OnDrafter => SafeDrafter) /\ (OnLayers => SafeLayers) => WeightsReachTheirModules
  BY DEF WeightsReachTheirModules
<1> HIDE DEF OnDrafter, OnLayers, SafeDrafter, SafeLayers
<1> QED
  BY <1>1, <1>2, <1>3, <1>4, <1>6, <1>7, <1>8, PTL DEF Spec, Drafter!Spec, Layers!Spec

(* In a pass of a SwiftKV model the rows that are left stay their          *)
(* requests', every token is cached, and the results go back.              *)
THEOREM EngineKeepsRowsTheirs == Spec => []SelectedRowsKeepTheirRequest
<1> DEFINE On == part = "pass"
           Safe == /\ Pass!TypeOK /\ Pass!RowsKeepTheirRequest
                   /\ Pass!DroppedTokensAreCached /\ Pass!ResultsGoBack
                   /\ backend = "flash_attention" => Pass!RowsInOrder
<1>1. (On /\ [Next]_vars => On') /\ (~On /\ [Next]_vars => ~On')
  BY DEF Next, vars, Rest
<1>2. On /\ Init => Pass!Init
  BY DEF Init
<1>3. On /\ [Next]_vars => [Pass!Next]_(Pass!vars)
  BY DEF Next, vars, passVars, Pass!vars
<1>4. Pass!SwiftKVAssumption /\ NumBlocks # 2
  BY PassAssumption, ShapeIsTold
<1>5. Pass!Spec => []Safe
  BY <1>4, SelectedTokensStayTheirs
<1>6. (On => Safe) => SelectedRowsKeepTheirRequest
  BY DEF SelectedRowsKeepTheirRequest
<1> HIDE DEF On, Safe
<1> QED
  BY <1>1, <1>2, <1>3, <1>5, <1>6, PTL DEF Spec, Pass!Spec
=============================================================================
