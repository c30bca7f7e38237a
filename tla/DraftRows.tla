----------------------------- MODULE DraftRows -----------------------------
(***************************************************************************)
(* What the draft model is given and who gets its answers                  *)
(* (vllm/spec_dec/arctic_proposer.py: ArcticProposer.prepare_hidden_states *)
(* and propose, with the rows propose_arctic_draft_token_ids of the model  *)
(* runner leaves out).  The target model has verified the draft of every   *)
(* row at once: its hidden states are one flat tensor, a row having as     *)
(* many as it had draft tokens and one more, and the draft model must go   *)
(* on from the one of the last token that was accepted.                    *)
(***************************************************************************)
EXTENDS Integers, Sequences, SequencesExt, FiniteSetsExt

CONSTANTS
    MaxRows,  \* bound: rows of a batch
    MaxDraft  \* bound: draft tokens of a row

DraftRowsAssumption == {MaxRows, MaxDraft} \subseteq Nat \ {0}

VARIABLE batch  \* for each row its draft tokens, the tokens it was given,
                \* and whether there is one for the draft model

(* A row is given the tokens of its draft that were accepted and one more; *)
(* it has none for the draft model near max_model_len.                     *)
BatchRows == {r \in [draft : 0 .. MaxDraft, gen : 1 .. MaxDraft + 1, last : BOOLEAN] : r.gen <= r.draft + 1}

Indices == DOMAIN batch

(* The hidden state of row i after its j-th token, in the flat tensor.     *)
SampleHiddenStates == FlattenSeq([i \in Indices |-> [j \in 1 .. batch[i].draft + 1 |-> <<i, j>>]])

(* The tensor of sampled tokens is as wide as the longest draft needs.     *)
MaxGenLen == Max({batch[i].draft + 1 : i \in Indices})

NumSampled(i) == batch[i].draft + 1
Cumsum[i \in 0 .. Len(batch)] == IF i = 0 THEN 0 ELSE Cumsum[i - 1] + NumSampled(i)

HiddenStatesIdx == [i \in Indices |-> batch[i].gen - 1 + Cumsum[i] - NumSampled(i)]

(* prepare_hidden_states, which leaves the tensor alone when no row had a  *)
(* draft: there is one hidden state per row then.                          *)
PreviousHiddenStates ==
    IF MaxGenLen = 1 THEN SampleHiddenStates
    ELSE [i \in Indices |-> SampleHiddenStates[HiddenStatesIdx[i] + 1]]

(* The rows of the draft model's batch, and propose: its k-th answer is    *)
(* for the k-th token and the k-th hidden state.                           *)
Valid == {i \in Indices : batch[i].last}
NumValid(i) == Cardinality({j \in Valid : j <= i})
ValidIndex(k) == CHOOSE i \in Valid : NumValid(i) = k
ProposeUnfiltered ==  \* wrong: all hidden states
    [k \in 1 .. Cardinality(Valid) |-> <<ValidIndex(k), PreviousHiddenStates[k]>>]
Propose == [k \in 1 .. Cardinality(Valid) |-> <<ValidIndex(k), PreviousHiddenStates[ValidIndex(k)]>>]

(* The answers go back to the rows in order; a row without a token gets no *)
(* draft and takes none away.                                              *)
FinalDrafts == [i \in Indices |-> IF batch[i].last THEN Propose[NumValid(i)] ELSE <<>>]

Init == batch \in UNION {[1 .. n -> BatchRows] : n \in 1 .. MaxRows}
Next == UNCHANGED batch
Spec == Init /\ [][Next]_batch

-----------------------------------------------------------------------------

TypeOK ==
    /\ Len(SampleHiddenStates) = Cumsum[Len(batch)]
    /\ \A i \in Indices : HiddenStatesIdx[i] \in 0 .. Len(SampleHiddenStates) - 1

(* Every draft was made from the last token of its own row and the hidden  *)
(* state of the token before it, the last of the row's draft that was      *)
(* accepted, however many tokens the other rows had and whichever were     *)
(* left out.                                                               *)
DraftsFollowTheirRow ==
    \A i \in Indices : FinalDrafts[i] = IF batch[i].last THEN <<i, <<i, batch[i].gen>>>> ELSE <<>>
=============================================================================
