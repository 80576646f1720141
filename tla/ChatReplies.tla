---------------------------- MODULE ChatReplies ----------------------------
(* llm/backends/openai_compat.py and llm/toolcall_parse.py: the reply that *)
(* is read from a stream, from one body, or from the text itself.  Pure.   *)
(* Names and arguments are sequences of pieces; an id is <<"given", x>>,   *)
(* <<"call", n>> when the client numbers the call, <<>> when there is none.*)
EXTENDS Naturals, Sequences, SequencesExt, FiniteSets, FiniteSetsExt, TLC

Whole == <<1, 2>>     \* the pieces of the arguments that are a JSON object

(* parse_arguments.                                                        *)
ParseArguments(args) ==
  CASE args = <<>>  -> "{}"
    [] args = Whole -> "object"
    [] OTHER        -> "_raw_arguments"

(* Mutant: the id of a call is that of its last delta. *)
LatestId(slot, delta) == delta.id

IdOf(slot, delta) == IF delta.id = <<>> THEN slot.id ELSE delta.id

(* _chat_stream: a delta is added to the slot of its index.                *)
AddDelta(slots, delta) ==
  LET empty == [id |-> <<>>, name |-> <<>>, args |-> <<>>]
      slot  == IF delta.index \in DOMAIN slots THEN slots[delta.index] ELSE empty
  IN (delta.index :> [id |-> IdOf(slot, delta), name |-> slot.name \o delta.name,
                      args |-> slot.args \o delta.args]) @@ slots

ToolCall(call, n) ==
  [id   |-> IF call.id = <<>> THEN <<"call", n>> ELSE call.id,
   name |-> call.name, arguments |-> ParseArguments(call.args)]

Streamed(deltas) ==
  LET slots == FoldLeft(AddDelta, <<>>, deltas)
      order == SetToSortSeq(DOMAIN slots, <)
  IN [k \in DOMAIN order |-> ToolCall(slots[order[k]], order[k])]

(* _from_completion: the calls of one body.                                *)
Native(calls) == [i \in DOMAIN calls |-> ToolCall(calls[i], i - 1)]

(* parse_tool_calls: content is a sequence of words and of blocks, either  *)
(* inside a thought or not; a block that names no call is passed over.     *)
Blocks(content) == SelectSeq(content, LAMBDA part : part.kind = "block")
ParseToolCalls(content) ==
  LET blocks == Blocks(content)
      good   == SetToSortSeq({i \in DOMAIN blocks : blocks[i].name # <<>>}, <)
  IN [k \in DOMAIN good |-> ToolCall([blocks[good[k]] EXCEPT !.id = <<>>], good[k] - 1)]

(* _finalize: the blocks are read only when there is no native call; the   *)
(* text keeps what is no thought.                                          *)
Finalize(content, native, finish) ==
  LET said   == SelectSeq(content, LAMBDA part : ~part.thought)
      parsed == ParseToolCalls(content)
  IN IF native # <<>>
     THEN [text |-> said, calls |-> native, finish |-> finish]
     ELSE [text   |-> SelectSeq(said, LAMBDA part : part.kind # "block"),
           calls  |-> parsed,
           finish |-> IF parsed # <<>> THEN "tool_calls" ELSE finish]

-----------------------------------------------------------------------------
(* Properties *)

(* The deltas of a call in a stream: the first has its id and name.        *)
DeltasOf(call, index) ==
  <<[index |-> index, id |-> call.id, name |-> call.name, args |-> <<>>]>> \o
  [k \in DOMAIN call.args |-> [index |-> index, id |-> <<>>, name |-> <<>>, args |-> <<call.args[k]>>]]
Merges(s, t) ==
  LET n == Len(s) + Len(t)
      before(P, k) == Cardinality({j \in P : j <= k})
  IN {[k \in 1 .. n |-> IF k \in P THEN s[before(P, k)] ELSE t[k - before(P, k)]] :
        P \in kSubset(Len(s), 1 .. n)}

(* However the deltas of a reply's calls are mixed, the agent sees the     *)
(* calls of the reply that is not streamed.  No two calls of a reply share *)
(* an id, so that a result answers one of them; and arguments that are cut *)
(* short are never taken for others, unless nothing of them came at all.   *)
RepliesAreRead(content, first, second, finish) ==
  LET calls == <<first, second>>
      plain == Finalize(content, Native(calls), finish)
      text  == Finalize(content, <<>>, finish)
      ids(reply) == {c.id : c \in ToSet(reply.calls)}
  IN /\ \A deltas \in Merges(DeltasOf(first, 0), DeltasOf(second, 1)) :
          Finalize(content, Streamed(deltas), finish) = plain
     /\ \A reply \in {plain, text} : Cardinality(ids(reply)) = Len(reply.calls)
     /\ \A i \in 1 .. 2 : calls[i].args \notin {Whole, <<>>} <=> plain.calls[i].arguments = "_raw_arguments"
     /\ text.calls # <<>> <=> \E part \in ToSet(content) : part.kind = "block" /\ part.name # <<>>
=============================================================================
