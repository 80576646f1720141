--------------------------- MODULE ReasoningStore ---------------------------
(* llm/reasoning.py: the reasoning that came with an assistant turn is     *)
(* kept and sent again with later requests of the same conversation.       *)
(* Pure.  A message is <<role, body>>, for an assistant turn its content   *)
(* and the id of its first tool call; a store is a sequence of             *)
(* <<key, reasoning>>, the least recently used first.                      *)
EXTENDS Naturals, Sequences, SequencesExt, FiniteSets, FiniteSetsExt

(* Mutant: a turn is known by its own words. *)
LastWords(messages) == <<Last(messages)>>

(* What identifies the last turn: all messages up to it but system ones.   *)
ConversationKey(messages) == SelectSeq(messages, LAMBDA m : m[1] # "system")

Lookup(store, key) == {i \in DOMAIN store : store[i][1] = key}

(* The entry is used: it moves to the end.                                 *)
MoveToEnd(store, i) == Append(RemoveAt(store, i), store[i])

Remember(store, request, reply, reasoning, max) ==
  LET key  == ConversationKey(Append(request, reply))
      kept == SelectSeq(store, LAMBDA entry : entry[1] # key)
      full == Append(kept, <<key, reasoning>>)
  IN IF reasoning = <<>> THEN store
     ELSE SubSeq(full, Len(full) - Min({max, Len(full)}) + 1, Len(full))

(* attach: the reasoning of each assistant turn (<<>> when unknown), and *)
(* the store after it.                                                     *)
Attach(store, messages) ==
  LET step(sofar, i) ==
        LET found == Lookup(sofar.store, ConversationKey(SubSeq(messages, 1, i)))
        IN IF messages[i][1] # "assistant" \/ found = {}
           THEN [sofar EXCEPT !.sent = Append(@, <<>>)]
           ELSE LET at == CHOOSE k \in found : TRUE
                IN [sent  |-> Append(sofar.sent, sofar.store[at][2]),
                    store |-> MoveToEnd(sofar.store, at)]
  IN FoldLeft(step, [sent |-> <<>>, store |-> store], [i \in DOMAIN messages |-> i])

-----------------------------------------------------------------------------
(* Properties *)

(* Conversations take turns, every one of them with the same words: turn n *)
(* of conversation c is <<"assistant", n>> and its reasoning <<c, n>>.     *)
Talk(c, n) == <<<<"system", 0>>, <<"user", c>>>> \o [i \in 1 .. n |-> <<"assistant", i>>]
TurnsOf(order, c) == Len(SelectSeq(order, LAMBDA d : d = c))
StoreAfter(order, max) ==
  FoldLeft(LAMBDA store, k :
             LET c == order[k] n == TurnsOf(SubSeq(order, 1, k - 1), c)
             IN Remember(Attach(store, Talk(c, n)).store, Talk(c, n),
                         <<"assistant", n + 1>>, <<c, n + 1>>, max),
           <<>>, [i \in DOMAIN order |-> i])

(* A turn is never given the reasoning of another, not even one with the   *)
(* same words elsewhere; the conversation that spoke last still has its    *)
(* latest turn's, and all of its own when they fit; the store stays small. *)
ReasoningIsOwn(order, max) ==
  LET store == StoreAfter(order, max)
  IN /\ Len(store) <= max
     /\ \A c \in ToSet(order) :
          LET n == TurnsOf(order, c) sent == Attach(store, Talk(c, n)).sent
          IN /\ \A i \in 1 .. n : sent[i + 2] \in {<<c, i>>, <<>>}
             /\ c = Last(order) => sent[n + 2] = <<c, n>>
             /\ Len(order) <= max => \A i \in 1 .. n : sent[i + 2] = <<c, i>>
=============================================================================
