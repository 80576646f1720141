----------------------------- MODULE MCGateway -----------------------------
(* One session with three calls: a write the policy approves itself unless *)
(* a person did, a destructive call that the same rule selects, and a      *)
(* destructive call a rule denies.                                         *)
EXTENDS Gateway, TLC

MCCalls == {"add", "remove", "banned"}
MCRisk == [c \in MCCalls |-> IF c = "add" THEN "write" ELSE "destructive"]
MCOutcome == <<>>     \* no argument conditions
MCRules == <<
  [scope |-> {"add", "remove"}, args |-> {}, decision |-> "auto_approve"],
  [scope |-> {"banned"}, args |-> {}, decision |-> "deny"] >>
MCSession == [c \in MCCalls |-> "s"]
MCTool == [c \in MCCalls |-> "t"]
MCAllowlists == {MCCalls}
MCRows == {"row"}
MCAdds == [c \in MCCalls |-> IF c = "add" THEN MCRows ELSE {}]
MCDels == [c \in MCCalls |-> IF c = "remove" THEN MCRows ELSE {}]
MCSymmetry == Permutations(Requests)

(* Every kind of answer, with the counts and codes that are told apart.    *)
SomeTexts ==
  [kind : {"blank", "plain"}] \cup [kind : {"list"}, items : 0 .. 1] \cup
  [kind : {"object"}, lists : SUBSET (0 .. 1), nested : BOOLEAN, scalars : 0 .. 1]
SomeAnswers ==
  [isError : {FALSE}, text : SomeTexts] \cup
  [isError : {TRUE}, form : {"validation", "http", "unknown_tool", "other"},
   code : {400, 404, 422, 500, 503}]
=============================================================================
