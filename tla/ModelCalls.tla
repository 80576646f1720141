----------------------------- MODULE ModelCalls -----------------------------
(* llm/client.py and llm/backends/openai_compat.py: one chat call of the   *)
(* agent as the sequence of what its attempts meet, and how lab/episodes.py*)
(* classes an episode that such a call ended.  Pure.                       *)
EXTENDS Naturals, Sequences, FiniteSets

(* httpx.TransportError and its subclasses that are raised.                *)
Transport == {"ConnectTimeout", "ReadTimeout", "WriteTimeout", "PoolTimeout", "ConnectError",
              "ReadError", "WriteError", "CloseError", "ProxyError", "RemoteProtocolError",
              "LocalProtocolError", "UnsupportedProtocol"}
ServerErrors  == {"HTTP 500", "HTTP 503"}
RequestErrors == {"HTTP 400", "HTTP 429", "malformed completion"}

(* A reply, or the first words of what chat of the backend raises; Garbled *)
(* is a stream whose chunks are no JSON, which no LLMError tells.          *)
Garbled == "JSONDecodeError"
Answers == {"reply", Garbled} \cup Transport \cup ServerErrors \cup RequestErrors

(* Mutant: whatever the endpoint refuses is sent again. *)
RetriesAll(answer) == answer \in Transport \cup ServerErrors \cup RequestErrors

(* LLMRetryableError.                                                      *)
Retries(answer) == answer \in Transport \cup ServerErrors

(* total_timeout_s ran out before the attempt answers[inTime + 1] ended.   *)
WallClock == "chat exceeded wall-clock"

(* LLMClient.chat: how many attempts end, and with what.                   *)
Attempts(answers, maxRetries, inTime) ==
  LET stops == {n \in 1 .. Len(answers) : ~Retries(answers[n]) \/ n > maxRetries}
      n     == CHOOSE k \in stops : \A j \in stops : k <= j
  IN IF stops # {} /\ n <= inTime THEN n ELSE inTime

Chat(answers, maxRetries, inTime) ==
  LET n == Attempts(answers, maxRetries, inTime)
  IN IF n > 0 /\ (~Retries(answers[n]) \/ n > maxRetries) THEN answers[n] ELSE WallClock

(* The agent ends a run with llm_error on an LLMError, others reach _drive.*)
LlmError(outcome) == outcome \notin {"reply", Garbled}

(* Mutant: the pattern without the 5xx and the rate limit. *)
UnavailableByNetwork(outcome) ==
  LlmError(outcome) /\ outcome \in {WallClock} \cup (Transport \ {"CloseError", "UnsupportedProtocol"})

(* llm_unavailable: the pattern _UNAVAILABLE names no CloseError and no    *)
(* UnsupportedProtocol.                                                    *)
Unavailable(outcome) ==
  /\ LlmError(outcome)
  /\ outcome \in {WallClock, "HTTP 429"} \cup ServerErrors
                   \cup (Transport \ {"CloseError", "UnsupportedProtocol"})

-----------------------------------------------------------------------------
(* Properties *)

(* errors.py: "Only network errors and HTTP 5xx are retried; a 4xx would   *)
(* fail again": an attempt follows only an attempt whose failure may pass, *)
(* at most maxRetries times; a reply is given to the agent as soon as one  *)
(* comes.  episodes.py calls an endpoint unavailable when a call gave up   *)
(* on it, whatever the last attempt met, except for two classes its        *)
(* pattern misses, and for no refusal of the request itself but "too many".*)
OutagesAreTold(answers, maxRetries, inTime) ==
  LET n == Attempts(answers, maxRetries, inTime)
      outcome == Chat(answers, maxRetries, inTime)
  IN /\ n <= maxRetries + 1
     /\ \A k \in 1 .. n : k < n => answers[k] \in Transport \cup ServerErrors
     /\ outcome = "reply" <=> n > 0 /\ answers[n] = "reply"
     /\ outcome \in {WallClock} \cup ServerErrors \cup Transport =>
          Unavailable(outcome) \/ outcome \in {"CloseError", "UnsupportedProtocol"}
     /\ Unavailable(outcome) => outcome \notin RequestErrors \ {"HTTP 429"}
=============================================================================
