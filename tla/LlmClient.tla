------------------------------ MODULE LlmClient ------------------------------
(***************************************************************************)
(* llm/client.py: what one call of generate_structured may come to.  The   *)
(* agents of the graph are built without a client and use StaticLLMClient  *)
(* with an output of their own; OpenAIChatLLMClient is the other one.      *)
(*                                                                         *)
(* The size of a prompt is counted in the findings and document sections   *)
(* that it quotes.  No call is retried.                                    *)
(***************************************************************************)
EXTENDS Naturals

Clients == {"static", "provider"}

Output(data) == [kind |-> "output", data |-> data]

Failure(kind) == [kind |-> kind]

(* "error" stands for LLMError and for what is no LLMError at all: a body  *)
(* without the expected fields.  "garbled" is a body that is no JSON,      *)
(* "schema" an answer that is no JSON object, or not the one asked for.    *)
Failures == {"budget", "timeout", "error", "garbled", "schema"}

(* The budget is compared before the call, the length of the output after  *)
(* it; both clients raise the same exception for either.                   *)
StaticReplies(size, budget, default) ==
    {Failure("budget")} \cup (IF size > budget THEN {} ELSE {Output(default)})

(* No key, a timeout, an HTTP error, too long an output, no JSON, or one   *)
(* of the possible outputs.                                                *)
ProviderReplies(size, budget, outputs) ==
    IF size > budget THEN {Failure("budget")}
    ELSE {Failure(kind) : kind \in Failures} \cup {Output(data) : data \in outputs}

Replies(client, size, budget, default, outputs) ==
    IF client = "static" THEN StaticReplies(size, budget, default)
    ELSE ProviderReplies(size, budget, outputs)

=============================================================================
