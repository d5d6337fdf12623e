----------------------------- MODULE LLMClient -----------------------------
(***************************************************************************)
(* One request to a chat-completions endpoint (classify/client.py): no     *)
(* retry and no second endpoint, and every way it can fail is named.       *)
(***************************************************************************)

\* What comes back.  sent: how the transport ended, "unexpected" being an
\* exception the client does not expect; ok: whether the status is 200; json:
\* whether the body is JSON; content: the first choice's message, if it has one;
\* form: whether the text, its fence stripped, is JSON of the schema's shape.
Reply(Data) ==
  [sent : {"answered", "timeout", "http", "unexpected"},
   ok : BOOLEAN,
   json : BOOLEAN,
   content : {"absent", "null", "parts", "blank", "text"},
   form : {"garbage", "mismatch", "valid"},
   data : Data]

\* The kind of the error a reply ends in, or "none": the checks in their order.
Failure(reply) ==
  IF reply.sent # "answered" THEN reply.sent
  ELSE IF ~reply.ok THEN "http"
  ELSE IF ~reply.json THEN "invalid_json"
  ELSE IF reply.content = "absent" THEN "empty"
  ELSE IF reply.content = "parts" THEN "invalid_schema"
  ELSE IF reply.content \in {"null", "blank"} THEN "empty"
  ELSE IF reply.form = "garbage" THEN "invalid_json"
  ELSE IF reply.form = "mismatch" THEN "invalid_schema"
  ELSE "none"
=============================================================================
