------------------------------- MODULE MCHttp -------------------------------
(***************************************************************************)
(* Two connections, for one of which the device may fail.  Token 1 decodes *)
(* to no text; the prompt of six tokens is too long, all others fit        *)
(* (RequestsFit).                                                          *)
(***************************************************************************)
EXTENDS HttpProps

Tokens == 0..2

MCGreedy(ctx) == (ctx[1] + 2 * ctx[Len(ctx)] + Len(ctx)) % 3

Ask(method, route, valid, stream, max_tokens, prompt) ==
  [method |-> method, route |-> route, valid |-> valid, stream |-> stream, max_tokens |-> max_tokens,
   prompt |-> prompt]

AllRequests ==
  {Ask("POST", "chat", TRUE, TRUE, 0, <<0>>), Ask("POST", "responses", TRUE, TRUE, 4, <<1, 0>>),
   Ask("POST", "messages", TRUE, TRUE, 2, <<2>>), Ask("POST", "chat", TRUE, FALSE, 1, <<0, 0, 0, 0, 0, 0>>),
   Ask("POST", "messages", TRUE, FALSE, 4, <<0>>), Ask("GET", "health", TRUE, FALSE, 2, <<0>>)}
=============================================================================
