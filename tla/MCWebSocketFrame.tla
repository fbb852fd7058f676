-------------------------- MODULE MCWebSocketFrame --------------------------
(* Small instances of WebSocketFrame.                                      *)
EXTENDS WebSocketFrame, TLC

Frames(kinds, forms, payloads, keys) ==
  [kind : kinds, form : forms, payload : payloads, key : keys]

(* A frame of each kind and length form, then one under another key.        *)
MCTraffic ==
  {<<f, g>> :
     f \in Frames({"text", "ping", "pong"}, {0, 126, 127}, {<<65>>, <<255, 0>>},
                  {<<1, 2, 3, 4>>}),
     g \in Frames({"text", "close"}, {0, 126}, {<<66, 7, 9>>}, {<<129, 64, 0, 255>>})}

=============================================================================
