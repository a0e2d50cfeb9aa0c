--------------------------- MODULE RemoteLinkProps ---------------------------
(***************************************************************************)
(* What the two ends of the link may believe of each other.                *)
(***************************************************************************)
EXTENDS RemoteLink

\* Authentications of the current socket that are on their way, running or answered.
Underway ==
  \/ \E k \in DOMAIN up[link.socket] : up[link.socket][k].kind = "authenticate"
  \/ \E n \in DOMAIN jobs : jobs[n].kind = "auth" /\ jobs[n].socket = link.socket
  \/ \E k \in DOMAIN down[link.socket] : down[link.socket][k].kind = "authenticated"

\* The gate is never shut for nothing: while a connected client is not authenticated, the
\* answer it waits for is under way, so its five seconds are the only way to be rejected
\* that does not come from the server or the socket.
GateOpens == (Connected /\ binding # None /\ ~binding.authenticated) => Underway

\* Nothing is under way that could still change what the server sends to the client.
Quiet == /\ Connected
         /\ up[link.socket] = <<>> /\ down[link.socket] = <<>>
         /\ notices = 0
         /\ jobs = <<>>

\* "Re-authentication atomically replaces the server-side channel set for this user"
\* (src/client/interact/remote/client.ts): at rest the client is subscribed to
\* the groups it belongs to, no fewer and no more.
ChannelsCurrent ==
  (Quiet /\ binding # None /\ binding.authenticated)
    => sessions[link.socket].token = None \/ sessions[link.socket].channels = member

\* No call outlives the credential it was sent with: after a new login, a logout or a
\* refusal nothing of the former session can still be answered.
PendingBelongs == \A c \in Calls :
  calls[c].at = "pending" => binding # None /\ calls[c].epoch = binding.token

\* Nothing is awaited in vain: behind every pending call there is its frame on the way
\* up, its job or its answer on the way down, on the socket of the moment; and a call
\* waits for an attempt only while one is made.
CallsUnderway == \A c \in Calls :
  /\ calls[c].at = "pending" =>
       \/ Request(c) \in ToSet(up[link.socket])
       \/ \E n \in DOMAIN jobs : /\ jobs[n].kind = "action"
                                  /\ jobs[n].call = c /\ jobs[n].socket = link.socket
       \/ \E ok \in BOOLEAN : Response(c, ok) \in ToSet(down[link.socket])
  /\ calls[c].at = "attempt" => link.kind = "connecting"
=============================================================================
