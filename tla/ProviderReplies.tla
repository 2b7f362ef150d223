--------------------------- MODULE ProviderReplies ---------------------------
(***************************************************************************)
(* The two ways a reply of a provider reaches a session (pkg/models): as a *)
(* whole, from Chat (ProviderWire), and piece by piece, from ChatStream    *)
(* (ProviderStream).  A run of the session uses one of them.               *)
(***************************************************************************)
EXTENDS ProviderWire, ProviderStream

\* A call of a reply that comes as events reaches the session only whole, and a
\* stream's text, calls and usage are what the server sent
\* (convertFromResponsesStreamBody and the ChatStream loops).
CallsWhole == RepliesWhole /\ StreamFaithful
=============================================================================
