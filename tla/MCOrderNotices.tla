--------------------------- MODULE MCOrderNotices ---------------------------
(* Orders for TLC: one placed by a session and one placed elsewhere. The   *)
(* sessions may read both accounts, but for the last one, which cannot     *)
(* read the order placed elsewhere.                                        *)
EXTENDS OrderNotices

CONSTANTS own, elsewhere

MCCanRead == (SessionPK \X Order) \ {<<MaxSession, elsewhere>>}
=============================================================================
