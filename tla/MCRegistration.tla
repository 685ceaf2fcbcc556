--------------------------- MODULE MCRegistration ---------------------------
(* Two controllers with three tries each and enough faults for the server to *)
(* refuse every one of their Creates.                                        *)
EXTENDS Registration

MCControllers == {"a", "b"}
=============================================================================
