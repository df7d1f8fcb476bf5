------------------------------ MODULE MCQueue -------------------------------
(***************************************************************************)
(* Model of CallQueue: two customers and two operators, the least with     *)
(* which a hangup's connectNextCustomer competes with a login and with     *)
(* another customer's pop; or one operator who calls in again, and finds   *)
(* what the login before left in Redis.                                    *)
(***************************************************************************)
EXTENDS CallQueue

CONSTANTS c1, c2, o1, o2

MCCustomers == {c1, c2}
MCOperators == {o1, o2}
MCOneOperator == {o1}
MCPstn == {o1}
=============================================================================
