----------------------------- MODULE MCApiTables -----------------------------
(* A small instance of ApiTables: an email, the keys of two users for one  *)
(* provider and a device of one of them.                                   *)
EXTENDS ApiTables

MCSlots == [table : {"users"}, owner : {"u1"}, name : {"email"}]
             \cup [table : {"api_keys"}, owner : {"u1", "u2"}, name : {"openai"}]
             \cup [table : {"device_registrations"}, owner : {"u1"}, name : {"token"}]
==============================================================================
