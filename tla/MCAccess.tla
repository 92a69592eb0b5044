------------------------------ MODULE MCAccess ------------------------------
(* Access on small instances.  Each behaviour uses the endpoints of one    *)
(* set, which is what two or three racing requests can call.               *)
EXTENDS Access, TLC

Races ==
  {{"login", "guess"},
   {"login", "passkey", "suspend", "select"},
   {"sso", "login", "issue", "reset"},
   {"issue", "accept", "suspend"},
   {"passkey", "select", "set", "change"},
   {"enroll", "confirm", "remove", "register"},
   {"verify", "enroll", "confirm"},
   {"login", "register", "enroll", "confirm"},
   {"assert", "code", "select", "admin", "switch"},
   {"assert", "select", "close", "expire"},
   {"select", "admin", "close", "leave", "promote"},
   {"verify", "reset", "issue", "expire"},
   {"passkey", "logout", "revoke", "others", "expel", "select"},
   {"passkey", "select", "admin", "switch"},
   {"select", "switch", "close", "change", "suspend"}}

Symmetry ==
  Permutations(Sessions) \cup Permutations(Requests) \cup Permutations(Tenants)
=============================================================================
