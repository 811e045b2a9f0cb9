--------------------------- MODULE MCUserDirectory ---------------------------
(* Small instances of UserDirectory for TLC. *)
EXTENDS UserDirectory, TLC

\* Users, emails and usernames but the seeded ones, and slots that fail alike, are
\* interchangeable.
AccountSymmetry ==
  Permutations(User \ {Admin}) \cup Permutations(Request)
    \cup Permutations(Email \ {AdminEmail}) \cup Permutations(Username \ {AdminUsername})

=============================================================================
