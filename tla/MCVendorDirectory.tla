-------------------------- MODULE MCVendorDirectory --------------------------
(* Small instances of VendorDirectory for TLC. *)
EXTENDS VendorDirectory, TLC

VendorSymmetry == Permutations(Vendor) \cup Permutations(Request)

=============================================================================
