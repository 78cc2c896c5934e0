------------------------------ MODULE MCWizard ------------------------------
(* Two tablets of two slots; neither tablets nor slots are told apart. *)
EXTENDS WizardProps, TLC

MCSymmetry == Permutations(Tablets) \cup Permutations(Slots)
=============================================================================
