---------------------------- MODULE MCSoftForks ----------------------------
(***************************************************************************)
(* Values of the constants of SoftForks for TLC.                           *)
(***************************************************************************)
EXTENDS SoftForks

CONSTANTS static, coldstaking

\* One soft fork.
StaticOnly == {{}, {static}}

\* Two soft forks, the first of them ahead of the second.
StaticFirst == {{}, {static}, {static, coldstaking}}
=============================================================================
