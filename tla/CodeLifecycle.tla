--------------------------- MODULE CodeLifecycle ---------------------------
(***************************************************************************)
(* What the access-code store promises, without Redis keys, indexes or      *)
(* request records: a code is issued once, with an expiry that never        *)
(* changes; it is live until it is revoked, expired or deleted, and then    *)
(* ended for good; a grant is signed only by a validation that found the    *)
(* code live, and never after the code's expiry.                            *)
(*                                                                          *)
(* CodeStore implements this specification (see CodeStore!Lifecycle).       *)
(***************************************************************************)
EXTENDS Naturals

CONSTANTS Client,    \* the invocations that may validate a code
          Code,      \* access codes
          None       \* the absent value

VARIABLES phase,     \* phase[c] \in {"unissued", "live", "ended"}
          expiry,    \* expiry[c]: None, or the last instant c is valid
          admitted,  \* admitted[p]: the code p found live and may grant
          grant,     \* the grant signed last, None before the first
          now        \* the server's clock

vars == <<phase, expiry, admitted, grant, now>>

Init ==
  /\ phase = [c \in Code |-> "unissued"]
  /\ expiry = [c \in Code |-> None]
  /\ admitted = [p \in Client |-> None]
  /\ grant = None
  /\ now \in Nat

(* A fresh code goes live and its expiry is fixed. *)
Issue(c) ==
  /\ phase[c] = "unissued"
  /\ phase' = [phase EXCEPT ![c] = "live"]
  /\ expiry'[c] \in Nat
  /\ expiry' = [expiry EXCEPT ![c] = expiry'[c]]
  /\ UNCHANGED <<admitted, grant, now>>

(* Revocation, lazy expiration or deletion: there is no way back. *)
End(c) ==
  /\ phase[c] = "live"
  /\ phase' = [phase EXCEPT ![c] = "ended"]
  /\ UNCHANGED <<expiry, admitted, grant, now>>

(* A validation finds the code live. *)
Admit(p, c) ==
  /\ phase[c] = "live"
  /\ admitted' = [admitted EXCEPT ![p] = c]
  /\ UNCHANGED <<phase, expiry, grant, now>>

(* The admitted validation signs, with the code's one expiry. *)
Grant(p, c) ==
  /\ admitted[p] = c
  /\ now <= expiry[c]
  /\ grant' = [code |-> c, issuedAt |-> now, expiresAt |-> expiry[c]]
  /\ admitted' = [admitted EXCEPT ![p] = None]
  /\ UNCHANGED <<phase, expiry, now>>

(* The validation is refused after all, or dies. *)
Drop(p) ==
  /\ admitted' = [admitted EXCEPT ![p] = None]
  /\ UNCHANGED <<phase, expiry, grant, now>>

Pass ==
  /\ now' \in Nat
  /\ now' > now
  /\ UNCHANGED <<phase, expiry, admitted, grant>>

Next ==
  \/ \E c \in Code : Issue(c) \/ End(c)
  \/ \E p \in Client : (\E c \in Code : Admit(p, c) \/ Grant(p, c)) \/ Drop(p)
  \/ Pass

Spec == Init /\ [][Next]_vars

-----------------------------------------------------------------------------
(* What follows from it, for whatever implements it *)

(* The grant is for a code that was issued, carries that code's expiry, and   *)
(* was signed no later.                                                       *)
GrantAsIssued ==
  grant # None =>
    /\ grant.code \in Code /\ phase[grant.code] # "unissued"
    /\ grant.expiresAt = expiry[grant.code]
    /\ grant.issuedAt <= grant.expiresAt

(* Once a code has ended it stays so, no validation finds it live any more,   *)
(* and only one that already did may still sign.                              *)
EndKept ==
  \A c \in Code : phase[c] = "ended" =>
    /\ phase'[c] = "ended"
    /\ \A p \in Client : admitted'[p] = c => admitted[p] = c
    /\ grant' # grant /\ grant'.code = c => \E p \in Client : admitted[p] = c

EndIsFinal == [][EndKept]_vars
=============================================================================
