--------------------------- MODULE MCControlChain ---------------------------
(* Two devices; the second one owns two transport keys, one of which is    *)
(* already bound to the first device.                                      *)
EXTENDS ControlChain, TLC

CONSTANTS d1, d2, t1, t2

MCIdentities ==
  {[device |-> d1, transport |-> t1], [device |-> d2, transport |-> t2],
   [device |-> d2, transport |-> t1]}

(* Every map of devices to identities whose intervals began by sequence s. *)
MemberMaps(s) ==
  UNION {{f \in [S -> [identity : Identities, admitted_at : 0..s]] :
            \A d \in S : f[d].identity.device = d} : S \in SUBSET Devices}

Consents(chain) ==
  [previous : {Hash(chain), Hash(SubSeq(chain, 1, 1))},
   recipient : Devices, operation : Operations]

Intents(chain) ==
  UNION {{Admit(i) : i \in Identities},
         {Rotate(d, p) : d \in Devices \cup {None}, p \in Policies},
         {Policy(p) : p \in Policies},
         {Transfer(c) : c \in Consents(chain)}}

(* Every body over these values, produced by an honest manager or not.     *)
MCBodies(chain) ==
  LET a == Latest(chain) IN
  IF Len(chain) = MaxControls THEN {} ELSE
  [sequence : {a.sequence, a.sequence + 1}, epoch : a.epoch..(a.epoch + 1),
   manager : Devices, members : MemberMaps(a.sequence + 1), policy : Policies,
   operation : Operations, intent : Intents(chain),
   handoff : {None} \cup Consents(chain), signer : Devices]

Symmetry == Permutations(Operations)
=============================================================================
