---------------------------- MODULE SignerPages ----------------------------
(***************************************************************************)
(* apps/web/app/app/portal/page.tsx: the packets of a signed-in signer,    *)
(* and app/sign/[participantId]/page.tsx: the packet of a link. What the   *)
(* signature consists of is left out.                                      *)
(***************************************************************************)
EXTENDS PageKit

\* loadSummary, then loadSignatureRequests; or both at once.
PortalLoad == <<{"summary"}, {"requests"}>>
PortalLoads == <<Load(<<{"summary"}>>, wanted), Load(<<{"requests"}>>, wanted)>>
PacketLoad == <<{"packet"}>>

-----------------------------------------------------------------------------
(* The portal *)

\* The modal with the packet, its signature and the two buttons.
PacketModal == modal = "packet"

\* openSigningPacket: one packet is fetched at a time.
OpenSigningPacket(p) ==
  /\ modal = None
  /\ Send("openPacket", Flag("packetLoading"), [target |-> p, origin |-> p])
  /\ UNCHANGED <<wanted, modal, edit>>

\* A row's button, once the list is there; or the participant of the address, at
\* the first rendering.
OpenPacket(p) ==
  /\ shown["requests"] # NotShown \/ uses = 0
  /\ OpenSigningPacket(p)

PacketOpened(i) ==
  /\ At(i, "accepted") /\ calls[i].form = "openPacket"
  /\ edit' = [edit EXCEPT !.packet = [target |-> calls[i].target, origin |-> calls[i].target]]
  /\ modal' = "packet"
  /\ End(i)
  /\ UNCHANGED <<page, stored, shown, wanted, uses, troubled>>

CloseSigningModal ==
  /\ PacketModal
  /\ Close
  /\ edit' = [edit EXCEPT !.packet = NoEdit]

\* submitSignature and declineSignature: each has a flag that leaves the other's
\* button alone.
SubmitSignature ==
  /\ PacketModal
  /\ Send("packet", Flag("signing"), edit.packet)
  /\ UNCHANGED <<wanted, modal, edit>>

DeclineSignature ==
  /\ PacketModal
  /\ Send("packet", Flag("declining"), edit.packet)
  /\ UNCHANGED <<wanted, modal, edit>>

\* closeSigningModal closes whatever packet is open by then.
PacketDecided(i) ==
  /\ At(i, "accepted") /\ calls[i].form = "packet"
  /\ modal' = None
  /\ edit' = [edit EXCEPT !.packet = NoEdit]
  /\ Reload(i, PortalLoad)
  /\ UNCHANGED wanted

\* The Refresh button
RefreshPortal ==
  /\ modal = None
  /\ uses < UseBound[page] /\ uses' = uses + 1
  /\ calls' = calls \o PortalLoads
  /\ UNCHANGED <<page, stored, shown, wanted, modal, edit, flags, troubled>>

PortalNext ==
  /\ page = "portal"
  /\ \/ \E p \in Rows : OpenPacket(p)
     \/ CloseSigningModal \/ SubmitSignature \/ DeclineSignature
     \/ RefreshPortal
     \/ \E i \in DOMAIN calls :
          \/ PacketOpened(i) \/ PacketDecided(i)
          \/ Deliver(i, <<>>, {}) /\ UNCHANGED <<wanted, modal, edit>>
          \/ Answer(i, IF calls[i].form = "packet" THEN RoutesOf.portal ELSE {})

-----------------------------------------------------------------------------
(* The link *)

\* The page with the packet, its signature and the two buttons.
PublicPacket == Loaded("packet")

PublicSubmitSignature ==
  /\ PublicPacket
  /\ Send("sign", Flag("signing"), NoEdit)
  /\ UNCHANGED <<wanted, modal, edit>>

PublicDeclineSignature ==
  /\ PublicPacket
  /\ Send("decline", Flag("declining"), NoEdit)
  /\ UNCHANGED <<wanted, modal, edit>>

PublicDecided(i) ==
  /\ At(i, "accepted")
  /\ Reload(i, PacketLoad)
  /\ UNCHANGED <<wanted, modal, edit>>

SignNext ==
  /\ page = "sign"
  /\ \/ PublicSubmitSignature \/ PublicDeclineSignature
     \/ PublicPacket /\ Refresh(PacketLoad)
     \/ \E i \in DOMAIN calls :
          \/ PublicDecided(i)
          \/ Deliver(i, <<>>, {}) /\ UNCHANGED <<wanted, modal, edit>>
          \/ Answer(i, {"packet"})
=============================================================================
