----------------------------- MODULE MCOrgReset -----------------------------
(***************************************************************************)
(* OrgReset on two organizations: one with custom templates and groups,    *)
(* one with a custom profile and a custom gate; and BranchGuard, which is  *)
(* a world of its own.                                                     *)
(***************************************************************************)
EXTENDS OrgReset, BranchGuard

CONSTANTS bank, shop,
    sonarWay, custom, wayGate, hardGate, shopTpl, tplBorn, tplMade, members, team, bankWay

Entities == {sonarWay, custom, wayGate, hardGate, shopTpl, tplBorn, tplMade, members, team, bankWay}
MCOrgOf == [e \in Entities |->
    IF e \in {tplBorn, tplMade, members, team, bankWay} THEN bank ELSE shop]
MCKindOf == [e \in Entities |->
    CASE e \in {sonarWay, custom} -> "profile"
      [] e \in {wayGate, hardGate, bankWay} -> "gate"
      [] e \in {tplBorn, tplMade, shopTpl} -> "template"
      [] OTHER -> "group"]
MCBuiltIn == {sonarWay, wayGate, bankWay, shopTpl, tplBorn, members}

MCSlot == {"java", "gate", "TRK", "bank gate", "shop TRK"}
MCSlotOrg == [s \in MCSlot |-> IF s \in {"TRK", "bank gate"} THEN bank ELSE shop]
MCSlotKind == [s \in MCSlot |->
    CASE s = "java" -> "profile" [] s \in {"TRK", "shop TRK"} -> "template" [] OTHER -> "gate"]
MCFits == [s \in MCSlot |->
    {e \in Entities : MCOrgOf[e] = MCSlotOrg[s] /\ MCKindOf[e] = MCSlotKind[s]}]

CONSTANTS pay, cart
MCProject == {pay, cart}
MCTarget == [p \in MCProject |-> IF p = pay THEN bank ELSE shop]

\* After a migration every default is custom.
Custom == [s \in MCSlot |->
    CASE s = "java" -> custom [] s = "gate" -> hardGate [] s = "TRK" -> tplMade
      [] s = "bank gate" -> bankWay [] OTHER -> shopTpl]
Unheld == [p \in MCProject |-> Absent]
Plain == {sonarWay, wayGate, bankWay, shopTpl}
Usual == [default |-> Custom, named |-> Plain \cup {tplBorn},
          home |-> Unheld, folios |-> {"audit"}]

\* The usual one; the built-in template under another name, and one custom
\* template under its name; the keys held by their target, and by another
\* organization; a gate of the built-in's name.
MCWorlds == {
    Usual,
    [Usual EXCEPT !.named = Plain, !.home = [Unheld EXCEPT ![pay] = bank]],
    [Usual EXCEPT !.named = Plain, !.default = [Custom EXCEPT !["TRK"] = tplBorn],
                  !.folios = {}],
    [Usual EXCEPT !.named = Plain \cup {tplMade}, !.home = [Unheld EXCEPT ![cart] = bank]],
    [Usual EXCEPT !.named = Plain \cup {hardGate, tplBorn}]}

MCSelections == {{}, {bank}, {shop}}

-----------------------------------------------------------------------------
(* Reset and guard are checked in one run: each behaviour is of one of them. *)

CONSTANTS feature, plain
MCBranch    == {feature, plain}
MCReference == {feature}

VARIABLE turn

ResetWorld == ResetInit /\ GuardInit
                   /\ org = "matches" /\ own = "none" /\ ~consults
                   /\ target = [b \in Branch |-> "absent"]
GuardWorld == ResetInit /\ GuardInit
                   /\ default = Usual.default /\ named = Usual.named /\ home = Usual.home
                   /\ folios = Usual.folios

BothInit == \/ turn = "reset" /\ ResetWorld
            \/ turn = "guard" /\ GuardWorld
BothNext == \/ turn = "reset" /\ ResetNext /\ UNCHANGED <<turn, tvars>>
            \/ turn = "guard" /\ GuardNext /\ UNCHANGED <<turn, ovars>>
BothSpec == BothInit /\ [][BothNext]_<<turn, ovars, tvars>>
=============================================================================
