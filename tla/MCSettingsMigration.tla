------------------------ MODULE MCSettingsMigration ------------------------
(***************************************************************************)
(* SettingsMigration on two projects of one organization, and a second     *)
(* organization without projects that comes before it.                     *)
(***************************************************************************)
EXTENDS SettingsMigration

CONSTANTS bank, shop, pay, loan, jacoco, lang

MCOrgSeq == <<shop, bank>>
MCProj   == {pay, loan}
MCHomeOf == [p \in MCProj |-> bank]
MCKey    == {jacoco, lang}

NoRecord == [p \in MCProj |-> [k \in MCKey |-> "none"]]
PayHas(k, r) == [NoRecord EXCEPT ![pay][k] = r]

\* jacoco is listed for organizations, which refuse it; lang is for projects.
Usual == [custom |-> MCKey, declared |-> MCKey, atOrg |-> {jacoco}, orgTakes |-> {},
          atProject |-> MCKey, projectTakes |-> MCKey,
          record |-> [PayHas(jacoco, "own") EXCEPT ![pay][lang] = "own"]]

\* Organizations take jacoco; projects refuse lang; a record that repeats what
\* the project inherits; a key without a declared default.
MCScenarios == {
    Usual,
    [Usual EXCEPT !.orgTakes = {jacoco}, !.record = PayHas(jacoco, "own")],
    [Usual EXCEPT !.projectTakes = {jacoco},
                  !.record = [PayHas(lang, "own") EXCEPT ![loan][lang] = "own"]],
    [Usual EXCEPT !.atProject = {lang}, !.record = PayHas(lang, "as inherited")],
    [Usual EXCEPT !.custom = {jacoco}, !.declared = {}, !.record = PayHas(jacoco, "as inherited")]}

\* One project repeats for itself what it inherits, of a key that Cloud refuses
\* for organizations.
MCRepeated == {[Usual EXCEPT !.record = PayHas(jacoco, "as inherited")]}
=============================================================================
