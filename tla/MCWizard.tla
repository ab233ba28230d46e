------------------------------ MODULE MCWizard ------------------------------
(* Model constants for Wizard.                                             *)
EXTENDS Wizard

CONSTANTS sda, sdb, zram, part, ana, bia, typo, tz

MCDisks == {sda, sdb}
MCSwaps == {zram, part}
\* sdb is too small for a swap partition.
MCPlannable == Choice \ {[disk |-> sdb, swap |-> part]}

\* ana and bia are good; the page stops typo, only the backend stops tz.
MCConfigs == {ana, bia, typo, tz}
MCFormOk == {ana, bia, tz}
MCValidConfigs == {ana, bia}

Setting(o, p, f) == [inOrder |-> o, patient |-> p, forms |-> f]
\* Without an order the difference between two good forms does not matter.
AnySetting == {Setting(FALSE, FALSE, {ana, typo, tz}), Setting(TRUE, FALSE, MCConfigs),
               Setting(TRUE, TRUE, MCConfigs)}
InOrderOnly == {Setting(TRUE, FALSE, MCConfigs)}
Waiting == {Setting(TRUE, TRUE, MCConfigs)}
=============================================================================
