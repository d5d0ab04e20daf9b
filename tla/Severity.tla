------------------------------- MODULE Severity -------------------------------
(***************************************************************************)
(* Class ELseverityLevel: the levels, their names, and the level that a    *)
(* name stands for, as in the threshold of a destination's configuration.  *)
(***************************************************************************)
EXTENDS Integers, Sequences

ELsev_zeroSeverity == 1
ELsev_success == 2
ELsev_info == 3
ELsev_warning == 4
ELsev_error == 5
ELsev_unspecified == 6
ELsev_severe == 7
ELsev_highestSeverity == 8

\* getSymbol, getName, getInputStr and getVarName.  A variable's name is
\* padded to the length of the longest.
Symbol(level) == <<"--", "-d", "-i", "-w", "-e", "??", "-s", "!!">>[level]
Name(level) == <<"--", "Debug", "Info", "Warning", "Error", "??", "System", "!!">>[level]
InputStr(level) ==
    <<"ZERO", "DEBUG", "INFO", "WARNING", "ERROR", "UNSPECIFIED", "SYSTEM", "HIGHEST">>[level]
VarName(level) ==
    <<"ELzeroSeverity   ", "ELdebug          ", "ELinfo           ", "ELwarning        ",
      "ELerror          ", "ELunspecified    ", "ELsystem         ", "ELhighestSeverity">>[level]

\* The names of a level in the order in which setSeverity stores them.
NamesOf(level) == <<Symbol(level), Name(level), InputStr(level), VarName(level)>>

\* A slip: loadMap leaves out a level.
SlipLoaded == <<ELsev_zeroSeverity, ELsev_success, ELsev_success, ELsev_info,
                ELsev_error, ELsev_unspecified, ELsev_severe, ELsev_highestSeverity>>

\* The levels in the order of loadMap; ELdebug is ELsuccess.
Loaded == <<ELsev_zeroSeverity, ELsev_success, ELsev_success, ELsev_info, ELsev_warning,
            ELsev_error, ELsev_unspecified, ELsev_severe, ELsev_highestSeverity>>

\* The stores that fill the map, the i-th of them [name, level].
Stored(i) ==
    LET level == Loaded[(i + 3) \div 4]
    IN  [name |-> NamesOf(level)[1 + ((i - 1) % 4)], level |-> level]

\* The constructor from a string: a later store replaces an earlier one, and
\* what nobody stored is ELsev_unspecified.
FromName(name) ==
    LET stores == {i \in 1 .. 4 * Len(Loaded) : Stored(i).name = name}
    IN  IF stores = {} THEN ELsev_unspecified
        ELSE Stored(CHOOSE i \in stores : \A j \in stores : j <= i).level

\* ErrorObj::setSeverity: the levels for thresholds only are not for messages.
ForMessage(level) ==
    IF level <= ELsev_zeroSeverity THEN ELsev_success
    ELSE IF level >= ELsev_highestSeverity THEN ELsev_severe ELSE level
===============================================================================
