-------------------------------- MODULE MCNames --------------------------------
(***************************************************************************)
(* Instances of Names for TLC.                                             *)
(***************************************************************************)
EXTENDS Names

LongCategory == <<"category1", "category2">>

MCWidth(symbol) ==
    CASE symbol \in {NL, SP, ":", "1", "0"} -> 1
      [] OTHER -> 7

MCNumbers == {"0", "1"}
MCIteration == <<"event1">>

Own == 1
Other == 2
Programs == [pid \in {Own, Other} |-> IF pid = Own THEN <<"own">> ELSE <<"other">>]
Env(host, lookup, interfaces) ==
    [pid |-> Own, host |-> host, lookup |-> lookup, interfaces |-> interfaces,
     program |-> Programs]

\* The name is looked up; or it is not, and the interfaces are a loopback and
\* another, in both orders, or with ones that have no internet address first,
\* or loopbacks only, or none, or are not to be had.
Local == <<"127.0.0.1">>
Local6 == <<"::1">>
Public == <<"address1">>
Second == <<"address2">>
MCEnvironments ==
    {Env(<<"host">>, <<"address0">>, Nothing), Env(Nothing, Nothing, Nothing)}
      \cup {Env(<<"host">>, Nothing, interfaces) :
              interfaces \in {<<Local, Public, Second>>, <<Public, Local>>,
                              <<Nothing, Nothing, Local, Local6, Public>>,
                              <<Nothing, Local, Local6>>, <<>>}}

MCApplicationNames == {<<>>, <<"given">>}
Given(field, value) == [field |-> field, value |-> value]
MCRenamings == {Given("hostaddr", <<"address3">>), Given("pid", Other)}

Said(file, line, message) == [file |-> file, line |-> line, message |-> message]
MCSettings ==
    {Given("severity", "ERROR"), Given("severity", "nonsense"),
     Given("severity", "HIGHEST"), Given("category", LongCategory), Given("hostname", <<"sender">>),
     Given("pid", 3), Given("iteration", <<"event2">>)}
      \cup {Given("message", m) :
              m \in {Said(<<"file">>, <<"1">>, <<"text", NL>>), Said(<<"file">>, <<"word">>, <<>>),
                     Said(<<>>, <<"1">>, <<"text">>), Said(<<"file">>, <<"1">>, <<"@SUB=", "sub">>),
                     Said(<<"file">>, <<"1", "word">>, <<"text">>)}}
===============================================================================
