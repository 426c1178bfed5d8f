------------------------------ MODULE FanSkill ------------------------------
(***************************************************************************)
(* The smart fan and the Lambda function of its Alexa skill,               *)
(* ch12/smart_fan/aws/lambda_function.py, on one device shadow.            *)
(*                                                                         *)
(* SetPowerLevel is one request to the shadow.  AdjustPowerLevel is two:   *)
(* the reported level is read, and later the level that results is         *)
(* desired.  Invocations run in parallel and know nothing of each other or *)
(* of what people do at the buttons meanwhile.  Every level goes through   *)
(* update_power.  The other directives only read.                          *)
(***************************************************************************)
EXTENDS SmartFan

CONSTANTS
  Calls,       \* invocations of AdjustPowerLevel that can run at a time
  Asked,       \* levels people ask for
  Changes      \* changes people ask for

ASSUME SkillAssumption ==
  /\ Asked \subseteq Int /\ Changes \subseteq Int
  /\ {0, 33, 66, 100} \subseteq Levels

VARIABLES
  adjust,      \* of every invocation: in progress, the level read, the change
  told         \* what Alexa answered last to a request made at rest, until
               \* somebody else intervenes (history)

skillVars == <<adjust, told>>
allVars   == <<vars, skillVars>>

Waiting == [busy |-> FALSE, level |-> 0, change |-> 0]

SkillTypeOK ==
  /\ TypeOK
  /\ adjust \in [Calls -> [busy : BOOLEAN, level : Levels, change : Changes \cup {0}]]
  /\ told \in Levels \cup {NoLevel}

SkillInit ==
  /\ Init
  /\ adjust = [c \in Calls |-> Waiting]
  /\ told = NoLevel

\* Mutant: the upper bounds are taken for the next level.
UpdatePowerStrict(power_level) ==
  IF power_level = 0 THEN 0
  ELSE IF power_level < 33 THEN 33
  ELSE IF power_level < 66 THEN 66
  ELSE 100

\* Off stays off; anything else, what is below zero included, is rounded up to
\* a speed of the fan.
update_power(power_level) ==
  IF power_level = 0 THEN 0
  ELSE IF power_level <= 33 THEN 33
  ELSE IF power_level <= 66 THEN 66
  ELSE 100

-----------------------------------------------------------------------------
(* The directives *)

\* set_power_level_shadow, and the answer that quotes the level.
set_power_level_shadow(level) ==
  /\ Request(level)
  /\ told' = IF Quiet THEN level ELSE NoLevel

set_power_level(power_level) ==
  /\ set_power_level_shadow(update_power(power_level))
  /\ UNCHANGED adjust

\* adj_power_level: read_power_level_shadow.
ReadReported(c, power_level_change) ==
  /\ ~adjust[c].busy
  /\ adjust' = [adjust EXCEPT ![c] =
                 [busy |-> TRUE, level |-> shadow.reported, change |-> power_level_change]]
  /\ UNCHANGED <<vars, told>>

\* adj_power_level: the rest.
DesireAdjusted(c) ==
  /\ adjust[c].busy
  /\ set_power_level_shadow(update_power(adjust[c].level + adjust[c].change))
  /\ adjust' = [adjust EXCEPT ![c] = Waiting]

-----------------------------------------------------------------------------
Skill ==
  \/ \E level \in Asked : set_power_level(level)
  \/ \E c \in Calls :
       \/ \E change \in Changes : ReadReported(c, change)
       \/ DesireAdjusted(c)

PressButton ==
  /\ \E i \in Idx : Press(i)
  /\ told' = NoLevel
  /\ UNCHANGED adjust

\* The rest of the fan, its network and its Wi-Fi.
FanAlone ==
  /\ Device \/ handle_wifi_connect \/ WifiLost \/ DeltaLost \/ Drop \/ Restart
  /\ UNCHANGED skillVars

SkillNext == Skill \/ PressButton \/ FanAlone

SkillSpec == SkillInit /\ [][SkillNext]_allVars

-----------------------------------------------------------------------------
(* Properties *)

\* What Alexa answered is what the motor does: a level set or adjusted while
\* everything was quiet is carried out, through the shadow, the delta, the
\* queue and the relays, and stays until somebody else intervenes, although the
\* fan's own reports may desire a level too (lambda_function.py:96-111,
\* app_aws.c:130).
AnswerCarriedOut ==
  Quiet /\ ~lost /\ told # NoLevel => apphw_get_state = told

\* The skill and the firmware round alike: the level that an adjustment in
\* progress leads to, when it is one between 0 and 100, becomes the level of the
\* button the firmware would choose for it, so that what Alexa announces is what
\* runs (lambda_function.py:113-123, app_hw.c:128-135).
RoundsAsFirmware ==
  \A c \in Calls :
    LET level == adjust[c].level + adjust[c].change
    IN  adjust[c].busy /\ level \in 0 .. 100 =>
          \/ level = 0 /\ update_power(level) = BtnVal[0]
          \/ level # 0 /\ \E i \in FirstAtLeast(level) : update_power(level) = BtnVal[i]

=============================================================================
