---------------------------- MODULE MCSmokeTest ----------------------------
(* The boxes of the run: a sound one, and for each group of checks one or  *)
(* two that are wrong in just what it looks at.                            *)
EXTENDS SmokeTest

SoundBox ==
  [sudo |-> TRUE, default |-> TRUE, down |-> {}, dashboard |-> "absent", df |-> TRUE,
   chain |-> TRUE, netbird |-> "on", wg |-> "no_conf", config |-> "good"]

MCBoxes ==
  {SoundBox}
    \cup {[SoundBox EXCEPT !.sudo = FALSE], [SoundBox EXCEPT !.default = FALSE],
          [SoundBox EXCEPT !.df = FALSE], [SoundBox EXCEPT !.chain = FALSE],
          [SoundBox EXCEPT !.config = "bad_json"]}
    \cup {[SoundBox EXCEPT !.down = {"ppsa-backup"}]}
    \cup {[SoundBox EXCEPT !.dashboard = d] : d \in {"running", "exited"}}
    \cup {[SoundBox EXCEPT !.netbird = "off"]}
    \cup {[SoundBox EXCEPT !.wg = w] : w \in {"bad_json", "handshake"}}

JoiningBox == {[SoundBox EXCEPT !.netbird = "joining"]}
OneBox == {SoundBox}
=============================================================================
