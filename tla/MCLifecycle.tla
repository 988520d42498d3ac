---------------------------- MODULE MCLifecycle ----------------------------
(***************************************************************************)
(* Instance for TLC of what happens around the episodes of an environment: *)
(* its image is released, it is updated, its processes are started and     *)
(* watched, the controller connects to the game and asks for resets, and   *)
(* the game's script reads the text of its file of roads.  The six share   *)
(* no state, so that a behaviour is about one of them, with the others at  *)
(* rest.                                                                   *)
(***************************************************************************)
EXTENDS Update, AmiRelease, Supervisor, Connect, ResetHandshake, XMLText

VARIABLE scene

Piece(src, says) == [src |-> src, says |-> says]
Same(src) == Piece(src, src)

\* Pieces of a value: a blank, the line ends, &, a double quote, &#q; and references to < & " a
\* carriage return and e-acute.
MCPieces ==
  { Same(<<Blank>>), Same(<<CR>>), Same(<<LF>>), Same(<<Amp>>), Same(<<Quote>>),
    Same(<<Amp, 35, 113, 59>>),
    Piece(<<38, 108, 116, 59>>, <<Less>>), Piece(<<38, 97, 109, 112, 59>>, <<Amp>>),
    Piece(<<38, 113, 117, 111, 116, 59>>, <<Quote>>), Piece(<<38, 35, 49, 51, 59>>, <<CR>>),
    Piece(<<38, 35, 120, 101, 57, 59>>, <<195, 169>>) }

MCModes == { [entities |-> TRUE, collapse |-> FALSE], [entities |-> TRUE, collapse |-> TRUE],
             [entities |-> FALSE, collapse |-> FALSE] }

Scenes == {"update", "release", "supervise", "connect", "request", "values"}

MCInit ==
  /\ Init /\ InitRelease /\ InitSupervisor /\ InitConnect /\ InitHandshake /\ InitText
  /\ scene \in Scenes
  /\ scene # "connect" => game = "menu"
  /\ scene # "supervise" => running = {} /\ ~ folder

Rest(s, its) == IF scene = s THEN TRUE ELSE UNCHANGED its

InScene(s, A) ==
  /\ scene = s /\ A /\ UNCHANGED scene
  /\ Rest("update", vars) /\ Rest("release", releaseVars) /\ Rest("supervise", supervisorVars)
  /\ Rest("connect", connectVars) /\ Rest("request", handshakeVars)
  /\ Rest("values", textVars)

\* update.py and copy_ami.py come to an end, at the latest at their bounds.
Ended == scene \in {"update", "release"} /\ UNCHANGED <<vars, releaseVars, supervisorVars,
                                                      connectVars, handshakeVars, textVars, scene>>

MCNext ==
  \/ InScene("update", Next)
  \/ InScene("release", NextRelease)
  \/ InScene("supervise", NextSupervisor)
  \/ InScene("connect", NextConnect)
  \/ InScene("request", NextHandshake)
  \/ InScene("values", NextText)
  \/ Ended

MCVars == <<vars, releaseVars, supervisorVars, connectVars, handshakeVars, textVars, scene>>

MCSpec ==
  /\ MCInit /\ [][MCNext]_MCVars
  /\ WF_MCVars(InScene("release", Publishing))
  /\ WF_MCVars(InScene("supervise", Runner))
  /\ WF_MCVars(InScene("connect", Main)) /\ WF_MCVars(InScene("connect", Server))
  /\ WF_MCVars(InScene("connect", Tick)) /\ WF_MCVars(InScene("connect", EndLoading))
  /\ WF_MCVars(InScene("request", Script))
=============================================================================
