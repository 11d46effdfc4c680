---------------------------- MODULE ServerStream ----------------------------
(***************************************************************************)
(* The streaming branch of POST /v1/chat/completions in                    *)
(* agent_ctl/server/app.py: the HTTP handler as the client of Stream.      *)
(*                                                                         *)
(* The handler pulls the first chunk before it answers, so that an error   *)
(* up to there becomes an HTTP status; then the response is a generator of *)
(* SSE frames that pulls the rest.  The HTTP client may disconnect as soon *)
(* as there is a response.  The frame generator is then closed: by its own *)
(* finally clause if it has begun, and otherwise by the interpreter, which *)
(* finalizes the gateway's generator when its last reference goes.         *)
(***************************************************************************)
EXTENDS Stream

VARIABLES status,     \* the HTTP status, once there is a response
          sse,        \* the body: "none", "ready", "frames", "done" or "cut"
          told        \* the usage the last frames carry

serverVars == <<status, sse, told>>

HttpStatuses == {200, 400, 402, 500, 502}

ServerTypeOK ==
  /\ TypeOK
  /\ status \in HttpStatuses \cup {0}
  /\ sse \in {"none", "ready", "frames", "done", "cut"}
  /\ told \in Usages

ServerInit == Init /\ status = 0 /\ sse = "none" /\ told = NoUsage
----------------------------------------------------------------------------
(* The gateway's generator runs in a thread of the pool. *)
GatewayRuns == (Run \/ DeadlinePasses) /\ UNCHANGED serverVars

(* _gateway_error_response *)
ErrorStatus(why) ==
  IF why = "budget" THEN 402 ELSE IF why = "all_failed" THEN 502 ELSE 400

(* The first chunk is there: the response begins. *)
FirstChunk ==
  /\ status = 0 /\ at \in Yields
  /\ status' = 200 /\ sse' = "ready"
  /\ UNCHANGED <<vars, told>>

(* There will be none: an error response, or a server error for what the   *)
(* gateway does not know.                                                  *)
ErrorResponse ==
  /\ status = 0
  /\ \/ at = "raised" /\ status' = ErrorStatus(records[Len(records)].status)
     \/ at = "untyped" /\ status' = 500
  /\ UNCHANGED <<vars, sse, told>>

(* A frame is sent for the chunk and the next chunk pulled.  One that ends *)
(* the stream carries the counts of the generator or the response.         *)
Frame ==
  /\ sse \in {"ready", "frames"} /\ Resume
  /\ sse' = "frames"
  /\ told' = IF at \in TextYields THEN told ELSE usage
  /\ UNCHANGED status

(* Faulty: the closing frames are sent whether or not the stream ended well. *)
ClosingFramesAlways ==
  /\ sse = "frames" /\ at \in {"returned", "raised"}
  /\ sse' = "done"
  /\ UNCHANGED <<vars, status, told>>

(* The gateway's stream is over: finish reason, usage, [DONE]. *)
ClosingFrames ==
  /\ sse = "frames" /\ at = "returned"
  /\ sse' = "done"
  /\ UNCHANGED <<vars, status, told>>

(* It raised: the body just ends. *)
BodyBreaks ==
  /\ sse = "frames" /\ at = "raised"
  /\ sse' = "cut"
  /\ UNCHANGED <<vars, status, told>>

(* Faulty: the gateway's generator is not closed with the body. *)
DisconnectLeaving ==
  /\ sse \in {"ready", "frames"}
  /\ at \in Yields \cup {"returned", "raised"} /\ UNCHANGED vars
  /\ sse' = "cut"
  /\ UNCHANGED <<status, told>>

(* The client is gone: the gateway's generator is closed where it is.  A   *)
(* pull that is under way is waited for, and then closed at its yield.     *)
Disconnect ==
  /\ sse \in {"ready", "frames"}
  /\ \/ CloseInTry \/ CloseAfter
     \/ at \in {"returned", "raised"} /\ UNCHANGED vars
  /\ sse' = "cut"
  /\ UNCHANGED <<status, told>>

(* The response is over. *)
Over == sse \in {"done", "cut"} \/ status \notin {0, 200}

ServerStep == FirstChunk \/ ErrorResponse \/ Frame \/ ClosingFrames \/ BodyBreaks

ServerNext ==
  \/ GatewayRuns \/ ServerStep \/ Disconnect
  \/ Over /\ UNCHANGED <<vars, serverVars>>

allVars == <<vars, serverVars>>

ServerSpec == ServerInit /\ [][ServerNext]_allVars

(* The gateway's generator and the server run, time passes; a client need  *)
(* not ever disconnect.                                                    *)
ServerFairSpec ==
  /\ ServerSpec
  /\ WF_allVars(Run /\ UNCHANGED serverVars)
  /\ WF_allVars(ServerStep)
  /\ WF_allVars(DeadlinePasses /\ UNCHANGED serverVars)
----------------------------------------------------------------------------
(* A response with an error status leaves no one behind: the gateway's     *)
(* stream has ended, no text of it was pulled and lost, and it is 402 just *)
(* when the call was recorded as refused by the budget.                    *)
ErrorsComeFirst ==
  status \notin {0, 200} =>
    /\ at \in Ends /\ heard = {}
    /\ status = 402 <=> (records # <<>> /\ records[1].status = "budget")

(* Whichever way the body ends -- complete, broken, the client gone before *)
(* its first frame -- no provider stream and no generator is left open.    *)
BodyEndsStream == Over => at \in Ends /\ upstream # "open"

(* A client that has seen [DONE] was served: the call has one record, it   *)
(* is no error, and the usage the client was told is what was charged.     *)
DoneIsCharged ==
  sse = "done" =>
    /\ Len(records) = 1
    /\ records[1].status \in {"success", "fallback_success", "deadline"}
    /\ told = records[1].cost

(* The response tells the client what the gateway recorded: an error only  *)
(* before any text, [DONE] only for a call that was served and charged.    *)
ResponseHonest == ErrorsComeFirst /\ DoneIsCharged

(* With a deadline every request is answered to its end, also by providers *)
(* that stream for ever and for clients that stay.                         *)
RequestEnds == HasDeadline => <>Over

============================================================================
