---------------------------- MODULE MCAllServices ----------------------------
(***************************************************************************)
(* The components of MCServices, and with them MessengerUDP,               *)
(* DatasetSources and CheckpointUpload, of which no liveness is checked.   *)
(***************************************************************************)
EXTENDS MCServices, MessengerUDP, DatasetSources, CheckpointUpload

CONSTANTS q1, q2, q3, e1, e2, u

TheSizes == <<1, 2, 1>>

(* A video and an episode are different objects: no behaviour reads both.  *)
OnlyRequests ==
    \A r \in Requests : task'[r] # "idle" => (r \in Editors <=> part = "contexts")

AllInit ==
    /\ ServicesInit /\ SourcesInit /\ UploadInit /\ MessengerInit
    /\ isserver => part = "messengers"

AllNext ==
    \/ ServicesNext /\ UNCHANGED <<messengerVars, sourceVars, uploadVars>>
    \/ part = "messengers" /\ MessengerNext /\ UNCHANGED <<parts, sourceVars, uploadVars>>
    \/ part \in {"videos", "contexts"} /\ SourcesNext /\ OnlyRequests
       /\ UNCHANGED <<parts, messengerVars, uploadVars>>
    \/ part = "upload" /\ UploadNext /\ UNCHANGED <<parts, messengerVars, sourceVars>>

AllSpec == AllInit /\ [][AllNext]_<<parts, messengerVars, sourceVars, uploadVars>>
==============================================================================
