------------------------------ MODULE SharedXpu ------------------------------
(***************************************************************************)
(* One XPU, two protocols: the image agents of scheduler.js and the        *)
(* external clients of the ComfyUI bridge and of the upscale server, over  *)
(* the same waiters, the same lease and the same two engines.              *)
(***************************************************************************)
EXTENDS AgentLease, ExternalLease

ASSUME KindAssumption == Clients = Agents \cup Externals /\ Agents \cap Externals = {}

SharedNext ==
  \/ Environment
  \/ \E c \in Agents : AgentStep(c)
  \/ \E c \in Externals : ExternalStep(c)

SharedSpec == Init /\ [][SharedNext]_vars

\* Two prompts meet in ComfyUI only when the lease of one ended while the prompt was
\* on its way, or one belongs to an external client that was robbed of its lease: a
\* delegated prompt is checked against the lease when it is accepted, an external
\* one is not.
ComfyExclusive ==
  \A c, d \in comfy : c # d => {c, d} \cap (strays \cup (Externals \cap stolen)) # {}

\* SECURITY.md: "A lease is reclaimed only after a stale heartbeat and confirmation
\* that ComfyUI and Upscale are idle": no client removes the owner.json of another
\* one unless both hold at that moment.
ReclaimedOnlyWhenStaleAndIdle ==
  [][stolen' # stolen /\ lease'.owner = Nobody => lease.late /\ Running = {}]_vars

\* An external client that comes to the top of its loop again and again finds its
\* deadline past at last; the rest as for agents.
SharedFairness ==
  /\ AgentFairness
  /\ \A c \in Externals :
       /\ SF_vars(ExternalGivesUp(c))
       /\ WF_vars(ExternalQueues(c) \/ ExternalClaims(c))
       /\ WF_vars(ExternalHolds(c))
       /\ WF_vars(ExternalReleases(c))
       /\ WF_vars(ExternalArrives(c) \/ NeverArrives(c))
       /\ WF_vars(Beat(c)) /\ WF_vars(BeatOpen(c)) /\ WF_vars(BeatWrite(c))

FairSharedSpec == SharedSpec /\ SharedFairness
=============================================================================
