------------------------------- MODULE MCTools -------------------------------
(* The instance of Tools that TLC checks: the tools that share state are   *)
(* called together.                                                        *)
EXTENDS Tools, TLC

MCMenus ==
    {{"send_poll", "get_poll_results"}, {"vote_poll", "get_poll_results"}, {"send_poll", "vote_poll"},
     {"send_file", "download_media"}, {"send_audio_message", "download_media"},
     {"send_message", "send_reaction"}, {"send_message", "mark_read"},
     {"ping", "healthz", "list_messages"},
     {"account_op", "mark_read"}, {"set_disappearing_timer", "get_group_info"},
     {"cache_sync", "healthz"},
     {"resolve_jid", "search_contacts"}, {"search_contacts", "get_contact_details"}}
MCRequests == {{}, {1}, {2}}
AgentSymmetry == Permutations(Agents)
=============================================================================
