\* The copy of a site, through reloads, restarts and lost links.
CONSTANTS
  Trees <- MCTrees
  FirstTree <- MCFirst
  Fds = {3, 4}
  Links = {1, 2, 3}
  Events = 2
  Changes = 2
  Reloads = 1
  Faults = 2
  Accepts = 1
SPECIFICATION Spec
INVARIANTS TypeOK CacheFollowsDaemon SslOfItsOwn
PROPERTIES NewLinkSurvives  
