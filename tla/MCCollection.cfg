SPECIFICATION Spec
CONSTANTS
  Processes = {w1, w2}
  kept = kept
  other = other
  wire = wire
  press = press
  Sites = {wire, press}
  Links = {kept, other}
  SiteOf <- MCSiteOf
  Disallowed = {kept}
  Pages = {page}
  NoPage = NoPage
  NoLink = NoLink
  Feeds <- MCFeeds
  PageSources = {kept}
  MaxEntries = 3
INVARIANTS
  TypeOK
  RobotsObeyed
  PartialIsAccounted
  ArticlesHaveFiles
SYMMETRY Symmetry
