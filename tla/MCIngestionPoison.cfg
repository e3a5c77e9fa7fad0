SPECIFICATION FairSpec
CONSTANTS
  Workers = {w1, w2}
  Msgs = {m1, m2}
  MaxRetries = 0
  NoMsg = NoMsg
  Urls <- MCUrls
  CanonicalUrl <- MCCanonicalUrl
  Texts <- MCTexts
  ContentHash <- MCContentHash
  Blank <- MCBlank
  Htmls = {h1, h2}
  NoHtml = NoHtml
  Listings <- MCSyndicatedListings
  NumSources = 1
  BatchSize = 2
  Ids = {i1, i2, i3}
  u1 = u1
  u1utm = u1utm
  u2 = u2
  u3 = u3
  x1 = x1
  x2 = x2
  x3 = x3
  h1 = h1
  h2 = h2
PROPERTIES
  KeepsIngesting
