\* Two imports of four sheets, and an admin who adds, edits and retires items.
SPECIFICATION Spec
CONSTANTS
    bat = bat
    ball = ball
    batCorrected = batCorrected
    amazon = amazon
    Slugs <- MCSlugs
    Contents <- MCContents
    SlugOf <- MCSlugOf
    Links = {amazon}
    Prices = {1, 2}
    Sheets <- MCSheets
    Handlers = {h1, h2}
    NoContent = NoContent
    NoOffer = NoOffer
SYMMETRY Symmetry
INVARIANTS
    LinkedOnce
PROPERTIES
    ImportConverges
    AllOrNothing
    RetiredStays
